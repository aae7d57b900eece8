------------------------------ MODULE AskSession ------------------------------
(***************************************************************************)
(* One question asked from the Ask page: the browser's socket client        *)
(* (frontend/src/api/askSocket.ts) and the page's fallback to plain HTTP    *)
(* (frontend/src/pages/AskPage.tsx, submitQuestion) composed with the       *)
(* server's socket run (AskServer) and the HTTP run of POST /chats/{id}/ask.*)
(* The network may drop the socket, lose the HTTP answer, and the server    *)
(* process may crash and come back, losing everything but the database.     *)
(***************************************************************************)
EXTENDS AskServer

VARIABLES
  client,   \* waiting for run_started, live, fallen back to http, done
  shown,    \* what the page finally shows for the question
  recv,     \* how many server events the client has handled, in order
  http,     \* the fallback run on the server: not asked, running, saved, failed
  crashed   \* has the server process crashed?  (it crashes at most once)

pageVars    == <<client, shown, recv, http>>
sessionVars == <<vars, pageVars, crashed>>

SessionTypeOK ==
  /\ TypeOK
  /\ client \in {"waiting", "live", "http", "done"}
  /\ shown \in {"nothing", "answer", "error", "cancelled"}
  /\ recv \in 0..sent
  /\ http \in {"none", "running", "saved", "failed"}
  /\ crashed \in BOOLEAN

\* The page always asks inside a chat session: it creates one if need be.
SessionInit ==
  /\ Init /\ chat = TRUE
  /\ client = "waiting" /\ shown = "nothing" /\ recv = 0
  /\ http = "none" /\ crashed = FALSE

-----------------------------------------------------------------------------
(* The browser.  Everything after a frame is handled in one callback.      *)

serverVars == <<chat, coord, flow, txVars, spent, events, senderVars, watcher>>

\* socket.onopen
SocketOpens ==
  /\ client = "waiting" /\ ClientSend("start")
  /\ UNCHANGED <<pageVars, crashed>>

\* fail(): the socket is closed, the promise rejects and the page posts the
\* same question over HTTP.
GiveUpAndPost ==
  /\ peer' = FALSE
  /\ client' = "http" /\ http' = "running"
  /\ UNCHANGED <<serverVars, inbox, shown, crashed>>

\* The start timer fires before run_started has been handled.
StartTimesOut ==
  /\ client = "waiting" /\ GiveUpAndPost
  /\ UNCHANGED recv

\* The event the client handles next, and what the page shows after it.
Arriving == events[recv + 1]
Shows(e) == CASE e = "final_result" -> "answer"
              [] e = "error"        -> "error"
              [] OTHER              -> "cancelled"

\* socket.onmessage before run_started: anything else fails the attempt.
FirstMessage ==
  /\ client = "waiting" /\ peer /\ recv < sent
  /\ recv' = recv + 1
  /\ \/ /\ Arriving = "run_started" /\ client' = "live"
        /\ UNCHANGED <<serverVars, clientVars, shown, http, crashed>>
     \/ Arriving # "run_started" /\ GiveUpAndPost

\* socket.onmessage of a started run: a terminal event closes the socket.
NextMessage ==
  /\ client = "live" /\ peer /\ recv < sent
  /\ recv' = recv + 1
  /\ IF Arriving \in Terminals
     THEN client' = "done" /\ shown' = Shows(Arriving) /\ peer' = FALSE
     ELSE UNCHANGED <<client, shown, peer>>
  /\ UNCHANGED <<serverVars, inbox, http, crashed>>

\* The page's stop button.
Cancel ==
  /\ client = "live" /\ ClientSend("cancel")
  /\ UNCHANGED <<pageVars, crashed>>

\* Mutants of OnClose: a run that has started is posted again; and the loss of a
\* started run is ignored.
OnClosePostsAgain ==
  /\ client \in {"waiting", "live"} /\ GiveUpAndPost
  /\ UNCHANGED recv

OnCloseIgnoresRun ==
  /\ client = "waiting" /\ GiveUpAndPost
  /\ UNCHANGED recv

\* socket.onclose: falls back if the run never started, else reports the loss.
OnClose ==
  /\ client \in {"waiting", "live"}
  /\ IF client = "waiting"
     THEN GiveUpAndPost
     ELSE /\ client' = "done" /\ shown' = "error" /\ peer' = FALSE
          /\ UNCHANGED <<serverVars, inbox, http, crashed>>
  /\ UNCHANGED recv

ServerClosed == coord = "closed" /\ (recv = sent \/ crashed) /\ OnClose
NetworkDrop  == peer /\ OnClose

\* askInChat resolves, or rejects with the server's error or a network failure.
HttpAnswer ==
  /\ client = "http" /\ client' = "done"
  /\ \/ http = "saved" /\ shown' = "answer"
     \/ shown' = "error"
  /\ UNCHANGED <<vars, recv, http, crashed>>

-----------------------------------------------------------------------------
(* The server besides the socket run.                                      *)

\* POST /chats/{id}/ask: the same flow in a request transaction, committed
\* before the answer is sent; with the chat turn, all or nothing.
HttpRun ==
  /\ http = "running" /\ http' \in {"saved", "failed"}
  /\ UNCHANGED <<vars, client, shown, recv, crashed>>

\* The process dies: tasks, queue and uncommitted rows are gone; a COMMIT the
\* database already has in hand may still be applied.
Crash ==
  /\ ~crashed /\ crashed' = TRUE
  /\ coord' = "closed" /\ sender' = "failed"
  /\ flow' = IF flow \in FlowEnds THEN flow ELSE "cancelled"
  /\ IF session = "committing"
     THEN UNCHANGED <<session, pending>>
     ELSE session' = "failed" /\ pending' = {}
  /\ http' = IF http = "running" THEN "failed" ELSE http
  /\ UNCHANGED <<chat, db, spent, events, sent, watcher, clientVars, client, shown, recv>>

-----------------------------------------------------------------------------

PageNext ==
  \/ SocketOpens \/ StartTimesOut \/ FirstMessage \/ NextMessage
  \/ ServerClosed \/ HttpAnswer

SessionNext ==
  \/ ServerNext /\ UNCHANGED <<pageVars, crashed>>
  \/ PageNext \/ Cancel \/ NetworkDrop \/ HttpRun \/ Crash
  \/ Finished /\ UNCHANGED <<pageVars, crashed>>

\* The browser delivers frames and timers, and both runs end; nobody has to
\* press stop, and neither the network nor the server has to fail.
SessionSafety == SessionInit /\ [][SessionNext]_sessionVars
SessionSpec ==
  /\ SessionSafety
  /\ WF_sessionVars(ServerNext /\ UNCHANGED <<pageVars, crashed>>)
  /\ WF_sessionVars(PageNext) /\ WF_sessionVars(HttpRun)

-----------------------------------------------------------------------------
(* Properties.                                                             *)

\* An answer the page shows is durable: a history row for it is committed,
\* whichever transport brought it and whatever crashed after.
ShownAnswerIsSaved ==
  shown = "answer" => "history" \in db \/ http = "saved"

\* The page posts the question again only if it has not handled run_started;
\* the handle that could cancel the run does not exist before that.
FallbackOnlyBeforeStart ==
  http # "none" => \A i \in 1..recv : events[i] # "run_started"

\* The inductive strengthening of the two: what the browser has handled and asked
\* for, and what a crash leaves of the run.  A COMMIT the database has in hand is
\* whole, and nobody has been told how the run ended.
PageInv ==
  /\ client = "waiting" => recv = 0
  /\ client \in {"waiting", "live"} => http = "none"

CrashLeaves ==
  /\ coord = "closed"
  /\ session = "committing" =>
       /\ "history" \in pending /\ ("turn" \in pending <=> chat) /\ db = {}
       /\ ~Queued("final_result") /\ ~Queued("error")

\* What the client has been told agrees with the database and the run's rows are
\* committed together, though the process dies at any await.
CrashInv ==
  /\ TerminalMatchesDb /\ RowsAllOrNothing
  /\ IF crashed THEN CrashLeaves ELSE RunInv

\* Types, where the page may fall back (askSocket.ts:61-109), and what a crash
\* of the server leaves.
SessionInv == SessionTypeOK /\ FallbackOnlyBeforeStart /\ PageInv /\ CrashInv

\* Every question ends with something shown for it, through drops and crashes.
QuestionSettles == <>(client = "done" /\ shown # "nothing")

\* askSocket.ts, lines 4 to 7: a failure before run_started lets the caller
\* retry over plain HTTP without double-spending AI tokens.
NoDoubleSpend == ~(spent /\ http = "saved")

=============================================================================
