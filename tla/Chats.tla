-------------------------------- MODULE Chats --------------------------------
(***************************************************************************)
(* One chat: its questions (routers/chats.py, services/chat_context.py), the *)
(* runs of its statements (routers/execute.py) and their reruns              *)
(* (routers/history.py), by concurrent requests, each one transaction of the *)
(* panel database at read committed.  A request reads what is committed      *)
(* then, waits for the row locks it needs and publishes when it commits; the *)
(* ORM writes the columns that differ from what it loaded, and fails if the  *)
(* row it updates is gone.                                                  *)
(*                                                                         *)
(* A turn is named by the request that asked it, and so is its history row.  *)
(***************************************************************************)
EXTENDS PanelRows, Integers, SequencesExt

CONSTANTS
  Requests,    \* requests, each handled once
  Past,        \* the turn an older chat has
  Nothing,     \* NULL
  MaxTurns,    \* settings.chat_history_max_turns
  MaxChars,    \* settings.chat_history_max_chars, in pieces of text
  Results      \* what a statement can return: a stand-in for the rows

ASSUME ChatsAssumption ==
  /\ MaxTurns \in Nat /\ MaxChars \in Nat
  /\ Past \notin Requests /\ Nothing \notin Requests \cup Results \cup {Past}
  /\ \A t \in Requests \cup {Past} : t \notin Nat /\ t # "New chat"

VARIABLES
  chat,      \* the chat's row; present and source: it and its connection exist
  messages,  \* committed messages, by id
  entries,   \* committed history rows, by turn or rerun
  lastId,    \* the message id sequence
  op,        \* what a request is
  pc,        \* where it is
  saw,       \* what it has read, sent or computed so far
  raced      \* rows last written over a version their writer had not read (history variable)

vars == <<chat, messages, entries, lastId, op, pc, saw, raced>>

-----------------------------------------------------------------------------
(* The conversation the model is given.                                     *)

\* A set of numbers from the least to the greatest.
InOrder(S) == [k \in 1..Cardinality(S) |-> CHOOSE i \in S : Cardinality({j \in S : j <= i}) = k]

\* The rows of the chat in the order of their ids.
Rows == LET ids == InOrder(DOMAIN messages) IN [k \in DOMAIN ids |-> messages[ids[k]]]

Asked(rows) == {i \in DOMAIN rows : rows[i].role = "user"}

\* A question goes with the answer that follows it, if one does.
Answered(rows, i) == i + 1 \in DOMAIN rows /\ rows[i + 1].role = "assistant"

\* Mutant of Before: the question itself is among those before it.
BeforeItself(kept, i) == {j \in kept : j <= i}

\* The questions before one, of those kept.
Before(kept, i) == {j \in kept : j < i}

\* A question carries the sample of the answer to the one before it.
Sample(rows, kept, i) ==
  LET before == Before(kept, i)
  IN  IF before # {} /\ Answered(rows, Max(before)) THEN rows[Max(before) + 1].run.sample ELSE Nothing

\* The questions kept, each with its answer.
Render(rows, kept) ==
  LET said == InOrder(kept \cup {i + 1 : i \in {i \in kept : Answered(rows, i)}})
  IN  [k \in DOMAIN said |->
         [role |-> rows[said[k]].role, turn |-> rows[said[k]].turn,
          sample |-> IF said[k] \in kept THEN Sample(rows, kept, said[k]) ELSE Nothing]]

Size(history) == Len(history) + Cardinality({i \in DOMAIN history : history[i].sample # Nothing})

\* The last MaxTurns questions, all of them for 0, ...
Recent(rows) ==
  {i \in Asked(rows) : MaxTurns = 0 \/ Cardinality({j \in Asked(rows) : j > i}) < MaxTurns}

\* ... less the oldest that do not fit.
History(rows) ==
  LET From(f) == Render(rows, {i \in Recent(rows) : i >= f})
      fits    == {f \in Recent(rows) \cup {Len(rows) + 1} : Size(From(f)) <= MaxChars}
  IN  From(Min(fits))

\* The sample that goes with the question itself: the latest of the chat.
Latest(rows) ==
  LET sampled == {i \in DOMAIN rows : rows[i].role = "assistant" /\ rows[i].run.sample # Nothing}
  IN  IF sampled = {} THEN Nothing ELSE rows[Max(sampled)].run.sample

-----------------------------------------------------------------------------

NotRun == [sql |-> Nothing, sample |-> Nothing]
Message(role, turn, run) == [role |-> role, turn |-> turn, run |-> run]
Preview == [status |-> "preview", rows |-> Nothing, error |-> FALSE]

\* What a run of a statement leaves in its history row.
Recorded(result) ==
  IF result = "error" THEN [status |-> "error", rows |-> Nothing, error |-> TRUE]
  ELSE [status |-> "success", rows |-> result, error |-> FALSE]

\* create_chat, or a chat with a turn whose statement may have been run.
Init ==
  /\ \/ /\ chat = [present |-> TRUE, source |-> TRUE, archived |-> FALSE, title |-> "New chat"]
        /\ messages = <<>> /\ entries = <<>>
     \/ /\ chat = [present |-> TRUE, source |-> TRUE, archived |-> FALSE, title |-> Past]
        /\ \E result \in Results \cup {Nothing} :
             LET run == IF result = Nothing THEN NotRun ELSE [sql |-> "generated", sample |-> <<"generated", result>>]
             IN  /\ messages = << Message("user", Past, NotRun), Message("assistant", Past, run) >>
                 /\ entries = [t \in {Past} |-> IF result = Nothing THEN Preview ELSE Recorded(result)]
  /\ lastId = Cardinality(DOMAIN messages)
  /\ op = [r \in Requests |-> "none"] /\ pc = [r \in Requests |-> "new"]
  /\ saw = [r \in Requests |-> Nothing]
  /\ raced = {}

tables == <<chat, messages, entries, lastId, raced>>

Goto(r, where) == pc' = [pc EXCEPT ![r] = where]
Sees(r, what)  == saw' = [saw EXCEPT ![r] = what]
Is(r, what)    == op' = [op EXCEPT ![r] = what]

\* Row locks: an UPDATE or DELETE excludes others until it commits; an INSERT
\* of a message or history row keeps the row it refers to from being deleted.
Writing(q)   == pc[q] = "commit"
Mentions(q)  == op[q] = "ask" /\ pc[q] \in {"answer", "bump", "commit"}
Connected(q) == pc[q] \in {"question", "answer", "bump", "rerun"} \/ (op[q] = "ask" /\ pc[q] = "commit")
Free(r)      == \A q \in Requests \ {r} : ~Writing(q)

\* Any handler that raises rolls its transaction back.
Fail(r) == Goto(r, "failed") /\ UNCHANGED <<tables, op, saw>>

\* get_own_chat_session, and for a question require_askable.  A patch names the
\* chat, archives or unarchives it; what is not sent, or blank, stays as loaded.
LoadChat(r, o) ==
  /\ pc[r] = "new" /\ Is(r, o)
  /\ IF ~chat.present \/ (o = "ask" /\ (chat.archived \/ ~chat.source))
     THEN Goto(r, "refused") /\ UNCHANGED saw
     ELSE IF o = "patch"
     THEN /\ Goto(r, "write")
          /\ \E title \in {chat.title, r}, archived \in BOOLEAN :
               Sees(r, [loaded |-> chat, wanted |-> [chat EXCEPT !.title = title, !.archived = archived]])
     ELSE Goto(r, IF o = "ask" THEN "context" ELSE "write") /\ Sees(r, [title |-> chat.title])
  /\ UNCHANGED tables

-----------------------------------------------------------------------------
(* A question.                                                              *)

LoadContext(r) ==
  /\ pc[r] = "context" /\ Goto(r, "model")
  /\ Sees(r, [title |-> saw[r].title, rows |-> Rows])
  /\ UNCHANGED <<tables, op>>

\* The model answers, or the flow fails; the answer's history row refers to the
\* connection, which may be gone by now.
Generate(r) ==
  /\ pc[r] = "model"
  /\ \/ chat.source /\ Goto(r, "question")
     \/ Goto(r, "failed")
  /\ UNCHANGED <<tables, op, saw>>

\* persist_chat_turn inserts the question and then the answer.
InsertQuestion(r) ==
  /\ pc[r] = "question"
  /\ \A q \in Requests : Writing(q) => op[q] # "delete"
  /\ IF ~chat.present THEN Fail(r)
     ELSE /\ lastId' = lastId + 1
          /\ Sees(r, [title |-> saw[r].title, ids |-> <<lastId'>>])
          /\ Goto(r, "answer") /\ UNCHANGED <<chat, messages, entries, raced, op>>

InsertAnswer(r) ==
  /\ pc[r] = "answer" /\ Goto(r, "bump")
  /\ lastId' = lastId + 1
  /\ Sees(r, [title |-> saw[r].title, ids |-> Append(saw[r].ids, lastId')])
  /\ UNCHANGED <<chat, messages, entries, raced, op>>

\* The chat's updated_at, and with it the lock on its row.
Bump(r) ==
  /\ pc[r] = "bump" /\ Free(r) /\ Goto(r, "commit")
  /\ UNCHANGED <<tables, op, saw>>

\* Mutant of CommitTurn: the question is committed without its answer.
CommitQuestion(r) ==
  /\ pc[r] = "commit" /\ op[r] = "ask" /\ Goto(r, "done")
  /\ messages' = [i \in DOMAIN messages \cup {saw[r].ids[1]} |->
                    IF i \in DOMAIN messages THEN messages[i] ELSE Message("user", r, NotRun)]
  /\ UNCHANGED <<chat, entries, lastId, op, saw, raced>>

CommitTurn(r) ==
  /\ pc[r] = "commit" /\ op[r] = "ask" /\ Goto(r, "done")
  /\ chat' = IF saw[r].title = "New chat" THEN [chat EXCEPT !.title = r] ELSE chat
  /\ messages' = [i \in DOMAIN messages \cup ToSet(saw[r].ids) |->
                    IF i \in DOMAIN messages THEN messages[i]
                    ELSE Message(IF i = saw[r].ids[1] THEN "user" ELSE "assistant", r, NotRun)]
  /\ entries' = [t \in DOMAIN entries \cup {r} |-> IF t = r THEN Preview ELSE entries[t]]
  /\ UNCHANGED <<lastId, op, saw, raced>>

-----------------------------------------------------------------------------
(* Changes to the chat.                                                     *)

\* update_chat writes nothing when nothing changes, and fails when the row is gone.
WriteChat(r) ==
  /\ pc[r] = "write" /\ op[r] = "patch"
  /\ IF saw[r].wanted = saw[r].loaded THEN Goto(r, IF chat.present THEN "done" ELSE "failed")
     ELSE Free(r) /\ Goto(r, IF chat.present THEN "commit" ELSE "failed")
  /\ UNCHANGED <<tables, op, saw>>

CommitChat(r) ==
  /\ pc[r] = "commit" /\ op[r] = "patch" /\ Goto(r, "done")
  /\ chat' = Changed(chat, saw[r].loaded, saw[r].wanted)
  /\ UNCHANGED <<messages, entries, lastId, op, saw, raced>>

WriteDelete(r) ==
  /\ pc[r] = "write" /\ op[r] = "delete"
  /\ Free(r) /\ \A q \in Requests : ~Mentions(q)
  /\ Goto(r, "commit")
  /\ UNCHANGED <<tables, op, saw>>

\* The messages go with the chat, the history rows stay.
CommitDelete(r) ==
  /\ pc[r] = "commit" /\ op[r] = "delete" /\ Goto(r, "done")
  /\ chat' = [chat EXCEPT !.present = FALSE]
  /\ messages' = <<>>
  /\ UNCHANGED <<entries, lastId, op, saw, raced>>

\* The connection is deleted: rows that refer to it are set to NULL.
Disconnect(r) ==
  /\ pc[r] = "new" /\ Is(r, "disconnect") /\ Goto(r, "done")
  /\ Free(r) /\ \A q \in Requests : ~Connected(q)
  /\ chat' = [chat EXCEPT !.source = FALSE]
  /\ UNCHANGED <<messages, entries, lastId, saw, raced>>

-----------------------------------------------------------------------------
(* Runs of a turn's statement, as generated or edited by the user.          *)

Execute(r) ==
  /\ pc[r] = "new" /\ Is(r, "execute")
  /\ \E i \in DOMAIN messages, sql \in {"generated", "edited"} :
       /\ messages[i].role = "assistant"
       /\ Sees(r, [id |-> i, entryOf |-> messages[i].turn, sql |-> sql])
  /\ Goto(r, IF chat.source THEN "run" ELSE "refused")
  /\ UNCHANGED tables

\* The run returns rows or a query error; a MySQL server that cannot be reached
\* raises what the handler does not catch.
RunEnds(r) ==
  /\ pc[r] = "run"
  /\ \/ Fail(r)
     \/ \E result \in Results \cup {"error"} :
          /\ Sees(r, [id |-> saw[r].id, entryOf |-> saw[r].entryOf, sql |-> saw[r].sql, result |-> result])
          /\ Goto(r, "record") /\ UNCHANGED <<tables, op>>

\* _record_history reads the history row, ...
ReadEntry(r) ==
  /\ pc[r] = "record"
  /\ Sees(r, [f \in DOMAIN saw[r] \cup {"entry", "run"} |->
                IF f = "entry" THEN entries[saw[r].entryOf] ELSE IF f = "run" THEN Nothing ELSE saw[r][f]])
  /\ Goto(r, IF saw[r].result = "error" THEN "save" ELSE "attach")
  /\ UNCHANGED <<tables, op>>

\* ... _attach_chat_sample the turn, if it still exists.
ReadTurn(r) ==
  /\ pc[r] = "attach" /\ Goto(r, "save")
  /\ IF saw[r].id \in DOMAIN messages THEN Sees(r, [saw[r] EXCEPT !.run = messages[saw[r].id].run]) ELSE UNCHANGED saw
  /\ UNCHANGED <<tables, op>>

\* Mutant of Attached: the statement the model proposed is stored, not the one run.
AttachedProposal(s) == [sql |-> "generated", sample |-> <<s.sql, s.result>>]

Attached(s) == [sql |-> s.sql, sample |-> <<s.sql, s.result>>]

\* Both writes are flushed with the commit; a turn deleted since fails both.
Save(r) ==
  /\ pc[r] = "save"
  /\ LET s    == saw[r]
         new  == Recorded(s.result)
         run  == Attached(s)
         turn == IF s.run = Nothing \/ s.run = run THEN {} ELSE {s.id}
     IN  /\ turn # {} => \A q \in Requests : Writing(q) => op[q] # "delete"
         /\ IF turn \ DOMAIN messages # {} THEN Fail(r)
            ELSE /\ entries' = [entries EXCEPT ![s.entryOf] = Changed(@, s.entry, new)]
                 /\ messages' = [i \in DOMAIN messages |->
                      IF i \in turn THEN [messages[i] EXCEPT !.run = Changed(@, s.run, run)] ELSE messages[i]]
                 /\ LET over == (IF entries[s.entryOf] # s.entry THEN {s.entryOf} ELSE {})
                                \cup {i \in turn : messages[i].run # s.run}
                    IN  raced' = (raced \ ({s.entryOf} \cup turn)) \cup over
                 /\ Goto(r, "done") /\ UNCHANGED <<chat, lastId, op, saw>>

\* rerun_history runs the statement of a history row under a row of its own.
Rerun(r) ==
  /\ pc[r] = "new" /\ Is(r, "rerun") /\ DOMAIN entries # {}
  /\ Goto(r, IF chat.source THEN "rerun" ELSE "refused")
  /\ UNCHANGED <<tables, saw>>

RerunEnds(r) ==
  /\ pc[r] = "rerun"
  /\ \/ Fail(r)
     \/ \E result \in Results \cup {"error"} :
          /\ entries' = [t \in DOMAIN entries \cup {r} |-> IF t = r THEN Recorded(result) ELSE entries[t]]
          /\ Goto(r, "done") /\ UNCHANGED <<chat, messages, lastId, raced, op, saw>>

-----------------------------------------------------------------------------

Arrives(r) ==
  \/ \E o \in {"ask", "patch", "delete"} : LoadChat(r, o)
  \/ Disconnect(r) \/ Execute(r) \/ Rerun(r)

Goes(r) ==
  \/ LoadContext(r) \/ Generate(r) \/ InsertQuestion(r) \/ InsertAnswer(r) \/ Bump(r) \/ CommitTurn(r)
  \/ WriteChat(r) \/ CommitChat(r) \/ WriteDelete(r) \/ CommitDelete(r)
  \/ RunEnds(r) \/ ReadEntry(r) \/ ReadTurn(r) \/ Save(r) \/ RerunEnds(r)

Ended(r) == pc[r] \in {"done", "refused", "failed"}

\* All is over; anything else that stops is a deadlock, which every run checks for.
Over == (\A r \in Requests : Ended(r)) /\ UNCHANGED vars

Next == (\E r \in Requests : Arrives(r) \/ Goes(r)) \/ Over

Spec == Init /\ [][Next]_vars

-----------------------------------------------------------------------------
(* Properties.                                                             *)

TypeOK ==
  /\ chat \in [present : BOOLEAN, source : BOOLEAN, archived : BOOLEAN, title : Requests \cup {Past, "New chat"}]
  /\ lastId \in Nat /\ DOMAIN messages \subseteq 1..lastId
  /\ \A i \in DOMAIN messages : messages[i].role \in {"user", "assistant"} /\ messages[i].turn \in Requests \cup {Past}
  /\ DOMAIN entries \subseteq Requests \cup {Past}
  /\ op \in [Requests -> {"none", "ask", "patch", "delete", "disconnect", "execute", "rerun"}]
  /\ pc \in [Requests -> {"new", "context", "model", "question", "answer", "bump", "write", "commit",
                          "run", "record", "attach", "save", "rerun", "done", "refused", "failed"}]

Of(turn) == {i \in DOMAIN messages : messages[i].turn = turn}

\* A turn is stored whole, its question before its answer, while its chat
\* exists and not after; its history row outlives it.
TurnsWhole ==
  \A t \in Requests \cup {Past} :
    LET turn == Of(t)
    IN  /\ turn # {} => chat.present /\ t \in DOMAIN entries
        /\ turn # {} => \E i, j \in turn : turn = {i, j} /\ i < j /\ messages[i].role = "user" /\ messages[j].role = "assistant"
        /\ t \in Requests /\ op[t] = "ask" /\ pc[t] = "done" => t \in DOMAIN entries /\ (turn = {} => ~chat.present)

\* A question names the chat only as a turn stored in it, and a chat with turns has
\* a name: no interleaving leaves the placeholder or the name of a lost question.
NamedByATurn ==
  /\ messages # <<>> => chat.title # "New chat"
  /\ chat.present /\ chat.title \in Requests /\ op[chat.title] = "ask" => Of(chat.title) # {}

\* Types, and how the chat, its turns and their history rows belong together.
ChatsInv == TypeOK /\ TurnsWhole /\ NamedByATurn

\* What a message of the history tells, and what of the chat is told.
Tells(m, row) == m.role = row.role /\ m.turn = row.turn
Told(h, row)  == \E k \in DOMAIN h : Tells(h[k], row)

\* The turns of two questions asked at once: their rows lie across each other.
AtOnce(rows, t, u) ==
  t # u /\ \E i, j, k \in DOMAIN rows :
    /\ i < j /\ j < k
    /\ \/ rows[i].turn = t /\ rows[j].turn = u /\ rows[k].turn = t
       \/ rows[i].turn = u /\ rows[j].turn = t /\ rows[k].turn = u

\* Two turns are one, or their questions were asked at once.
SameTurn(rows, t, u) == t = u \/ AtOnce(rows, t, u)

\* The latest questions are told, within the limits, and those left out are older:
\* they would be one turn too many, or the next of them would not fit.
LatestAreTold(rows, h) ==
  LET told == {i \in Asked(rows) : Told(h, rows[i])}
      left == Asked(rows) \ told
  IN  /\ Size(h) <= MaxChars /\ (MaxTurns # 0 => Cardinality(told) <= MaxTurns)
      /\ \A i \in told, j \in left : i > j
      /\ \/ left = {}
         \/ MaxTurns # 0 /\ Cardinality(told) = MaxTurns
         \/ ~(Size(Render(rows, {Max(left)} \cup told)) <= MaxChars)

\* Only what is stored is told, in its order, a question with its own answer
\* unless another question was asked at once.
TurnsAreTold(rows, h) ==
  /\ \A k \in DOMAIN h : \E i \in DOMAIN rows : Tells(h[k], rows[i])
  /\ \A j, k \in DOMAIN h : \A a, b \in DOMAIN rows :
       j < k /\ Tells(h[j], rows[a]) /\ Tells(h[k], rows[b]) => a < b
  /\ \A k \in DOMAIN h : h[k].role = "user" =>
       \/ k + 1 \in DOMAIN h /\ h[k + 1].role = "assistant" /\ h[k + 1].turn = h[k].turn
       \/ \E i \in DOMAIN rows : AtOnce(rows, h[k].turn, rows[i].turn)
  /\ \A k \in DOMAIN h : h[k].role = "assistant" =>
       k - 1 \in DOMAIN h /\ h[k - 1].role = "user" /\ SameTurn(rows, h[k - 1].turn, h[k].turn)

\* A question carries the sample of the answer told before it, and nothing else does.
SamplesAreTold(rows, h) ==
  /\ \A k \in DOMAIN h :
       IF h[k].role = "user" /\ k - 1 \in DOMAIN h /\ h[k - 1].role = "assistant"
       THEN \A i \in DOMAIN rows : Tells(h[k - 1], rows[i]) => h[k].sample = rows[i].run.sample
       ELSE h[k].sample = Nothing
  /\ Latest(rows) = Nothing => \A k \in DOMAIN h : h[k].sample = Nothing

\* The model is given as many of the latest questions as the limits allow, in
\* order, each with its own answer and the sample of the answer told before it;
\* an answer is missing or another's only if the two were asked at once.
ConversationIsTheChats ==
  \A r \in Requests : pc[r] = "model" =>
    LET rows == saw[r].rows
        h    == History(rows)
    IN  LatestAreTold(rows, h) /\ TurnsAreTold(rows, h) /\ SamplesAreTold(rows, h)

EntryAgrees(e) ==
  \/ e = Preview
  \/ \E result \in Results \cup {"error"} : e = Recorded(result)

\* A history row tells of one run and a turn's sample is of the statement stored
\* with it, unless runs of the same turn overtook each other.
RecordsAgreeUnlessRaced ==
  /\ \A t \in DOMAIN entries \ raced : EntryAgrees(entries[t])
  /\ \A i \in DOMAIN messages \ raced :
       LET run == messages[i].run IN run.sample = Nothing \/ run.sample[1] = run.sql

\* A chat the user has named keeps that name until the user names it again.
RenameIsKept ==
  [][ \A r \in Requests : (chat.title = r /\ op[r] = "patch" /\ chat'.title # r) => op[chat'.title] = "patch" ]_vars

=============================================================================
