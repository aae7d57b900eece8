----------------------------- MODULE ChatsProofs -----------------------------
(***************************************************************************)
(* Chats is correct for any requests, results and limits: a turn is stored    *)
(* whole while its chat exists, the chat is named by a turn it has, and the   *)
(* records of a run agree with each other unless runs overtook one another.   *)
(***************************************************************************)
EXTENDS Chats, FiniteSetTheorems, SequenceTheorems, TLAPS

Turns == Requests \cup {Past}

\* The message ids a question under way has taken.
Ids(r) == IF Mentions(r) THEN {saw[r].ids[k] : k \in DOMAIN saw[r].ids} ELSE {}

TypeInv ==
  /\ TypeOK
  /\ DOMAIN saw = Requests
  /\ \A i \in DOMAIN messages : DOMAIN messages[i] = {"role", "turn", "run"}

\* What a request does where it is.
OpInv(r) ==
  /\ pc[r] = "new" => op[r] = "none"
  /\ pc[r] \in {"context", "model", "question", "answer", "bump"} => op[r] = "ask"
  /\ pc[r] = "write" => op[r] \in {"patch", "delete"}
  /\ pc[r] = "commit" => op[r] \in {"ask", "patch", "delete"}
  /\ pc[r] \in {"run", "record", "attach", "save"} => op[r] = "execute"
  /\ pc[r] = "rerun" => op[r] = "rerun"

\* A question under way has taken ids nothing is stored under, in a chat that stays.
IdsInv(r) == Mentions(r) =>
  /\ chat.present
  /\ Ids(r) \subseteq (1..lastId) \ DOMAIN messages
  /\ saw[r].ids \in Seq(Nat) /\ Len(saw[r].ids) = (IF pc[r] = "answer" THEN 1 ELSE 2)
  /\ pc[r] # "answer" => saw[r].ids[1] < saw[r].ids[2]

Named == chat.title # "New chat"

\* A chat that had a name when the question came has one still.
TitleInv(r) ==
  pc[r] \in {"context", "model", "question"} \/ Mentions(r) =>
    (saw[r].title # "New chat" => Named)

\* A patch has loaded the chat and wants another title, another flag or both.
ChatRows == [present : BOOLEAN, source : BOOLEAN, archived : BOOLEAN, title : Turns \cup {"New chat"}]
Patches(r, s) ==
  /\ s.loaded \in ChatRows /\ s.wanted \in ChatRows
  /\ s.wanted.present = s.loaded.present /\ s.wanted.source = s.loaded.source
  /\ s.wanted.title \in {s.loaded.title, r}

\* A run knows its turn and its history row, a patch what it loaded and wants.
RunInv(r) ==
  /\ pc[r] \in {"run", "record", "attach", "save"} =>
       /\ {"id", "entryOf", "sql"} \subseteq DOMAIN saw[r]
       /\ saw[r].id \in Nat /\ saw[r].entryOf \in Turns
       /\ pc[r] # "run" => "result" \in DOMAIN saw[r] /\ saw[r].result \in Results \cup {"error"}
  /\ op[r] = "patch" /\ pc[r] \in {"write", "commit"} => Patches(r, saw[r])

RequestInv(r) == OpInv(r) /\ IdsInv(r) /\ TitleInv(r) /\ RunInv(r)

\* Nobody commits beside another, and a deletion not beside a question that has
\* stored a message; ids are taken once.
LockInv ==
  \A r, q \in Requests : r # q =>
    /\ ~(Writing(r) /\ Writing(q))
    /\ Writing(r) /\ op[r] = "delete" => ~Mentions(q)
    /\ Ids(r) \cap Ids(q) = {}

\* A request's turn is stored when its question is done, and its name is given then.
OwnerInv ==
  /\ \A r \in Requests : Of(r) # {} => op[r] = "ask" /\ pc[r] = "done"
  /\ chat.title \in Requests => pc[chat.title] # "new"

ChatInv ==
  /\ TypeInv /\ LockInv /\ OwnerInv /\ TurnsWhole /\ NamedByATurn /\ RecordsAgreeUnlessRaced
  /\ \A r \in Requests : RequestInv(r)

-----------------------------------------------------------------------------
(* What a step leaves alone.                                               *)

Same(q) == pc'[q] = pc[q] /\ op'[q] = op[q] /\ saw'[q] = saw[q]

LEMMA SameRequest ==
  ASSUME NEW q, Same(q)
  PROVE  /\ (Mentions(q)' <=> Mentions(q)) /\ (Writing(q)' <=> Writing(q)) /\ Ids(q)' = Ids(q)
         /\ OpInv(q) => OpInv(q)' 
         /\ RunInv(q) => RunInv(q)'
<1>1. (Mentions(q)' <=> Mentions(q)) /\ (Writing(q)' <=> Writing(q))
  BY DEF Same, Mentions, Writing
<1>2. Ids(q)' = Ids(q)
  BY <1>1 DEF Same, Ids
<1>3. (OpInv(q) => OpInv(q)') /\ (RunInv(q) => RunInv(q)')
  BY DEF Same, OpInv, RunInv
<1> QED BY <1>1, <1>2, <1>3

\* The chat keeps its name and stays for the questions under way, and no message
\* appears under an id another question has taken.
LEMMA OthersKeep ==
  ASSUME NEW q \in Requests, RequestInv(q), Same(q), lastId \in Nat, lastId' \in Nat, lastId <= lastId',
         Named => Named',
         Mentions(q) => chat'.present, Ids(q) \cap DOMAIN messages' = {}
  PROVE  RequestInv(q)'
<1>1. OpInv(q)' /\ RunInv(q)'
  BY SameRequest DEF RequestInv
<1>2. IdsInv(q)'
  <2> SUFFICES ASSUME Mentions(q) PROVE IdsInv(q)'
    BY SameRequest DEF IdsInv
  <2>1. Ids(q) \subseteq (1..lastId') \ DOMAIN messages'
    <3> SUFFICES ASSUME NEW i \in Ids(q) PROVE i \in (1..lastId') \ DOMAIN messages'
      OBVIOUS
    <3>1. i \in 1..lastId
      BY DEF RequestInv, IdsInv
    <3>2. i \in 1..lastId'
      BY <3>1
    <3>3. i \notin DOMAIN messages'
      OBVIOUS
    <3> QED BY <3>2, <3>3
  <2> QED BY <2>1, SameRequest DEF RequestInv, IdsInv, Same
<1>3. TitleInv(q)'
  BY SameRequest DEF RequestInv, TitleInv, Same
<1> QED BY <1>1, <1>2, <1>3 DEF RequestInv

\* TurnsWhole, turn by turn.
Whole(t) ==
  /\ Of(t) # {} => chat.present /\ t \in DOMAIN entries
  /\ Of(t) # {} => \E i, j \in Of(t) : Of(t) = {i, j} /\ i < j /\ messages[i].role = "user" /\ messages[j].role = "assistant"
  /\ t \in Requests /\ op[t] = "ask" /\ pc[t] = "done" => t \in DOMAIN entries /\ (Of(t) = {} => ~chat.present)

LEMMA TurnByTurn == TurnsWhole <=> \A t \in Turns : Whole(t)
BY DEF TurnsWhole, Whole, Turns

\* A step that stores and deletes no turn keeps the invariant if it keeps its own part.
LEMMA PlainStep ==
  ASSUME ChatInv, NEW r \in Requests,
         chat'.present = chat.present, chat'.title = chat.title \/ (chat'.title = r /\ op'[r] # "ask"),
         DOMAIN messages' = DOMAIN messages, messages = <<>> => messages' = <<>>,
         \A i \in DOMAIN messages : messages'[i].role = messages[i].role /\ messages'[i].turn = messages[i].turn,
         DOMAIN entries \subseteq DOMAIN entries',
         lastId' \in Nat, lastId <= lastId', \A q \in Requests \ {r} : Same(q),
         TypeInv', RecordsAgreeUnlessRaced', RequestInv(r)',
         ~Ended(r), pc'[r] # "new", pc[r] = "new" \/ op'[r] = op[r], op'[r] = "ask" => pc'[r] # "done",
         \A q \in Requests \ {r} :
           /\ ~(Writing(r)' /\ Writing(q)) /\ Ids(r)' \cap Ids(q) = {}
           /\ Writing(r)' /\ op'[r] = "delete" => ~Mentions(q)
           /\ Mentions(r)' => ~(Writing(q) /\ op[q] = "delete")
  PROVE  ChatInv'
<1>1. LockInv'
  <2> SUFFICES ASSUME NEW p \in Requests, NEW q \in Requests, p # q
               PROVE  /\ ~(Writing(p)' /\ Writing(q)')
                      /\ Writing(p)' /\ op'[p] = "delete" => ~Mentions(q)'
                      /\ Ids(p)' \cap Ids(q)' = {}
    BY DEF LockInv
  <2>1. CASE p = r
    BY <2>1, SameRequest DEF Same
  <2>2. CASE q = r
    BY <2>2, SameRequest DEF Same
  <2>3. CASE p # r /\ q # r
    BY <2>3, SameRequest DEF Same, ChatInv, LockInv
  <2> QED BY <2>1, <2>2, <2>3
<1>2. \A t : Of(t)' = Of(t)
  BY DEF Of
<1>3. Of(r) = {} /\ pc[r] # "done"
  BY DEF ChatInv, OwnerInv, Ended
<1>4. OwnerInv'
  <2>1. \A q \in Requests : Of(q)' # {} => op'[q] = "ask" /\ pc'[q] = "done"
    BY <1>2, <1>3 DEF ChatInv, OwnerInv, Same
  <2>2. chat'.title \in Requests => pc'[chat'.title] # "new"
    BY DEF ChatInv, OwnerInv, Same
  <2> QED BY <2>1, <2>2 DEF OwnerInv
<1>5. TurnsWhole'
  <2>1. ASSUME NEW t \in Turns PROVE Whole(t)'
    <3>1. Whole(t)
      BY TurnByTurn DEF ChatInv
    <3>2. t \in Requests /\ op'[t] = "ask" /\ pc'[t] = "done" => op[t] = "ask" /\ pc[t] = "done"
      BY DEF Same
    <3>3. Of(t)' = Of(t) /\ Of(t) \subseteq DOMAIN messages
      BY <1>2 DEF Of
    <3>4. Of(t)' # {} => \E i, j \in Of(t)' : Of(t)' = {i, j} /\ i < j /\ messages'[i].role = "user" /\ messages'[j].role = "assistant"
      <4>1. SUFFICES ASSUME Of(t) # {}
                     PROVE  \E i, j \in Of(t) : Of(t) = {i, j} /\ i < j /\ messages'[i].role = "user" /\ messages'[j].role = "assistant"
        BY <3>3
      <4>2. PICK i \in Of(t), j \in Of(t) : Of(t) = {i, j} /\ i < j /\ messages[i].role = "user" /\ messages[j].role = "assistant"
        BY <3>1, <4>1 DEF Whole
      <4>3. messages'[i].role = "user" /\ messages'[j].role = "assistant"
        BY <3>3, <4>2
      <4> QED BY <4>2, <4>3
    <3> QED BY <3>1, <3>2, <3>3, <3>4 DEF Whole
  <2> QED BY <2>1 DEF TurnsWhole, Whole, Turns
<1>6. Named => Named'
  BY ChatsAssumption DEF Named
<1>7. NamedByATurn'
  <2>1. messages' # <<>> => Named'
    BY <1>6 DEF NamedByATurn, ChatInv, Named
  <2>2. ASSUME chat'.present, chat'.title \in Requests, op'[chat'.title] = "ask" PROVE Of(chat.title)' # {}
    <3>1. chat.present /\ chat'.title = chat.title
      BY <2>2
    <3>2. op[chat.title] = "ask"
      <4>1. CASE chat.title = r
        BY <2>2, <3>1, <4>1 DEF ChatInv, OwnerInv
      <4>2. CASE chat.title # r
        BY <2>2, <3>1, <4>2 DEF Same
      <4> QED BY <4>1, <4>2
    <3>3. Of(chat.title) # {}
      BY <2>2, <3>1, <3>2 DEF NamedByATurn, ChatInv
    <3> QED BY <3>1, <3>3 DEF Of
  <2> QED BY <2>1, <2>2 DEF NamedByATurn, Named
<1>8. \A q \in Requests : RequestInv(q)'
  <2>1. ASSUME NEW q \in Requests \ {r} PROVE RequestInv(q)'
    <3>1. RequestInv(q) /\ lastId \in Nat
      BY DEF ChatInv, TypeInv, TypeOK
    <3>2. (Mentions(q) => chat'.present) /\ Ids(q) \cap DOMAIN messages' = {}
      BY <3>1 DEF RequestInv, IdsInv, Ids
    <3> QED BY <1>6, <3>1, <3>2, OthersKeep
  <2> QED BY <2>1
<1> QED BY <1>1, <1>4, <1>5, <1>7, <1>8 DEF ChatInv

LEMMA QuietStep ==
  ASSUME ChatInv, NEW r \in Requests, UNCHANGED <<chat, messages, entries, raced>>,
         lastId' \in Nat, lastId <= lastId', \A q \in Requests \ {r} : Same(q),
         TypeOK', DOMAIN saw' = Requests, RequestInv(r)',
         ~Ended(r), pc'[r] # "new", pc[r] = "new" \/ op'[r] = op[r], op'[r] = "ask" => pc'[r] # "done",
         \A q \in Requests \ {r} :
           /\ ~(Writing(r)' /\ Writing(q)) /\ Ids(r)' \cap Ids(q) = {}
           /\ Writing(r)' /\ op'[r] = "delete" => ~Mentions(q)
           /\ Mentions(r)' => ~(Writing(q) /\ op[q] = "delete")
  PROVE  ChatInv'
<1>1. TypeInv'
  BY DEF ChatInv, TypeInv
<1>2. RecordsAgreeUnlessRaced'
  BY DEF ChatInv, RecordsAgreeUnlessRaced, EntryAgrees, Recorded, Preview
<1> QED BY <1>1, <1>2, PlainStep

-----------------------------------------------------------------------------
(* The steps that store nothing.                                           *)

Kinds  == {"none", "ask", "patch", "delete", "disconnect", "execute", "rerun"}
Stages == {"new", "context", "model", "question", "answer", "bump", "write", "commit",
           "run", "record", "attach", "save", "rerun", "done", "refused", "failed"}

LEMMA Steps ==
  ASSUME TypeInv, NEW r \in Requests, NEW where \in Stages, Goto(r, where),
         NEW o \in Kinds, (op' = op /\ o = op[r]) \/ Is(r, o), NEW s, (saw' = saw /\ s = saw[r]) \/ Sees(r, s)
  PROVE  /\ pc' \in [Requests -> Stages] /\ op' \in [Requests -> Kinds] /\ DOMAIN saw' = Requests
         /\ pc'[r] = where /\ op'[r] = o /\ saw'[r] = s
         /\ \A q \in Requests \ {r} : Same(q)
<1>1. pc \in [Requests -> Stages] /\ op \in [Requests -> Kinds] /\ DOMAIN saw = Requests
  BY DEF TypeInv, TypeOK, Kinds, Stages
<1>2. pc' \in [Requests -> Stages] /\ pc'[r] = where /\ \A q \in Requests \ {r} : pc'[q] = pc[q]
  BY <1>1 DEF Goto
<1>3. op' \in [Requests -> Kinds] /\ op'[r] = o /\ \A q \in Requests \ {r} : op'[q] = op[q]
  BY <1>1 DEF Is
<1>4. DOMAIN saw' = Requests /\ saw'[r] = s /\ \A q \in Requests \ {r} : saw'[q] = saw[q]
  BY <1>1 DEF Sees
<1> QED BY <1>2, <1>3, <1>4 DEF Same

LEMMA QuietTypes ==
  ASSUME TypeOK, UNCHANGED <<chat, messages, entries>>, lastId' \in Nat, lastId <= lastId',
         pc' \in [Requests -> Stages], op' \in [Requests -> Kinds]
  PROVE  TypeOK'
<1>1. ASSUME NEW i \in DOMAIN messages PROVE i \in 1..lastId'
  <2>1. i \in 1..lastId /\ lastId \in Nat
    BY DEF TypeOK
  <2> QED BY <2>1
<1> QED BY <1>1 DEF TypeOK, Kinds, Stages

\* Outside a question that has stored a message there is nothing to say of ids.
LEMMA NoIds ==
  ASSUME NEW r, op'[r] # "ask" \/ pc'[r] \notin {"answer", "bump", "commit"}
  PROVE  ~Mentions(r)' /\ Ids(r)' = {} /\ IdsInv(r)'
BY DEF Mentions, Ids, IdsInv

LEMMA NoTitle ==
  ASSUME NEW r, op'[r] # "ask" \/ pc'[r] \notin {"answer", "bump", "commit"},
         pc'[r] \notin {"context", "model", "question"}
  PROVE  TitleInv(r)'
BY DEF Mentions, TitleInv

LEMMA FailKeeps ==
  ASSUME ChatInv, NEW r \in Requests, ~Ended(r), pc[r] # "new", Fail(r)
  PROVE  ChatInv'
<1>1. Goto(r, "failed") /\ UNCHANGED <<tables, op, saw>>
  BY DEF Fail
<1>2. TypeInv /\ TypeOK /\ op[r] \in Kinds /\ lastId \in Nat /\ UNCHANGED <<chat, messages, entries, lastId, raced>>
  BY <1>1 DEF ChatInv, TypeInv, TypeOK, Kinds, tables
<1>3. /\ pc' \in [Requests -> Stages] /\ op' \in [Requests -> Kinds] /\ DOMAIN saw' = Requests
      /\ pc'[r] = "failed" /\ op'[r] = op[r]
      /\ \A q \in Requests \ {r} : Same(q)
  BY <1>1, <1>2, Steps DEF Stages
<1>4. TypeOK'
  BY <1>2, <1>3, QuietTypes
<1>5. ~Mentions(r)' /\ Ids(r)' = {} /\ IdsInv(r)' /\ TitleInv(r)'
  BY <1>3, NoIds, NoTitle
<1>6. RequestInv(r)' /\ ~Writing(r)'
  BY <1>3, <1>5 DEF RequestInv, OpInv, RunInv, Writing
<1> QED BY <1>2, <1>3, <1>4, <1>5, <1>6, QuietStep

LEMMA LoadChatKeeps ==
  ASSUME ChatInv, NEW r \in Requests, NEW o \in {"ask", "patch", "delete"}, LoadChat(r, o)
  PROVE  ChatInv'
<1>1. pc[r] = "new" /\ Is(r, o) /\ UNCHANGED <<chat, messages, entries, lastId, raced>>
  BY DEF LoadChat, tables
<1>2. TypeInv /\ TypeOK /\ lastId \in Nat /\ o \in Kinds
  BY DEF ChatInv, TypeInv, TypeOK, Kinds
<1> DEFINE Loads(where, s) ==
             /\ Goto(r, where) /\ ((saw' = saw /\ s = saw[r]) \/ Sees(r, s))
             /\ where = "context" => o = "ask" /\ s = [title |-> chat.title]
             /\ where = "write" => o # "ask" /\ (o = "patch" => Patches(r, s))
<1>0. \E where \in {"refused", "context", "write"} : \E s : Loads(where, s)
  <2>1. CASE Goto(r, "refused") /\ UNCHANGED saw
    <3>1. Loads("refused", saw[r])
      BY <2>1
    <3> HIDE DEF Loads
    <3> QED BY <3>1
  <2>2. CASE o = "patch" /\ Goto(r, "write") /\ \E title \in {chat.title, r}, archived \in BOOLEAN :
               Sees(r, [loaded |-> chat, wanted |-> [chat EXCEPT !.title = title, !.archived = archived]])
    <3>1. PICK title \in {chat.title, r}, archived \in BOOLEAN :
            Sees(r, [loaded |-> chat, wanted |-> [chat EXCEPT !.title = title, !.archived = archived]])
      BY <2>2
    <3> DEFINE w == [chat EXCEPT !.title = title, !.archived = archived]
               s == [loaded |-> chat, wanted |-> w]
    <3>2. chat \in ChatRows
      BY <1>2 DEF TypeOK, ChatRows, Turns
    <3>3. w = [present |-> chat.present, source |-> chat.source, archived |-> archived, title |-> title]
      <4> DEFINE v == [chat EXCEPT !.title = title]
      <4>1. v \in ChatRows /\ v.present = chat.present /\ v.source = chat.source /\ v.title = title
        BY <3>2 DEF ChatRows, Turns
      <4>2. w = [v EXCEPT !.archived = archived]
        OBVIOUS
      <4> HIDE DEF v, w
      <4> QED BY <4>1, <4>2 DEF ChatRows
    <3>4. w \in ChatRows /\ w.present = chat.present /\ w.source = chat.source /\ w.title \in {chat.title, r}
      BY <3>2, <3>3 DEF ChatRows, Turns
    <3> HIDE DEF w
    <3>5. Patches(r, s)
      BY <3>2, <3>4 DEF Patches
    <3>6. Sees(r, s)
      BY <3>1 DEF w
    <3> HIDE DEF s
    <3>7. Loads("write", s)
      BY <2>2, <3>5, <3>6
    <3> HIDE DEF Loads
    <3> QED BY <3>7
  <2>3. CASE /\ o # "patch" /\ Goto(r, IF o = "ask" THEN "context" ELSE "write")
             /\ Sees(r, [title |-> chat.title])
    <3>1. Loads(IF o = "ask" THEN "context" ELSE "write", [title |-> chat.title])
      BY <2>3
    <3> HIDE DEF Loads
    <3> QED BY <3>1
  <2> HIDE DEF Loads
  <2> QED BY <2>1, <2>2, <2>3 DEF LoadChat
<1>9. PICK where \in {"refused", "context", "write"} : \E s : Loads(where, s)
  <2> HIDE DEF Loads
  <2> QED BY <1>0
<1>3. PICK s : Loads(where, s)
  BY <1>9
<1>4. /\ pc' \in [Requests -> Stages] /\ op' \in [Requests -> Kinds] /\ DOMAIN saw' = Requests
      /\ pc'[r] = where /\ op'[r] = o /\ saw'[r] = s
      /\ \A q \in Requests \ {r} : Same(q)
  BY <1>1, <1>2, <1>3, Steps DEF Stages
<1>5. TypeOK'
  BY <1>1, <1>2, <1>4, QuietTypes
<1>6. ~Mentions(r)' /\ Ids(r)' = {} /\ IdsInv(r)' /\ ~Writing(r)'
  BY <1>4, NoIds DEF Writing
<1>7. RequestInv(r)'
  <2>1. TitleInv(r)'
    <3>1. Named' <=> Named
      BY <1>1 DEF Named
    <3>2. where = "context" => s.title = chat.title
      BY <1>3
    <3>3. where = "context" => (s.title # "New chat" <=> Named)
      BY <3>2 DEF Named
    <3> QED BY <1>3, <1>4, <1>6, <3>1, <3>3 DEF TitleInv
  <2> QED BY <1>3, <1>4, <1>6, <2>1 DEF RequestInv, OpInv, RunInv
<1> QED BY <1>1, <1>2, <1>3, <1>4, <1>5, <1>6, <1>7, QuietStep DEF Ended

\* What a question remembers of the chat's name stays true.
LEMMA TitleStays ==
  ASSUME NEW r, TitleInv(r), pc[r] \in {"context", "model", "question"} \/ Mentions(r),
         saw'[r].title = saw[r].title, Named => Named'
  PROVE  TitleInv(r)'
BY DEF TitleInv

LEMMA AskKeeps ==
  ASSUME ChatInv, NEW r \in Requests, LoadContext(r) \/ Generate(r)
  PROVE  ChatInv'
<1> DEFINE Asks(where, s) ==
             /\ pc[r] \in {"context", "model"} /\ Goto(r, where) /\ UNCHANGED <<tables, op>>
             /\ ((saw' = saw /\ s = saw[r]) \/ Sees(r, s)) /\ s.title = saw[r].title
<1>0. PICK where \in {"model", "question", "failed"} : \E s : Asks(where, s)
  <2>1. CASE LoadContext(r)
    <3> DEFINE s == [title |-> saw[r].title, rows |-> Rows]
    <3>1. s.title = saw[r].title
      OBVIOUS
    <3> QED BY <2>1, <3>1 DEF LoadContext
  <2>2. CASE Generate(r)
    BY <2>2 DEF Generate
  <2> QED BY <2>1, <2>2
<1>1. PICK s : Asks(where, s)
  BY <1>0
<1>2. TypeInv /\ TypeOK /\ lastId \in Nat /\ op[r] \in Kinds /\ RequestInv(r)
  BY DEF ChatInv, TypeInv, TypeOK, Kinds
<1>3. UNCHANGED <<chat, messages, entries, lastId, raced>> /\ (Named' <=> Named)
  BY <1>1 DEF tables, Named
<1>4. /\ pc' \in [Requests -> Stages] /\ op' \in [Requests -> Kinds] /\ DOMAIN saw' = Requests
      /\ pc'[r] = where /\ op'[r] = op[r] /\ saw'[r] = s
      /\ \A q \in Requests \ {r} : Same(q)
  BY <1>1, <1>2, Steps DEF Stages
<1>5. TypeOK'
  BY <1>2, <1>3, <1>4, QuietTypes
<1>6. ~Mentions(r)' /\ Ids(r)' = {} /\ IdsInv(r)' /\ ~Writing(r)'
  BY <1>4, NoIds DEF Writing
<1>7. RequestInv(r)'
  <2>1. TitleInv(r)'
    BY <1>1, <1>2, <1>3, <1>4, TitleStays DEF RequestInv
  <2>2. op[r] = "ask"
    BY <1>1, <1>2 DEF RequestInv, OpInv
  <2> QED BY <1>4, <1>6, <2>1, <2>2 DEF RequestInv, OpInv, RunInv
<1> QED BY <1>1, <1>2, <1>3, <1>4, <1>5, <1>6, <1>7, QuietStep DEF Ended

LEMMA OneAppended ==
  ASSUME NEW s \in Seq(Nat), Len(s) = 1, NEW n \in Nat
  PROVE  /\ Append(s, n) \in Seq(Nat) /\ Len(Append(s, n)) = 2
         /\ Append(s, n)[1] = s[1] /\ Append(s, n)[2] = n
         /\ {Append(s, n)[k] : k \in DOMAIN Append(s, n)} = {s[1], n}
         /\ {s[k] : k \in DOMAIN s} = {s[1]}
<1>1. Append(s, n) \in Seq(Nat) /\ Len(Append(s, n)) = 2 /\ Append(s, n)[1] = s[1] /\ Append(s, n)[2] = n
  <2>1. Append(s, n) \in Seq(Nat)
    BY AppendProperties
  <2>4. Len(Append(s, n)) = Len(s) + 1
    BY AppendProperties
  <2>2. \A i \in 1..Len(s) : Append(s, n)[i] = s[i]
    BY AppendProperties
  <2>3. Append(s, n)[Len(s) + 1] = n
    BY AppendProperties
  <2> QED BY <2>1, <2>2, <2>3, <2>4
<1>2. DOMAIN Append(s, n) = {1, 2} /\ DOMAIN s = {1}
  BY <1>1
<1> QED BY <1>1, <1>2

LEMMA InsertQuestionKeeps ==
  ASSUME ChatInv, NEW r \in Requests, InsertQuestion(r)
  PROVE  ChatInv'
<1>1. pc[r] = "question" /\ \A q \in Requests : Writing(q) => op[q] # "delete"
  BY DEF InsertQuestion
<1>2. TypeInv /\ TypeOK /\ lastId \in Nat /\ op[r] = "ask" /\ op[r] \in Kinds /\ RequestInv(r)
  BY <1>1 DEF ChatInv, TypeInv, TypeOK, Kinds, RequestInv, OpInv
<1>3. CASE Fail(r)
  BY <1>1, <1>3, FailKeeps DEF Ended
<1>4. CASE chat.present /\ ~Fail(r)
  <2> DEFINE s == [title |-> saw[r].title, ids |-> <<lastId'>>]
  <2>1. lastId' = lastId + 1 /\ Sees(r, s) /\ Goto(r, "answer") /\ UNCHANGED <<chat, messages, entries, raced, op>>
    BY <1>4 DEF InsertQuestion
  <2>2. s.title = saw[r].title /\ s.ids = <<lastId'>> /\ lastId' \in Nat /\ lastId <= lastId'
    BY <1>2, <2>1
  <2> HIDE DEF s
  <2>3. /\ pc' \in [Requests -> Stages] /\ op' \in [Requests -> Kinds] /\ DOMAIN saw' = Requests
        /\ pc'[r] = "answer" /\ op'[r] = op[r] /\ saw'[r] = s
        /\ \A q \in Requests \ {r} : Same(q)
    BY <1>2, <2>1, Steps DEF Stages
  <2>4. TypeOK'
    BY <1>2, <2>1, <2>2, <2>3, QuietTypes
  <2>5. Mentions(r)' /\ ~Writing(r)'
    BY <1>2, <2>3 DEF Mentions, Writing
  <2>6. Ids(r)' = {lastId'}
    <3>1. Ids(r)' = {s.ids[k] : k \in DOMAIN s.ids}
      BY <2>3, <2>5 DEF Ids
    <3> QED BY <2>2, <3>1
  <2>7. \A i \in 1..lastId : i # lastId'
    BY <1>2, <2>1
  <2>8. lastId' \in (1..lastId') \ DOMAIN messages
    <3>1. lastId' \in 1..lastId'
      BY <1>2, <2>1
    <3> QED BY <1>2, <2>7, <3>1 DEF TypeOK
  <2>9. IdsInv(r)'
    <3>1. s.ids \in Seq(Nat) /\ Len(s.ids) = 1
      BY <2>2
    <3> QED BY <1>4, <2>1, <2>3, <2>6, <2>8, <3>1 DEF IdsInv
  <2>10. RequestInv(r)'
    <3>1. TitleInv(r)'
      BY <1>1, <1>2, <2>1, <2>2, <2>3, TitleStays DEF RequestInv, Named
    <3> QED BY <1>2, <2>3, <2>9, <3>1 DEF RequestInv, OpInv, RunInv
  <2>11. \A q \in Requests \ {r} : Ids(r)' \cap Ids(q) = {}
    <3>1. \A q \in Requests : Ids(q) \subseteq 1..lastId
      BY DEF ChatInv, RequestInv, IdsInv, Ids
    <3> QED BY <2>6, <2>7, <3>1
  <2> QED BY <1>1, <1>2, <2>1, <2>2, <2>3, <2>4, <2>5, <2>10, <2>11, QuietStep DEF Ended
<1> QED BY <1>3, <1>4 DEF InsertQuestion

LEMMA InsertAnswerKeeps ==
  ASSUME ChatInv, NEW r \in Requests, InsertAnswer(r)
  PROVE  ChatInv'
<1>1. pc[r] = "answer" /\ TypeInv /\ TypeOK /\ lastId \in Nat /\ op[r] = "ask" /\ op[r] \in Kinds /\ RequestInv(r)
  BY DEF InsertAnswer, ChatInv, TypeInv, TypeOK, Kinds, RequestInv, OpInv
<1>2. Mentions(r)
  BY <1>1 DEF Mentions
<1>3. /\ chat.present /\ saw[r].ids \in Seq(Nat) /\ Len(saw[r].ids) = 1
      /\ Ids(r) \subseteq (1..lastId) \ DOMAIN messages
  BY <1>1, <1>2 DEF RequestInv, IdsInv
<1> DEFINE a == saw[r].ids[1]
           s == [title |-> saw[r].title, ids |-> Append(saw[r].ids, lastId')]
<1>4. lastId' = lastId + 1 /\ Sees(r, s) /\ Goto(r, "bump") /\ UNCHANGED <<chat, messages, entries, raced, op>>
  BY DEF InsertAnswer
<1>5. lastId' \in Nat /\ lastId <= lastId'
  BY <1>1, <1>4
<1>6. /\ s.title = saw[r].title /\ s.ids \in Seq(Nat) /\ Len(s.ids) = 2 /\ s.ids[1] = a /\ s.ids[2] = lastId'
      /\ {s.ids[k] : k \in DOMAIN s.ids} = {a, lastId'} /\ {saw[r].ids[k] : k \in DOMAIN saw[r].ids} = {a}
  <2> DEFINE ids == saw[r].ids
  <2>1. ids \in Seq(Nat) /\ Len(ids) = 1
    BY <1>3
  <2>2. s.title = saw[r].title /\ s.ids = Append(ids, lastId')
    OBVIOUS
  <2> HIDE DEF ids, s
  <2>3. /\ Append(ids, lastId') \in Seq(Nat) /\ Len(Append(ids, lastId')) = 2
        /\ Append(ids, lastId')[1] = ids[1] /\ Append(ids, lastId')[2] = lastId'
        /\ {Append(ids, lastId')[k] : k \in DOMAIN Append(ids, lastId')} = {ids[1], lastId'}
        /\ {ids[k] : k \in DOMAIN ids} = {ids[1]}
    BY <1>5, <2>1, OneAppended
  <2> QED BY <2>2, <2>3 DEF ids
<1>7. Ids(r) = {a}
  BY <1>2, <1>6 DEF Ids
<1> HIDE DEF a, s
<1>8. a \in 1..lastId /\ a \notin DOMAIN messages
  BY <1>3, <1>7
<1>9. a < lastId' /\ a \in 1..lastId' /\ lastId' \in 1..lastId' /\ lastId' \notin 1..lastId
  BY <1>1, <1>4, <1>8
<1>10. /\ pc' \in [Requests -> Stages] /\ op' \in [Requests -> Kinds] /\ DOMAIN saw' = Requests
       /\ pc'[r] = "bump" /\ op'[r] = op[r] /\ saw'[r] = s
       /\ \A q \in Requests \ {r} : Same(q)
  BY <1>1, <1>4, Steps DEF Stages
<1>11. TypeOK'
  BY <1>1, <1>4, <1>5, <1>10, QuietTypes
<1>12. Mentions(r)' /\ ~Writing(r)'
  BY <1>1, <1>10 DEF Mentions, Writing
<1>13. Ids(r)' = {a, lastId'}
  <2>1. Ids(r)' = {saw'[r].ids[k] : k \in DOMAIN saw'[r].ids}
    BY <1>12 DEF Ids
  <2>2. saw'[r] = s /\ {s.ids[k] : k \in DOMAIN s.ids} = {a, lastId'}
    BY <1>6, <1>10
  <2> QED BY ONLY <2>1, <2>2
<1>14. lastId' \notin DOMAIN messages
  BY <1>1, <1>9 DEF TypeOK
<1>15. IdsInv(r)'
  BY <1>3, <1>4, <1>6, <1>8, <1>9, <1>10, <1>13, <1>14 DEF IdsInv
<1>16. RequestInv(r)'
  <2>1. TitleInv(r)'
    BY <1>1, <1>2, <1>4, <1>6, <1>10, TitleStays DEF RequestInv, Named
  <2> QED BY <1>1, <1>10, <1>15, <2>1 DEF RequestInv, OpInv, RunInv
<1>17. ASSUME NEW q \in Requests \ {r}
       PROVE  Ids(r)' \cap Ids(q) = {} /\ ~(Writing(q) /\ op[q] = "delete")
  <2>1. Ids(q) \subseteq 1..lastId
    BY DEF ChatInv, RequestInv, IdsInv, Ids
  <2>2. Ids(r) \cap Ids(q) = {} /\ ~(Writing(q) /\ op[q] = "delete")
    BY <1>2 DEF ChatInv, LockInv
  <2> QED BY <1>7, <1>9, <1>13, <2>1, <2>2
<1> QED BY <1>1, <1>4, <1>5, <1>10, <1>11, <1>12, <1>16, <1>17, QuietStep DEF Ended

LEMMA BumpKeeps ==
  ASSUME ChatInv, NEW r \in Requests, Bump(r)
  PROVE  ChatInv'
<1>1. pc[r] = "bump" /\ TypeInv /\ TypeOK /\ lastId \in Nat /\ op[r] = "ask" /\ op[r] \in Kinds /\ RequestInv(r)
  BY DEF Bump, ChatInv, TypeInv, TypeOK, Kinds, RequestInv, OpInv
<1>2. Free(r) /\ Goto(r, "commit") /\ UNCHANGED <<chat, messages, entries, lastId, raced, op, saw>>
  BY DEF Bump, tables
<1>3. /\ pc' \in [Requests -> Stages] /\ op' \in [Requests -> Kinds] /\ DOMAIN saw' = Requests
      /\ pc'[r] = "commit" /\ op'[r] = op[r] /\ saw'[r] = saw[r]
      /\ \A q \in Requests \ {r} : Same(q)
  BY <1>1, <1>2, Steps DEF Stages
<1>4. TypeOK'
  BY <1>1, <1>2, <1>3, QuietTypes
<1>5. Mentions(r) /\ Mentions(r)'
  BY <1>1, <1>3 DEF Mentions
<1>6. Ids(r)' = Ids(r)
  BY <1>3, <1>5 DEF Ids
<1>7. RequestInv(r)'
  <2>1. IdsInv(r)'
    BY <1>1, <1>2, <1>3, <1>5, <1>6 DEF RequestInv, IdsInv
  <2>2. TitleInv(r)'
    BY <1>1, <1>2, <1>3, <1>5, TitleStays DEF RequestInv, Named
  <2> QED BY <1>1, <1>3, <2>1, <2>2 DEF RequestInv, OpInv, RunInv
<1>8. \A q \in Requests \ {r} : ~Writing(q) /\ Ids(r) \cap Ids(q) = {}
  BY <1>2 DEF Free, ChatInv, LockInv
<1> QED BY <1>1, <1>2, <1>3, <1>4, <1>6, <1>7, <1>8, QuietStep DEF Ended

LEMMA WritesKeep ==
  ASSUME ChatInv, NEW r \in Requests, WriteChat(r) \/ WriteDelete(r)
  PROVE  ChatInv'
<1>1. pc[r] = "write" /\ TypeInv /\ TypeOK /\ lastId \in Nat /\ op[r] \in {"patch", "delete"} /\ op[r] \in Kinds
  BY DEF WriteChat, WriteDelete, ChatInv, TypeInv, TypeOK, Kinds
<1>2. PICK where \in {"done", "failed", "commit"} :
        /\ Goto(r, where) /\ UNCHANGED <<chat, messages, entries, lastId, raced, op, saw>>
        /\ where = "commit" => Free(r) /\ (op[r] = "delete" => \A q \in Requests : ~Mentions(q))
  <2>1. CASE WriteChat(r)
    BY <2>1 DEF WriteChat, tables
  <2>2. CASE WriteDelete(r)
    BY <2>2 DEF WriteDelete, tables
  <2> QED BY <2>1, <2>2
<1>3. /\ pc' \in [Requests -> Stages] /\ op' \in [Requests -> Kinds] /\ DOMAIN saw' = Requests
      /\ pc'[r] = where /\ op'[r] = op[r]
      /\ \A q \in Requests \ {r} : Same(q)
  <2>1. where \in Stages /\ op' = op /\ saw' = saw
    BY <1>2 DEF Stages
  <2> QED BY <1>1, <1>2, <2>1, Steps
<1>4. TypeOK'
  BY <1>1, <1>2, <1>3, QuietTypes
<1>5. ~Mentions(r)' /\ Ids(r)' = {} /\ IdsInv(r)' /\ TitleInv(r)'
  BY <1>1, <1>3, NoIds, NoTitle
<1>6. RequestInv(r)'
  <2>1. op[r] = "patch" => Patches(r, saw[r])
    BY <1>1 DEF ChatInv, RequestInv, RunInv
  <2>2. RunInv(r)'
    BY <1>1, <1>2, <1>3, <2>1 DEF RunInv
  <2> QED BY <1>1, <1>3, <1>5, <2>2 DEF RequestInv, OpInv
<1>7. Writing(r)' => where = "commit"
  BY <1>3 DEF Writing
<1> QED BY <1>1, <1>2, <1>3, <1>4, <1>5, <1>6, <1>7, QuietStep DEF Ended, Free

Knows(s) == {"id", "entryOf", "sql"} \subseteq DOMAIN s /\ s.id \in Nat /\ s.entryOf \in Turns
Ran(s)   == "result" \in DOMAIN s /\ s.result \in Results \cup {"error"}

\* A step of a run keeps the invariant if the run knows what it must.
LEMMA RunStep ==
  ASSUME ChatInv, NEW r \in Requests, pc[r] \in {"new", "run", "record", "attach"},
         NEW where \in {"run", "refused", "record", "attach", "save", "rerun"}, Goto(r, where),
         UNCHANGED <<chat, messages, entries, lastId, raced>>,
         NEW o \in Kinds, (op' = op /\ o = op[r]) \/ (Is(r, o) /\ pc[r] = "new"),
         NEW s, (saw' = saw /\ s = saw[r]) \/ Sees(r, s),
         where \in {"run", "record", "attach", "save"} => o = "execute" /\ Knows(s),
         where \in {"record", "attach", "save"} => Ran(s),
         where = "rerun" => o = "rerun"
  PROVE  ChatInv'
<1>1. TypeInv /\ TypeOK /\ lastId \in Nat /\ where \in Stages
  BY DEF ChatInv, TypeInv, TypeOK, Stages
<1>2. /\ pc' \in [Requests -> Stages] /\ op' \in [Requests -> Kinds] /\ DOMAIN saw' = Requests
      /\ pc'[r] = where /\ op'[r] = o /\ saw'[r] = s
      /\ \A q \in Requests \ {r} : Same(q)
  BY <1>1, Steps
<1>3. TypeOK'
  BY <1>1, <1>2, QuietTypes
<1>4. ~Mentions(r)' /\ Ids(r)' = {} /\ IdsInv(r)' /\ TitleInv(r)' /\ ~Writing(r)'
  BY <1>2, NoIds, NoTitle DEF Writing
<1>5. RunInv(r)'
  BY <1>2 DEF RunInv, Knows, Ran
<1>6. OpInv(r)'
  BY <1>2 DEF OpInv
<1>7. pc[r] = "new" \/ op'[r] = op[r]
  BY <1>2
<1> QED BY <1>1, <1>2, <1>3, <1>4, <1>5, <1>6, <1>7, QuietStep DEF Ended, RequestInv

LEMMA ExecuteKeeps ==
  ASSUME ChatInv, NEW r \in Requests, Execute(r)
  PROVE  ChatInv'
<1>1. PICK i \in DOMAIN messages, sql \in {"generated", "edited"} :
        Sees(r, [id |-> i, entryOf |-> messages[i].turn, sql |-> sql])
  BY DEF Execute
<1>2. i \in Nat /\ messages[i].turn \in Turns
  <2>1. lastId \in Nat /\ i \in 1..lastId /\ messages[i].turn \in Turns
    BY ONLY ChatInv, i \in DOMAIN messages DEF ChatInv, TypeInv, TypeOK, Turns
  <2> QED BY <2>1
<1> DEFINE s == [id |-> i, entryOf |-> messages[i].turn, sql |-> sql]
<1>3. Knows(s)
  BY <1>2 DEF Knows
<1>4. Sees(r, s)
  BY <1>1
<1> HIDE DEF s
<1>5. pc[r] = "new" /\ Is(r, "execute") /\ UNCHANGED <<chat, messages, entries, lastId, raced>> /\ "execute" \in Kinds
  BY DEF Execute, tables, Kinds
<1>6. CASE Goto(r, "run")
  BY <1>3, <1>4, <1>5, <1>6, RunStep
<1>7. CASE Goto(r, "refused")
  BY <1>4, <1>5, <1>7, RunStep
<1> QED BY <1>6, <1>7 DEF Execute

LEMMA RunEndsKeeps ==
  ASSUME ChatInv, NEW r \in Requests, RunEnds(r)
  PROVE  ChatInv'
<1>1. pc[r] = "run" /\ RequestInv(r) /\ op[r] \in Kinds
  BY DEF RunEnds, ChatInv, TypeInv, TypeOK, Kinds
<1>2. CASE Fail(r)
  BY <1>1, <1>2, FailKeeps DEF Ended
<1>3. ASSUME NEW result \in Results \cup {"error"},
             Sees(r, [id |-> saw[r].id, entryOf |-> saw[r].entryOf, sql |-> saw[r].sql, result |-> result]),
             Goto(r, "record"), UNCHANGED <<tables, op>>
      PROVE  ChatInv'
  <2> DEFINE s == [id |-> saw[r].id, entryOf |-> saw[r].entryOf, sql |-> saw[r].sql, result |-> result]
  <2>1. Knows(saw[r]) /\ op[r] = "execute"
    BY <1>1 DEF RequestInv, RunInv, OpInv, Knows
  <2>2. Knows(s)
    BY <2>1 DEF Knows
  <2>3. Ran(s)
    BY DEF Ran
  <2>4. Sees(r, s)
    BY <1>3
  <2> HIDE DEF s
  <2>5. UNCHANGED <<chat, messages, entries, lastId, raced>> /\ op' = op
    BY <1>3 DEF tables
  <2> QED BY <1>1, <1>3, <2>1, <2>2, <2>3, <2>4, <2>5, RunStep
<1> QED BY <1>2, <1>3 DEF RunEnds

LEMMA ReadEntryKeeps ==
  ASSUME ChatInv, NEW r \in Requests, ReadEntry(r)
  PROVE  ChatInv'
<1> DEFINE s == [f \in DOMAIN saw[r] \cup {"entry", "run"} |->
                   IF f = "entry" THEN entries[saw[r].entryOf] ELSE IF f = "run" THEN Nothing ELSE saw[r][f]]
<1>1. pc[r] = "record" /\ RequestInv(r) /\ op[r] \in Kinds
  BY DEF ReadEntry, ChatInv, TypeInv, TypeOK, Kinds
<1>2. Knows(saw[r]) /\ Ran(saw[r]) /\ op[r] = "execute"
  BY <1>1 DEF RequestInv, RunInv, OpInv, Knows, Ran
<1>3. Knows(s)
  BY <1>2 DEF Knows
<1>4. Ran(s)
  BY <1>2 DEF Ran
<1>5. Sees(r, s)
  BY DEF ReadEntry
<1> HIDE DEF s
<1>6. UNCHANGED <<chat, messages, entries, lastId, raced>> /\ op' = op
  BY DEF ReadEntry, tables
<1>7. CASE Goto(r, "save")
  BY <1>1, <1>2, <1>3, <1>4, <1>5, <1>6, <1>7, RunStep
<1>8. CASE Goto(r, "attach")
  BY <1>1, <1>2, <1>3, <1>4, <1>5, <1>6, <1>8, RunStep
<1> QED BY <1>7, <1>8 DEF ReadEntry

LEMMA ReadTurnKeeps ==
  ASSUME ChatInv, NEW r \in Requests, ReadTurn(r)
  PROVE  ChatInv'
<1>1. pc[r] = "attach" /\ RequestInv(r) /\ op[r] \in Kinds /\ Goto(r, "save")
  BY DEF ReadTurn, ChatInv, TypeInv, TypeOK, Kinds
<1>2. Knows(saw[r]) /\ Ran(saw[r]) /\ op[r] = "execute"
  BY <1>1 DEF RequestInv, RunInv, OpInv, Knows, Ran
<1>3. UNCHANGED <<chat, messages, entries, lastId, raced>> /\ op' = op
  BY DEF ReadTurn, tables
<1>4. CASE UNCHANGED saw
  BY <1>1, <1>2, <1>3, <1>4, RunStep
<1>5. CASE Sees(r, [saw[r] EXCEPT !.run = messages[saw[r].id].run])
  <2> DEFINE s == [saw[r] EXCEPT !.run = messages[saw[r].id].run]
  <2>1. Knows(s)
    BY <1>2 DEF Knows
  <2>2. Ran(s)
    BY <1>2 DEF Ran
  <2>3. Sees(r, s)
    BY <1>5
  <2> HIDE DEF s
  <2> QED BY <1>1, <1>2, <1>3, <2>1, <2>2, <2>3, RunStep
<1> QED BY <1>4, <1>5 DEF ReadTurn

LEMMA RerunKeeps ==
  ASSUME ChatInv, NEW r \in Requests, Rerun(r)
  PROVE  ChatInv'
<1>1. pc[r] = "new" /\ Is(r, "rerun") /\ saw' = saw /\ UNCHANGED <<chat, messages, entries, lastId, raced>> /\ "rerun" \in Kinds
  BY DEF Rerun, tables, Kinds
<1>2. CASE Goto(r, "rerun")
  BY <1>1, <1>2, RunStep
<1>3. CASE Goto(r, "refused")
  BY <1>1, <1>3, RunStep
<1> QED BY <1>2, <1>3 DEF Rerun

-----------------------------------------------------------------------------
(* The steps that store.                                                   *)

LEMMA CommitChatKeeps ==
  ASSUME ChatInv, NEW r \in Requests, CommitChat(r)
  PROVE  ChatInv'
<1>1. pc[r] = "commit" /\ TypeInv /\ TypeOK /\ lastId \in Nat /\ op[r] = "patch" /\ op[r] \in Kinds
  BY DEF CommitChat, ChatInv, TypeInv, TypeOK, Kinds
<1>2. Goto(r, "done") /\ UNCHANGED <<messages, entries, lastId, raced, op, saw>>
  BY DEF CommitChat
<1>3. /\ pc' \in [Requests -> Stages] /\ op' \in [Requests -> Kinds] /\ DOMAIN saw' = Requests
      /\ pc'[r] = "done" /\ op'[r] = op[r]
      /\ \A q \in Requests \ {r} : Same(q)
  BY SMTT(30), <1>1, <1>2, Steps DEF Stages
<1>4. /\ chat' \in [present : BOOLEAN, source : BOOLEAN, archived : BOOLEAN, title : Turns \cup {"New chat"}]
      /\ chat'.present = chat.present /\ (chat'.title = chat.title \/ (chat'.title = r /\ op'[r] # "ask"))
  <2> DEFINE L == saw[r].loaded
             W == saw[r].wanted
  <2>1. L \in ChatRows /\ W \in ChatRows /\ W.present = L.present /\ W.source = L.source /\ W.title \in {L.title, r}
    BY <1>1 DEF ChatInv, RequestInv, RunInv, Patches
  <2>2. chat \in ChatRows
    BY <1>1 DEF TypeOK, ChatRows, Turns
  <2>3. chat' = [c \in DOMAIN W |-> IF W[c] = L[c] THEN chat[c] ELSE W[c]]
    BY DEF CommitChat, Changed
  <2> HIDE DEF L, W
  <2>4. DOMAIN W = {"present", "source", "archived", "title"}
    BY <2>1 DEF ChatRows
  <2>5. chat' = [present |-> chat.present, source |-> chat.source,
                 archived |-> IF W.archived = L.archived THEN chat.archived ELSE W.archived,
                 title |-> IF W.title = L.title THEN chat.title ELSE r]
    BY <2>1, <2>2, <2>3, <2>4 DEF ChatRows
  <2>6. chat' \in ChatRows
    BY <2>1, <2>2, <2>5 DEF ChatRows, Turns
  <2> QED BY <1>1, <1>3, <2>5, <2>6 DEF ChatRows
<1>5. TypeInv'
  BY <1>1, <1>2, <1>3, <1>4 DEF TypeInv, TypeOK, Turns, Kinds, Stages
<1>6. RequestInv(r)' /\ ~Writing(r)' /\ ~Mentions(r)' /\ Ids(r)' = {}
  <2>1. ~Mentions(r)' /\ Ids(r)' = {} /\ IdsInv(r)' /\ TitleInv(r)'
    BY <1>1, <1>3, NoIds, NoTitle
  <2> QED BY <1>1, <1>3, <2>1 DEF RequestInv, OpInv, RunInv, Writing
<1>7. RecordsAgreeUnlessRaced'
  BY <1>2 DEF ChatInv, RecordsAgreeUnlessRaced, EntryAgrees, Recorded, Preview
<1>8. /\ DOMAIN messages' = DOMAIN messages /\ (messages = <<>> => messages' = <<>>)
      /\ \A i \in DOMAIN messages : messages'[i].role = messages[i].role /\ messages'[i].turn = messages[i].turn
      /\ DOMAIN entries \subseteq DOMAIN entries' /\ lastId' \in Nat /\ lastId <= lastId'
  BY <1>1, <1>2
<1>9. ~Ended(r) /\ pc'[r] # "new" /\ (pc[r] = "new" \/ op'[r] = op[r]) /\ ~(op'[r] = "ask")
  BY <1>1, <1>3 DEF Ended
<1>10. chat'.present = chat.present /\ (chat'.title = chat.title \/ (chat'.title = r /\ op'[r] # "ask"))
  BY <1>4
<1> QED BY <1>3, <1>5, <1>6, <1>7, <1>8, <1>9, <1>10, PlainStep

LEMMA DisconnectKeeps ==
  ASSUME ChatInv, NEW r \in Requests, Disconnect(r)
  PROVE  ChatInv'
<1>1. pc[r] = "new" /\ TypeInv /\ TypeOK /\ lastId \in Nat /\ "disconnect" \in Kinds
  BY DEF Disconnect, ChatInv, TypeInv, TypeOK, Kinds
<1>2. Goto(r, "done") /\ Is(r, "disconnect") /\ UNCHANGED <<messages, entries, lastId, raced, saw>>
  BY DEF Disconnect
<1>3. /\ pc' \in [Requests -> Stages] /\ op' \in [Requests -> Kinds] /\ DOMAIN saw' = Requests
      /\ pc'[r] = "done" /\ op'[r] = "disconnect"
      /\ \A q \in Requests \ {r} : Same(q)
  BY <1>1, <1>2, Steps DEF Stages
<1>4. /\ chat' \in [present : BOOLEAN, source : BOOLEAN, archived : BOOLEAN, title : Turns \cup {"New chat"}]
      /\ chat'.present = chat.present /\ chat'.title = chat.title
  BY <1>1 DEF Disconnect, TypeOK, Turns
<1>5. TypeInv'
  BY <1>1, <1>2, <1>3, <1>4 DEF TypeInv, TypeOK, Turns, Kinds, Stages
<1>6. RequestInv(r)' /\ ~Writing(r)' /\ ~Mentions(r)' /\ Ids(r)' = {}
  <2>1. ~Mentions(r)' /\ Ids(r)' = {} /\ IdsInv(r)' /\ TitleInv(r)'
    BY <1>3, NoIds, NoTitle
  <2> QED BY <1>3, <2>1 DEF RequestInv, OpInv, RunInv, Writing
<1>7. RecordsAgreeUnlessRaced'
  BY <1>2 DEF ChatInv, RecordsAgreeUnlessRaced, EntryAgrees, Recorded, Preview
<1>8. /\ DOMAIN messages' = DOMAIN messages /\ (messages = <<>> => messages' = <<>>)
      /\ \A i \in DOMAIN messages : messages'[i].role = messages[i].role /\ messages'[i].turn = messages[i].turn
      /\ DOMAIN entries \subseteq DOMAIN entries' /\ lastId' \in Nat /\ lastId <= lastId'
  BY <1>1, <1>2
<1>9. ~Ended(r) /\ pc'[r] # "new" /\ (pc[r] = "new" \/ op'[r] = op[r]) /\ ~(op'[r] = "ask")
  BY <1>1, <1>3 DEF Ended
<1>10. chat'.present = chat.present /\ (chat'.title = chat.title \/ (chat'.title = r /\ op'[r] # "ask"))
  BY <1>4
<1> QED BY <1>3, <1>5, <1>6, <1>7, <1>8, <1>9, <1>10, PlainStep

LEMMA RerunEndsKeeps ==
  ASSUME ChatInv, NEW r \in Requests, RerunEnds(r)
  PROVE  ChatInv'
<1>1. pc[r] = "rerun" /\ TypeInv /\ TypeOK /\ lastId \in Nat /\ op[r] = "rerun" /\ op[r] \in Kinds /\ RequestInv(r)
  BY DEF RerunEnds, ChatInv, TypeInv, TypeOK, Kinds, RequestInv, OpInv
<1>2. CASE Fail(r)
  BY <1>1, <1>2, FailKeeps DEF Ended
<1>3. ASSUME NEW result \in Results \cup {"error"},
             entries' = [t \in DOMAIN entries \cup {r} |-> IF t = r THEN Recorded(result) ELSE entries[t]],
             Goto(r, "done"), UNCHANGED <<chat, messages, lastId, raced, op, saw>>
      PROVE  ChatInv'
  <2>1. /\ pc' \in [Requests -> Stages] /\ op' \in [Requests -> Kinds] /\ DOMAIN saw' = Requests
        /\ pc'[r] = "done" /\ op'[r] = op[r]
        /\ \A q \in Requests \ {r} : Same(q)
    BY <1>1, <1>3, Steps DEF Stages
  <2>2. DOMAIN entries' = DOMAIN entries \cup {r} /\ entries'[r] = Recorded(result)
        /\ \A t \in DOMAIN entries \ {r} : entries'[t] = entries[t]
    BY <1>3
  <2>3. TypeInv'
    BY <1>1, <1>3, <2>1, <2>2 DEF TypeInv, TypeOK, Kinds, Stages
  <2>4. RequestInv(r)' /\ ~Writing(r)' /\ ~Mentions(r)' /\ Ids(r)' = {}
    <3>1. ~Mentions(r)' /\ Ids(r)' = {} /\ IdsInv(r)' /\ TitleInv(r)'
      BY <1>1, <2>1, NoIds, NoTitle
    <3> QED BY <2>1, <3>1 DEF RequestInv, OpInv, RunInv, Writing
  <2>5. RecordsAgreeUnlessRaced'
    <3>1. ASSUME NEW t \in DOMAIN entries' \ raced' PROVE EntryAgrees(entries'[t])
      BY <1>3, <2>2 DEF ChatInv, RecordsAgreeUnlessRaced, EntryAgrees
    <3> QED BY <1>3, <3>1 DEF ChatInv, RecordsAgreeUnlessRaced, EntryAgrees, Recorded, Preview
  <2>6. DOMAIN entries \subseteq DOMAIN entries'
    BY <2>2
  <2> QED BY <1>1, <1>3, <2>1, <2>3, <2>4, <2>5, <2>6, PlainStep DEF Ended
<1> QED BY <1>2, <1>3 DEF RerunEnds

LEMMA SaveKeeps ==
  ASSUME ChatInv, NEW r \in Requests, Save(r)
  PROVE  ChatInv'
<1> DEFINE s    == saw[r]
           new  == Recorded(s.result)
           run  == Attached(s)
           turn == IF s.run = Nothing \/ s.run = run THEN {} ELSE {s.id}
           over == (IF entries[s.entryOf] # s.entry THEN {s.entryOf} ELSE {}) \cup {i \in turn : messages[i].run # s.run}
<1>1. pc[r] = "save" /\ TypeInv /\ TypeOK /\ lastId \in Nat /\ op[r] = "execute" /\ op[r] \in Kinds
      /\ RequestInv(r) /\ RecordsAgreeUnlessRaced
  BY DEF Save, ChatInv, TypeInv, TypeOK, Kinds, RequestInv, OpInv
<1>2. s.id \in Nat /\ s.entryOf \in Turns /\ s.result \in Results \cup {"error"}
  BY <1>1 DEF RequestInv, RunInv
<1>3. CASE Fail(r)
  BY <1>1, <1>3, FailKeeps DEF Ended
<1>4. CASE ~Fail(r)
  <2>1. /\ entries' = [entries EXCEPT ![s.entryOf] = Changed(@, s.entry, new)]
        /\ messages' = [i \in DOMAIN messages |->
             IF i \in turn THEN [messages[i] EXCEPT !.run = Changed(@, s.run, run)] ELSE messages[i]]
        /\ raced' = (raced \ ({s.entryOf} \cup turn)) \cup over
        /\ Goto(r, "done") /\ UNCHANGED <<chat, lastId, op, saw>>
    BY <1>4 DEF Save
  <2>2. /\ pc' \in [Requests -> Stages] /\ op' \in [Requests -> Kinds] /\ DOMAIN saw' = Requests
        /\ pc'[r] = "done" /\ op'[r] = op[r]
        /\ \A q \in Requests \ {r} : Same(q)
    BY <1>1, <2>1, Steps DEF Stages
  <2>3. turn \subseteq {s.id}
    OBVIOUS
  <2>4. DOMAIN new = {"status", "rows", "error"} /\ EntryAgrees(new)
    BY <1>2 DEF EntryAgrees, Recorded
  <2>5. run = [sql |-> s.sql, sample |-> <<s.sql, s.result>>]
    BY DEF Attached
  <2>6. DOMAIN entries' = DOMAIN entries /\ DOMAIN messages' = DOMAIN messages /\ (messages = <<>> => messages' = <<>>)
    BY <2>1
  <2>7. ASSUME NEW i \in DOMAIN messages
        PROVE  /\ messages'[i].role = messages[i].role /\ messages'[i].turn = messages[i].turn
               /\ DOMAIN messages'[i] = {"role", "turn", "run"}
               /\ i \in turn => messages'[i].run = Changed(messages[i].run, s.run, run)
               /\ i \notin turn => messages'[i] = messages[i]
    <3>1. DOMAIN messages[i] = {"role", "turn", "run"}
      BY <1>1 DEF TypeInv
    <3>2. messages'[i] = IF i \in turn THEN [messages[i] EXCEPT !.run = Changed(@, s.run, run)] ELSE messages[i]
      BY <2>1
    <3> HIDE DEF turn, run, s
    <3> QED BY <3>1, <3>2
  <2>8. TypeInv'
    BY <1>1, <2>1, <2>2, <2>6, <2>7 DEF TypeInv, TypeOK, Kinds, Stages
  <2>9. RequestInv(r)' /\ ~Writing(r)' /\ ~Mentions(r)' /\ Ids(r)' = {}
    <3>1. ~Mentions(r)' /\ Ids(r)' = {} /\ IdsInv(r)' /\ TitleInv(r)'
      BY <1>1, <2>2, NoIds, NoTitle
    <3> QED BY <1>1, <2>2, <3>1 DEF RequestInv, OpInv, RunInv, Writing
  <2>10. ASSUME NEW t \in DOMAIN entries' \ raced' PROVE EntryAgrees(entries'[t])
    <3>1. t \in DOMAIN entries /\ t \notin over /\ t \in Turns
      BY <1>1, <2>1, <2>6 DEF TypeOK, Turns
    <3>2. CASE t = s.entryOf
      <4>1. entries[t] = s.entry
        BY <3>1, <3>2
      <4>2. entries'[t] = Changed(s.entry, s.entry, new)
        BY <2>1, <3>1, <3>2, <4>1
      <4>3. entries'[t] = new
        <5> DEFINE e == s.entry
        <5>1. new = Recorded(s.result) /\ entries'[t] = [c \in DOMAIN new |-> IF new[c] = e[c] THEN e[c] ELSE new[c]]
          BY <4>2 DEF Changed
        <5>2. entries'[t] = [c \in DOMAIN new |-> new[c]]
          BY <5>1
        <5>3. [c \in DOMAIN new |-> new[c]] = new
          BY DEF Recorded
        <5> QED BY <5>2, <5>3
      <4> QED BY <2>4, <4>3
    <3>3. CASE t # s.entryOf
      <4>1. t \notin turn
        BY <1>2, <2>3, <3>1, ChatsAssumption DEF Turns
      <4>2. t \notin raced
        BY <2>1, <3>3, <4>1
      <4>3. entries'[t] = entries[t]
        BY <2>1, <3>1, <3>3
      <4> QED BY <1>1, <3>1, <4>2, <4>3 DEF RecordsAgreeUnlessRaced
    <3> QED BY <3>2, <3>3
  <2>11. ASSUME NEW i \in DOMAIN messages' \ raced'
         PROVE  messages'[i].run.sample = Nothing \/ messages'[i].run.sample[1] = messages'[i].run.sql
    <3>1. i \in DOMAIN messages /\ i \notin over /\ i \in Nat
      <4>1. i \in DOMAIN messages /\ i \notin over
        BY <2>1, <2>6
      <4>2. i \in 1..lastId
        BY <1>1, <4>1 DEF TypeOK
      <4> QED BY <1>1, <4>1, <4>2
    <3>2. CASE i \in turn
      <4>1. messages[i].run = s.run
        BY <3>1, <3>2
      <4>2. messages'[i].run = Changed(s.run, s.run, run)
        BY <2>7, <3>1, <3>2, <4>1
      <4>3. messages'[i].run = run
        <5> DEFINE e == s.run
        <5>1. messages'[i].run = [c \in DOMAIN run |-> IF run[c] = e[c] THEN e[c] ELSE run[c]]
          BY <4>2 DEF Changed
        <5>2. messages'[i].run = [c \in DOMAIN run |-> run[c]]
          BY <5>1
        <5>3. [c \in DOMAIN run |-> run[c]] = run
          BY DEF Attached
        <5> QED BY <5>2, <5>3
      <4> QED BY <2>5, <4>3
    <3>3. CASE i \notin turn
      <4>1. i # s.entryOf
        BY <1>2, <3>1, ChatsAssumption DEF Turns
      <4>2. i \notin raced /\ messages'[i] = messages[i]
        BY <2>1, <2>7, <3>1, <3>3, <4>1
      <4> QED BY <1>1, <3>1, <4>2 DEF RecordsAgreeUnlessRaced
    <3> QED BY <3>2, <3>3
  <2>12. RecordsAgreeUnlessRaced'
    BY <2>10, <2>11 DEF RecordsAgreeUnlessRaced, EntryAgrees, Recorded, Preview
  <2> QED BY <1>1, <2>1, <2>2, <2>6, <2>7, <2>8, <2>9, <2>12, PlainStep DEF Ended
<1> QED BY <1>3, <1>4

\* A request that is done holds no lock.
LEMMA LocksKept ==
  ASSUME LockInv, NEW r \in Requests, \A q \in Requests \ {r} : Same(q),
         ~Writing(r)', ~Mentions(r)', Ids(r)' = {}
  PROVE  LockInv'
<1> SUFFICES ASSUME NEW p \in Requests, NEW q \in Requests, p # q
             PROVE  /\ ~(Writing(p)' /\ Writing(q)')
                    /\ Writing(p)' /\ op'[p] = "delete" => ~Mentions(q)'
                    /\ Ids(p)' \cap Ids(q)' = {}
  BY DEF LockInv
<1>1. CASE p = r \/ q = r
  BY <1>1
<1>2. CASE p # r /\ q # r
  BY <1>2, SameRequest DEF Same, LockInv
<1> QED BY <1>1, <1>2

LEMMA CommitDeleteKeeps ==
  ASSUME ChatInv, NEW r \in Requests, CommitDelete(r)
  PROVE  ChatInv'
<1>1. pc[r] = "commit" /\ TypeInv /\ TypeOK /\ lastId \in Nat /\ op[r] = "delete" /\ op[r] \in Kinds
  BY DEF CommitDelete, ChatInv, TypeInv, TypeOK, Kinds
<1>2. Goto(r, "done") /\ messages' = <<>> /\ UNCHANGED <<entries, lastId, raced, op, saw>>
  BY DEF CommitDelete
<1>3. /\ pc' \in [Requests -> Stages] /\ op' \in [Requests -> Kinds] /\ DOMAIN saw' = Requests
      /\ pc'[r] = "done" /\ op'[r] = op[r]
      /\ \A q \in Requests \ {r} : Same(q)
  BY <1>1, <1>2, Steps DEF Stages
<1>4. /\ chat' \in [present : BOOLEAN, source : BOOLEAN, archived : BOOLEAN, title : Turns \cup {"New chat"}]
      /\ ~chat'.present /\ chat'.title = chat.title
  BY <1>1 DEF CommitDelete, TypeOK, Turns
<1>5. DOMAIN messages' = {} /\ \A t : Of(t)' = {}
  <2>1. DOMAIN messages' = {}
    BY <1>2
  <2> QED BY <2>1 DEF Of
<1>6. TypeInv'
  <2>1. DOMAIN messages' \subseteq 1..lastId'
    BY <1>5
  <2> QED BY <1>1, <1>2, <1>3, <1>4, <1>5, <2>1 DEF TypeInv, TypeOK, Turns, Kinds, Stages
<1>7. RequestInv(r)' /\ ~Writing(r)' /\ ~Mentions(r)' /\ Ids(r)' = {}
  <2>1. ~Mentions(r)' /\ Ids(r)' = {} /\ IdsInv(r)' /\ TitleInv(r)'
    BY <1>1, <1>3, NoIds, NoTitle
  <2> QED BY <1>1, <1>3, <2>1 DEF RequestInv, OpInv, RunInv, Writing
<1>8. LockInv'
  BY <1>3, <1>7, LocksKept DEF ChatInv
<1>9. OwnerInv'
  <2>1. chat'.title \in Requests => pc'[chat'.title] # "new"
    BY ZenonT(30), <1>3, <1>4 DEF ChatInv, OwnerInv, Same
  <2> QED BY <1>5, <2>1 DEF OwnerInv
<1>10. TurnsWhole'
  <2>1. ASSUME NEW t \in Turns PROVE Whole(t)'
    <3>1. Whole(t)
      BY TurnByTurn DEF ChatInv
    <3>2. t \in Requests /\ op'[t] = "ask" /\ pc'[t] = "done" => op[t] = "ask" /\ pc[t] = "done"
      BY <1>1, <1>3 DEF Same
    <3> QED BY <1>2, <1>4, <1>5, <3>1, <3>2 DEF Whole
  <2> QED BY <2>1 DEF TurnsWhole, Whole, Turns
<1>11. NamedByATurn'
  BY <1>2, <1>4 DEF NamedByATurn
<1>12. RecordsAgreeUnlessRaced'
  BY <1>2, <1>5 DEF ChatInv, RecordsAgreeUnlessRaced, EntryAgrees, Recorded, Preview
<1>13. ASSUME NEW q \in Requests \ {r} PROVE RequestInv(q)'
  <2>1. ~Mentions(q) /\ Ids(q) \cap DOMAIN messages' = {}
    <3>1. Writing(r)
      BY <1>1 DEF Writing
    <3> QED BY <1>1, <1>5, <3>1 DEF ChatInv, LockInv
  <2>2. RequestInv(q) /\ Same(q)
    BY <1>3 DEF ChatInv
  <2>3. Named => Named'
    BY <1>4 DEF Named
  <2>4. lastId' \in Nat /\ lastId <= lastId'
    BY <1>1, <1>2
  <2> QED BY <1>1, <2>1, <2>2, <2>3, <2>4, OthersKeep
<1> QED BY <1>6, <1>7, <1>8, <1>9, <1>10, <1>11, <1>12, <1>13 DEF ChatInv

LEMMA CommitTurnKeeps ==
  ASSUME ChatInv, NEW r \in Requests, CommitTurn(r)
  PROVE  ChatInv'
<1>1. /\ pc[r] = "commit" /\ TypeInv /\ TypeOK /\ lastId \in Nat /\ op[r] = "ask" /\ op[r] \in Kinds
      /\ RequestInv(r) /\ Mentions(r) /\ Writing(r)
  BY DEF CommitTurn, ChatInv, TypeInv, TypeOK, Kinds, Mentions, Writing
<1>2. Goto(r, "done") /\ UNCHANGED <<lastId, raced, op, saw>>
  BY DEF CommitTurn
<1>3. /\ pc' \in [Requests -> Stages] /\ op' \in [Requests -> Kinds] /\ DOMAIN saw' = Requests
      /\ pc'[r] = "done" /\ op'[r] = op[r]
      /\ \A q \in Requests \ {r} : Same(q)
  BY <1>1, <1>2, Steps DEF Stages
<1>4. PICK i \in Nat, j \in Nat : saw[r].ids[1] = i /\ i < j /\ ToSet(saw[r].ids) = {i, j} /\ Ids(r) = {i, j}
  <2>1. saw[r].ids \in Seq(Nat) /\ Len(saw[r].ids) = 2 /\ saw[r].ids[1] < saw[r].ids[2]
    BY <1>1 DEF RequestInv, IdsInv
  <2> DEFINE s == saw[r].ids
  <2>2. DOMAIN s = {1, 2} /\ s[1] \in Nat /\ s[2] \in Nat
    BY <2>1
  <2>3. ToSet(s) = {s[1], s[2]}
    BY <2>2 DEF ToSet
  <2>4. Ids(r) = {s[1], s[2]}
    BY <1>1, <2>2 DEF Ids
  <2> QED BY <2>1, <2>2, <2>3, <2>4
<1>5. chat.present /\ {i, j} \subseteq (1..lastId) \ DOMAIN messages
  BY <1>1, <1>4 DEF RequestInv, IdsInv
<1>6. /\ DOMAIN messages' = DOMAIN messages \cup {i, j}
      /\ messages'[i] = Message("user", r, NotRun) /\ messages'[j] = Message("assistant", r, NotRun)
      /\ \A k \in DOMAIN messages : messages'[k] = messages[k]
  <2>1. i # j /\ i \notin DOMAIN messages /\ j \notin DOMAIN messages
    BY <1>4, <1>5
  <2>2. messages' = [k \in DOMAIN messages \cup {i, j} |->
                       IF k \in DOMAIN messages THEN messages[k] ELSE Message(IF k = i THEN "user" ELSE "assistant", r, NotRun)]
    BY <1>4 DEF CommitTurn
  <2> QED BY ONLY <2>1, <2>2
<1>7. /\ DOMAIN entries' = DOMAIN entries \cup {r} /\ entries'[r] = Preview
      /\ \A t \in DOMAIN entries \ {r} : entries'[t] = entries[t]
  BY DEF CommitTurn
<1>8. /\ chat' \in [present : BOOLEAN, source : BOOLEAN, archived : BOOLEAN, title : Turns \cup {"New chat"}]
      /\ chat'.present /\ (chat'.title = chat.title \/ chat'.title = r) /\ Named'
  <2>1. CASE saw[r].title = "New chat"
    <3>1. chat' = [chat EXCEPT !.title = r]
      BY <2>1 DEF CommitTurn
    <3>2. r # "New chat"
      BY ChatsAssumption
    <3> QED BY <1>1, <1>5, <3>1, <3>2 DEF TypeOK, Turns, Named
  <2>2. CASE saw[r].title # "New chat"
    <3>1. chat' = chat
      BY <2>2 DEF CommitTurn
    <3>2. Named
      BY <1>1, <2>2 DEF RequestInv, TitleInv
    <3> QED BY <1>1, <1>5, <3>1, <3>2 DEF TypeOK, Turns, Named
  <2> QED BY <2>1, <2>2
<1>9. messages'[i].turn = r /\ messages'[j].turn = r /\ messages'[i].role = "user" /\ messages'[j].role = "assistant"
      /\ messages'[i].run.sample = Nothing /\ messages'[j].run.sample = Nothing
      /\ DOMAIN messages'[i] = {"role", "turn", "run"} /\ DOMAIN messages'[j] = {"role", "turn", "run"}
  BY <1>6 DEF Message, NotRun
<1>10. Of(r) = {}
  BY <1>1 DEF ChatInv, OwnerInv
<1>11. Of(r)' = {i, j} /\ \A t \in Turns \ {r} : Of(t)' = Of(t)
  <2>1. Of(r)' = {i, j}
    BY <1>6, <1>9, <1>10 DEF Of
  <2>2. ASSUME NEW t \in Turns \ {r} PROVE Of(t)' = Of(t)
    BY <1>6, <1>9 DEF Of
  <2> QED BY <2>1, <2>2
<1>12. TypeInv'
  <2>1. DOMAIN messages' \subseteq 1..lastId'
    BY <1>1, <1>2, <1>5, <1>6 DEF TypeOK
  <2>2. ASSUME NEW k \in DOMAIN messages'
        PROVE  messages'[k].role \in {"user", "assistant"} /\ messages'[k].turn \in Turns /\ DOMAIN messages'[k] = {"role", "turn", "run"}
    <3>1. CASE k \in {i, j}
      BY <1>9, <3>1 DEF Turns
    <3>2. CASE k \notin {i, j}
      BY <1>1, <1>6, <3>2 DEF TypeInv, TypeOK, Turns
    <3> QED BY <3>1, <3>2
  <2>3. DOMAIN entries' \subseteq Turns
    BY <1>1, <1>7 DEF TypeOK, Turns
  <2> QED BY <1>1, <1>2, <1>3, <1>8, <2>1, <2>2, <2>3 DEF TypeInv, TypeOK, Turns, Kinds, Stages
<1>13. RequestInv(r)' /\ ~Writing(r)' /\ ~Mentions(r)' /\ Ids(r)' = {}
  <2>1. ~Mentions(r)' /\ Ids(r)' = {} /\ IdsInv(r)' /\ TitleInv(r)'
    BY <1>1, <1>3, NoIds, NoTitle
  <2> QED BY <1>1, <1>3, <2>1 DEF RequestInv, OpInv, RunInv, Writing
<1>14. LockInv'
  BY <1>3, <1>13, LocksKept DEF ChatInv
<1>15. OwnerInv'
  <2>1. ASSUME NEW q \in Requests, Of(q)' # {} PROVE op'[q] = "ask" /\ pc'[q] = "done"
    <3>1. CASE q = r
      BY <1>1, <1>3, <3>1
    <3>2. CASE q # r
      BY <1>3, <1>11, <2>1, <3>2 DEF ChatInv, OwnerInv, Same, Turns
    <3> QED BY <3>1, <3>2
  <2>2. chat'.title \in Requests => pc'[chat'.title] # "new"
    BY ZenonT(30), <1>3, <1>8 DEF ChatInv, OwnerInv, Same
  <2> QED BY <2>1, <2>2 DEF OwnerInv
<1>16. TurnsWhole'
  <2>1. Whole(r)'
    <3>1. \E a, b \in Of(r)' : Of(r)' = {a, b} /\ a < b /\ messages'[a].role = "user" /\ messages'[b].role = "assistant"
      BY <1>4, <1>9, <1>11
    <3> QED BY <1>7, <1>8, <1>11, <3>1 DEF Whole
  <2>2. ASSUME NEW t \in Turns \ {r} PROVE Whole(t)'
    <3>1. Whole(t)
      BY TurnByTurn DEF ChatInv
    <3>2. t \in Requests /\ op'[t] = "ask" /\ pc'[t] = "done" => op[t] = "ask" /\ pc[t] = "done"
      BY <1>3 DEF Same
    <3>3. Of(t)' = Of(t) /\ Of(t) \subseteq DOMAIN messages
      BY <1>11 DEF Of
    <3>4. Of(t)' # {} => \E a, b \in Of(t)' : Of(t)' = {a, b} /\ a < b /\ messages'[a].role = "user" /\ messages'[b].role = "assistant"
      <4>1. SUFFICES ASSUME Of(t) # {}
                     PROVE  \E a, b \in Of(t) : Of(t) = {a, b} /\ a < b /\ messages'[a].role = "user" /\ messages'[b].role = "assistant"
        BY <3>3
      <4>2. PICK a \in Of(t), b \in Of(t) : Of(t) = {a, b} /\ a < b /\ messages[a].role = "user" /\ messages[b].role = "assistant"
        BY <3>1, <4>1 DEF Whole
      <4>3. messages'[a].role = "user" /\ messages'[b].role = "assistant"
        BY <1>6, <3>3, <4>2
      <4> QED BY <4>2, <4>3
    <3>5. Of(t)' # {} => chat'.present /\ t \in DOMAIN entries'
      BY <1>7, <1>8, <3>1, <3>3 DEF Whole
    <3>6. t \in Requests /\ op'[t] = "ask" /\ pc'[t] = "done" => t \in DOMAIN entries' /\ (Of(t)' = {} => ~chat'.present)
      <4>1. SUFFICES ASSUME t \in Requests, op[t] = "ask", pc[t] = "done"
                     PROVE  t \in DOMAIN entries' /\ (Of(t) = {} => ~chat'.present)
        BY <3>2, <3>3
      <4>2. t \in DOMAIN entries /\ (Of(t) = {} => ~chat.present)
        BY <3>1, <4>1 DEF Whole
      <4> QED BY <1>5, <1>7, <4>2
    <3> QED BY <3>4, <3>5, <3>6 DEF Whole
  <2> QED BY <2>1, <2>2 DEF TurnsWhole, Whole, Turns
<1>17. NamedByATurn'
  <2>1. ASSUME chat'.title \in Requests, op'[chat'.title] = "ask"
        PROVE  {k \in DOMAIN messages' : messages'[k].turn = chat'.title} # {}
    <3>1. CASE chat'.title = r
      BY <1>6, <1>9, <3>1
    <3>2. CASE chat'.title # r
      <4>1. chat.title = chat'.title /\ op[chat.title] = "ask"
        BY <1>3, <1>8, <2>1, <3>2 DEF Same
      <4>2. Of(chat.title) # {}
        BY <1>5, <2>1, <4>1 DEF ChatInv, NamedByATurn
      <4> QED BY <1>6, <4>1, <4>2 DEF Of
    <3> QED BY <3>1, <3>2
  <2> QED BY <1>8, <2>1 DEF NamedByATurn, Named, Of
<1>18. RecordsAgreeUnlessRaced'
  <2>1. ASSUME NEW t \in DOMAIN entries' \ raced' PROVE EntryAgrees(entries'[t])
    BY <1>2, <1>7 DEF ChatInv, RecordsAgreeUnlessRaced, EntryAgrees
  <2>2. ASSUME NEW k \in DOMAIN messages' \ raced'
        PROVE  messages'[k].run.sample = Nothing \/ messages'[k].run.sample[1] = messages'[k].run.sql
    BY <1>2, <1>6, <1>9 DEF ChatInv, RecordsAgreeUnlessRaced
  <2> QED BY <2>1, <2>2 DEF RecordsAgreeUnlessRaced, EntryAgrees, Recorded, Preview
<1>19. ASSUME NEW q \in Requests \ {r} PROVE RequestInv(q)'
  <2>1. RequestInv(q) /\ Same(q)
    BY <1>3 DEF ChatInv
  <2>2. Ids(q) \cap DOMAIN messages' = {}
    <3>1. Ids(q) \cap {i, j} = {}
      BY <1>4 DEF ChatInv, LockInv
    <3>2. Ids(q) \cap DOMAIN messages = {}
      BY <2>1 DEF RequestInv, IdsInv, Ids
    <3> QED BY <1>6, <3>1, <3>2
  <2>3. lastId' \in Nat /\ lastId <= lastId'
    BY <1>1, <1>2
  <2> QED BY <1>1, <1>8, <2>1, <2>2, <2>3, OthersKeep
<1> QED BY <1>12, <1>13, <1>14, <1>15, <1>16, <1>17, <1>18, <1>19 DEF ChatInv

-----------------------------------------------------------------------------

LEMMA TypesHold ==
  ASSUME chat \in [present : BOOLEAN, source : BOOLEAN, archived : BOOLEAN, title : Turns \cup {"New chat"}],
         lastId \in Nat, DOMAIN messages \subseteq 1..lastId, DOMAIN entries \subseteq Turns,
         \A i \in DOMAIN messages : /\ messages[i].role \in {"user", "assistant"} /\ messages[i].turn \in Turns
                                    /\ DOMAIN messages[i] = {"role", "turn", "run"},
         op = [r \in Requests |-> "none"], pc = [r \in Requests |-> "new"], saw = [r \in Requests |-> Nothing]
  PROVE  TypeInv
<1>1. op \in [Requests -> Kinds] /\ pc \in [Requests -> Stages] /\ DOMAIN saw = Requests
  BY DEF Kinds, Stages
<1>2. chat \in [present : BOOLEAN, source : BOOLEAN, archived : BOOLEAN, title : Requests \cup {Past, "New chat"}]
  BY DEF Turns
<1> QED BY <1>1, <1>2 DEF TypeInv, TypeOK, Turns, Kinds, Stages

LEMMA InitHolds == Init => ChatInv
<1> SUFFICES ASSUME Init PROVE ChatInv
  OBVIOUS
<1>1. /\ op = [r \in Requests |-> "none"] /\ pc = [r \in Requests |-> "new"] /\ saw = [r \in Requests |-> Nothing]
      /\ lastId = Cardinality(DOMAIN messages)
  BY DEF Init
<1>2. /\ chat \in [present : BOOLEAN, source : BOOLEAN, archived : BOOLEAN, title : Turns \cup {"New chat"}]
      /\ chat.present /\ chat.title \notin Requests
  <2>1. \/ chat = [present |-> TRUE, source |-> TRUE, archived |-> FALSE, title |-> "New chat"]
        \/ chat = [present |-> TRUE, source |-> TRUE, archived |-> FALSE, title |-> Past]
    BY DEF Init
  <2>2. Past \notin Requests /\ "New chat" \notin Requests
    BY ChatsAssumption
  <2>3. CASE chat = [present |-> TRUE, source |-> TRUE, archived |-> FALSE, title |-> "New chat"]
    BY <2>2, <2>3
  <2>4. CASE chat = [present |-> TRUE, source |-> TRUE, archived |-> FALSE, title |-> Past]
    BY <2>2, <2>4 DEF Turns
  <2> QED BY <2>1, <2>3, <2>4
<1>3. \A r \in Requests : RequestInv(r) /\ ~Writing(r) /\ ~Mentions(r) /\ Ids(r) = {}
  BY <1>1 DEF RequestInv, OpInv, IdsInv, TitleInv, RunInv, Writing, Mentions, Ids
<1>4. LockInv
  BY <1>3 DEF LockInv
<1>5. CASE messages = <<>> /\ entries = <<>>
  <2>1. DOMAIN messages = {} /\ DOMAIN entries = {} /\ lastId = 0 /\ \A t : Of(t) = {}
    BY <1>1, <1>5, FS_EmptySet DEF Of
  <2>2. TypeInv
    <3>1. DOMAIN messages \subseteq 1..lastId /\ lastId \in Nat
      BY <2>1
    <3> QED BY <1>1, <1>2, <2>1, <3>1, TypesHold
  <2>3. OwnerInv /\ TurnsWhole /\ NamedByATurn
    BY <1>1, <1>2, <1>5, <2>1 DEF OwnerInv, TurnsWhole, NamedByATurn
  <2>4. RecordsAgreeUnlessRaced
    BY <2>1 DEF RecordsAgreeUnlessRaced
  <2> QED BY <1>3, <1>4, <2>2, <2>3, <2>4 DEF ChatInv
<1>6. ASSUME NEW result \in Results \cup {Nothing}, NEW run,
             run = (IF result = Nothing THEN NotRun ELSE [sql |-> "generated", sample |-> <<"generated", result>>]),
             messages = << Message("user", Past, NotRun), Message("assistant", Past, run) >>,
             entries = [t \in {Past} |-> IF result = Nothing THEN Preview ELSE Recorded(result)],
             chat.title = Past
      PROVE  ChatInv
  <2>1. /\ DOMAIN messages = 1..2 /\ messages[1] = Message("user", Past, NotRun) /\ messages[2] = Message("assistant", Past, run)
        /\ DOMAIN entries = {Past} /\ lastId = 2
    <3>1. /\ DOMAIN messages = 1..2 /\ messages[1] = Message("user", Past, NotRun) /\ messages[2] = Message("assistant", Past, run)
          /\ DOMAIN entries = {Past}
      BY <1>6
    <3>2. Cardinality(1..2) = 2
      <4>1. 1 \in Int /\ 2 \in Int
        OBVIOUS
      <4>2. Cardinality(1..2) = IF 1 > 2 THEN 0 ELSE 2 - 1 + 1
        BY <4>1, FS_Interval, Zenon
      <4> QED BY <4>2
    <3> QED BY <1>1, <3>1, <3>2
  <2>2. \A i \in DOMAIN messages : i = 1 \/ i = 2
    BY <2>1
  <2>3. /\ messages[1].role = "user" /\ messages[1].turn = Past /\ DOMAIN messages[1] = {"role", "turn", "run"}
        /\ messages[2].role = "assistant" /\ messages[2].turn = Past /\ DOMAIN messages[2] = {"role", "turn", "run"}
        /\ messages[1].run = NotRun /\ messages[2].run = run
    BY <2>1 DEF Message
  <2>4. Of(Past) = {1, 2} /\ \A r \in Requests : Of(r) = {}
    <3>1. 1 \in DOMAIN messages /\ 2 \in DOMAIN messages
      BY <2>1
    <3>2. Past \notin Requests
      BY ChatsAssumption
    <3>3. \A i \in DOMAIN messages : messages[i].turn = Past
      BY <2>2, <2>3
    <3>4. Of(Past) = DOMAIN messages /\ DOMAIN messages = {1, 2}
      BY <2>2, <3>1, <3>3 DEF Of
    <3>5. \A r \in Requests : Of(r) = {}
      BY <3>2, <3>3 DEF Of
    <3> QED BY <3>4, <3>5
  <2>5. TypeInv
    <3>1. DOMAIN messages \subseteq 1..lastId /\ lastId \in Nat
      BY <2>1
    <3>2. \A i \in DOMAIN messages : /\ messages[i].role \in {"user", "assistant"} /\ messages[i].turn \in Turns
                                     /\ DOMAIN messages[i] = {"role", "turn", "run"}
      BY <2>2, <2>3 DEF Turns
    <3>3. DOMAIN entries \subseteq Turns
      BY <2>1 DEF Turns
    <3> QED BY <1>1, <1>2, <3>1, <3>2, <3>3, TypesHold
  <2>6. OwnerInv
    BY <1>2, <2>4 DEF OwnerInv
  <2>7. TurnsWhole
    <3>1. Whole(Past)
      <4>1. \E i, j \in Of(Past) : Of(Past) = {i, j} /\ i < j /\ messages[i].role = "user" /\ messages[j].role = "assistant"
        BY <2>3, <2>4
      <4>2. chat.present /\ Past \in DOMAIN entries /\ Past \notin Requests
        BY <1>2, <2>1, ChatsAssumption
      <4> QED BY <4>1, <4>2 DEF Whole
    <3>2. ASSUME NEW r \in Requests PROVE Whole(r)
      BY <1>1, <2>4 DEF Whole
    <3> QED BY <3>1, <3>2, TurnByTurn DEF Turns
  <2>8. NamedByATurn
    BY <1>2, <1>6, ChatsAssumption DEF NamedByATurn
  <2>9. RecordsAgreeUnlessRaced
    <3>1. ASSUME NEW t \in DOMAIN entries PROVE EntryAgrees(entries[t])
      <4>1. entries[t] = IF result = Nothing THEN Preview ELSE Recorded(result)
        BY <1>6, <2>1
      <4> QED BY <4>1 DEF EntryAgrees
    <3>2. ASSUME NEW i \in DOMAIN messages
          PROVE  messages[i].run.sample = Nothing \/ messages[i].run.sample[1] = messages[i].run.sql
      <4>1. CASE messages[i].run = NotRun
        BY <4>1 DEF NotRun
      <4>2. CASE messages[i].run = [sql |-> "generated", sample |-> <<"generated", result>>]
        BY <4>2
      <4> QED BY <1>6, <2>2, <2>3, <4>1, <4>2
    <3> QED BY <3>1, <3>2 DEF RecordsAgreeUnlessRaced
  <2> QED BY <1>3, <1>4, <2>5, <2>6, <2>7, <2>8, <2>9 DEF ChatInv
<1>7. CASE ~(messages = <<>> /\ entries = <<>>)
  <2>1. PICK result \in Results \cup {Nothing} :
          LET run == IF result = Nothing THEN NotRun ELSE [sql |-> "generated", sample |-> <<"generated", result>>]
          IN  /\ messages = << Message("user", Past, NotRun), Message("assistant", Past, run) >>
              /\ entries = [t \in {Past} |-> IF result = Nothing THEN Preview ELSE Recorded(result)]
              /\ chat.title = Past
    <3>1. chat = [present |-> TRUE, source |-> TRUE, archived |-> FALSE, title |-> Past] => chat.title = Past
      OBVIOUS
    <3> QED BY <1>7, <3>1 DEF Init
  <2> QED BY <1>6, <2>1
<1> QED BY <1>5, <1>7

LEMMA StutterKeeps ==
  ASSUME ChatInv, UNCHANGED <<chat, messages, entries, lastId, op, pc, saw, raced>>
  PROVE  ChatInv'
<1>2. TypeInv'
  <2>1. TypeInv
    BY DEF ChatInv
  <2> QED BY <2>1 DEF TypeInv, TypeOK
<1>3. LockInv'
  <2>1. \A r \in Requests : (Mentions(r)' <=> Mentions(r)) /\ (Writing(r)' <=> Writing(r)) /\ Ids(r)' = Ids(r)
    BY SameRequest DEF Same
  <2>2. LockInv
    BY DEF ChatInv
  <2> QED BY <2>1, <2>2 DEF LockInv
<1>4. \A t : Of(t)' = Of(t)
  BY DEF Of
<1>5. OwnerInv'
  BY <1>4 DEF ChatInv, OwnerInv
<1>6. TurnsWhole'
  <2>1. ASSUME NEW t \in Turns PROVE Whole(t)'
    BY <1>4, TurnByTurn DEF ChatInv, Whole
  <2> QED BY <2>1 DEF TurnsWhole, Whole, Turns
<1>7. NamedByATurn'
  BY DEF ChatInv, NamedByATurn, Of
<1>8. RecordsAgreeUnlessRaced'
  BY DEF ChatInv, RecordsAgreeUnlessRaced, EntryAgrees, Recorded, Preview
<1>9. ASSUME NEW r \in Requests PROVE RequestInv(r)'
  <2>1. RequestInv(r) /\ Same(r)
    BY DEF ChatInv, Same
  <2>2. (Mentions(r) => chat'.present) /\ Ids(r) \cap DOMAIN messages' = {}
    BY <2>1 DEF RequestInv, IdsInv, Ids
  <2>3. (Named => Named') /\ lastId \in Nat /\ lastId' \in Nat /\ lastId <= lastId'
    <3>1. lastId \in Nat
      BY DEF ChatInv, TypeInv, TypeOK
    <3>2. Named => Named'
      BY DEF Named
    <3>3. lastId' = lastId
      OBVIOUS
    <3> QED BY <3>1, <3>2, <3>3
  <2> QED BY <2>1, <2>2, <2>3, OthersKeep
<1> QED BY <1>2, <1>3, <1>5, <1>6, <1>7, <1>8, <1>9 DEF ChatInv

LEMMA NextKeeps == ChatInv /\ [Next]_vars => ChatInv'
<1> SUFFICES ASSUME ChatInv, [Next]_vars PROVE ChatInv'
  OBVIOUS
<1>1. CASE UNCHANGED vars
  BY <1>1, StutterKeeps DEF vars
<1>2. ASSUME NEW r \in Requests, Arrives(r) PROVE ChatInv'
  BY <1>2, LoadChatKeeps, DisconnectKeeps, ExecuteKeeps, RerunKeeps DEF Arrives
<1>3. ASSUME NEW r \in Requests, Goes(r) PROVE ChatInv'
  BY <1>3, AskKeeps, InsertQuestionKeeps, InsertAnswerKeeps, BumpKeeps, CommitTurnKeeps, WritesKeep, CommitChatKeeps,
     CommitDeleteKeeps, RunEndsKeeps, ReadEntryKeeps, ReadTurnKeeps, SaveKeeps, RerunEndsKeeps DEF Goes
<1> QED BY <1>1, <1>2, <1>3 DEF Next, Over

\* The inductive invariant holds of every run of the chat's requests.
THEOREM ChatHolds == Spec => []ChatInv
BY InitHolds, NextKeeps, PTL DEF Spec

\* However requests interleave, a question's turn is stored whole and in order
\* while its chat exists (persist_chat_turn, delete_chat), its history row
\* outlives it, and a chat with turns is named, by the user or a turn it has.
THEOREM ChatIsWhole == Spec => []ChatsInv
<1>1. ChatInv => ChatsInv
  BY DEF ChatInv, ChatsInv, TypeInv
<1> QED BY <1>1, ChatHolds, PTL

\* A history row tells of one run, and a stored sample is of the statement stored
\* with it, unless a run wrote over a version it had not read (_record_history,
\* _attach_chat_sample).
THEOREM RecordsAgree == Spec => []RecordsAgreeUnlessRaced
<1>1. ChatInv => RecordsAgreeUnlessRaced
  BY DEF ChatInv
<1> QED BY <1>1, ChatHolds, PTL

-----------------------------------------------------------------------------
(* Numbers in order.                                                       *)

\* The place of a number in a set.
Place(S, i) == Cardinality({j \in S : j <= i})

LEMMA Counted ==
  ASSUME NEW n \in Nat, NEW S, S \subseteq 1..n
  PROVE  IsFiniteSet(S) /\ Cardinality(S) \in Nat
<1>1. IsFiniteSet(1..n)
  BY FS_Interval, 1 \in Int, n \in Int
<1>2. IsFiniteSet(S)
  BY <1>1, FS_Subset
<1> QED BY <1>2, FS_CardinalityType

\* A greater number comes later.
LEMMA PlaceGrows ==
  ASSUME NEW n \in Nat, NEW S, S \subseteq 1..n, NEW i \in S, NEW j \in S, i < j
  PROVE  Place(S, i) < Place(S, j)
<1> DEFINE I == {k \in S : k <= i}
           J == {k \in S : k <= j}
<1>1. I \subseteq J /\ j \in J /\ j \notin I /\ J \subseteq 1..n /\ i \in 1..n /\ j \in 1..n
  <2>1. i \in 1..n /\ j \in 1..n /\ ~(j <= i)
    OBVIOUS
  <2>2. ASSUME NEW k \in I PROVE k \in J
    <3>1. k \in 1..n /\ k <= i
      OBVIOUS
    <3> QED BY <2>1, <3>1
  <2>3. j <= j
    BY <2>1
  <2>4. j \in J /\ j \notin I /\ J \subseteq 1..n
    BY <2>1, <2>3
  <2> QED BY <2>1, <2>2, <2>4
<1>2. Place(S, i) = Cardinality(I) /\ Place(S, j) = Cardinality(J)
  BY DEF Place
<1> HIDE DEF I, J
<1>3. IsFiniteSet(J) /\ Cardinality(J) \in Nat /\ Cardinality(I) \in Nat
  BY <1>1, Counted
<1>4. Cardinality(I) <= Cardinality(J) /\ (Cardinality(J) = Cardinality(I) => J = I)
  <2>1. I \in SUBSET J
    BY <1>1
  <2> QED BY <1>3, <2>1, FS_Subset
<1>5. J # I
  BY <1>1
<1> QED BY <1>2, <1>3, <1>4, <1>5

\* Every place is one number's, and in order lists them by their places.
LEMMA InOrderIs ==
  ASSUME NEW n \in Nat, NEW S, S \subseteq 1..n
  PROVE  /\ Cardinality(S) \in Nat /\ DOMAIN InOrder(S) = 1..Cardinality(S)
         /\ \A k \in 1..Cardinality(S) : InOrder(S)[k] \in S /\ Place(S, InOrder(S)[k]) = k
         /\ \A i \in S : Place(S, i) \in 1..Cardinality(S) /\ InOrder(S)[Place(S, i)] = i
<1> DEFINE c == Cardinality(S)
           place == [i \in S |-> Place(S, i)]
<1>1. IsFiniteSet(S) /\ c \in Nat
  BY Counted
<1>2. ASSUME NEW i \in S PROVE Place(S, i) \in 1..c
  <2> DEFINE I == {k \in S : k <= i}
  <2>1. I \in SUBSET S /\ I # {}
    <3>1. i <= i
      OBVIOUS
    <3> QED BY <3>1
  <2>2. Place(S, i) = Cardinality(I)
    BY DEF Place
  <2> HIDE DEF I
  <2>3. IsFiniteSet(I) /\ Cardinality(I) <= c
    BY <1>1, <2>1, FS_Subset
  <2>4. Cardinality(I) \in Nat /\ Cardinality(I) # 0
    BY <2>1, <2>3, FS_CardinalityType, FS_EmptySet
  <2> QED BY <1>1, <2>2, <2>3, <2>4
<1>3. ASSUME NEW i \in S, NEW j \in S, Place(S, i) = Place(S, j) PROVE i = j
  <2>1. i \in 1..n /\ j \in 1..n
    OBVIOUS
  <2>2. Place(S, i) \in Int
    BY <1>1, <1>2
  <2>3. ~(i < j)
    <3>1. i < j => Place(S, i) < Place(S, j)
      BY PlaceGrows
    <3> QED BY <1>3, <2>2, <3>1
  <2>4. ~(j < i)
    <3>1. j < i => Place(S, j) < Place(S, i)
      BY PlaceGrows
    <3> QED BY <1>3, <2>2, <3>1
  <2> QED BY <2>1, <2>3, <2>4
<1>4. \A k \in 1..c : \E i \in S : Place(S, i) = k
  <2>1. place \in Injection(S, 1..c)
    <3> DEFINE D == 1..c
    <3>1. \A i \in S : Place(S, i) \in D
      BY <1>2
    <3> HIDE DEF D
    <3>2. place \in [S -> D]
      BY <3>1
    <3>3. \A i, j \in S : place[i] = place[j] => i = j
      BY <1>3
    <3> HIDE DEF place
    <3> QED BY <3>2, <3>3 DEF Injection, IsInjective, D
  <2>2. IsFiniteSet(1..c) /\ Cardinality(1..c) = c
    <3>1. 1 \in Int /\ c \in Int
      BY <1>1
    <3>2. IsFiniteSet(1..c) /\ Cardinality(1..c) = IF 1 > c THEN 0 ELSE c - 1 + 1
      BY <3>1, FS_Interval
    <3> QED BY <1>1, <3>2
  <2>3. place \in Surjection(S, 1..c)
    <3> DEFINE D == 1..c
    <3>1. place \in Injection(S, D) /\ IsFiniteSet(D) /\ Cardinality(S) = Cardinality(D)
      BY <2>1, <2>2
    <3> HIDE DEF D, place, c
    <3>2. place \in Surjection(S, D)
      BY <3>1, FS_Injection
    <3> QED BY <3>2 DEF D
  <2>4. \A k \in 1..c : \E i \in S : place[i] = k
    BY <2>3 DEF Surjection
  <2> QED BY <2>4
<1>5. InOrder(S) = [k \in 1..c |-> CHOOSE i \in S : Place(S, i) = k]
  BY DEF InOrder, Place
<1>6. ASSUME NEW k \in 1..c PROVE InOrder(S)[k] \in S /\ Place(S, InOrder(S)[k]) = k
  BY <1>4, <1>5
<1>7. ASSUME NEW i \in S PROVE InOrder(S)[Place(S, i)] = i
  <2>1. InOrder(S)[Place(S, i)] \in S /\ Place(S, InOrder(S)[Place(S, i)]) = Place(S, i)
    BY <1>2, <1>6
  <2> QED BY <1>3, <2>1
<1> QED BY <1>1, <1>2, <1>5, <1>6, <1>7

LEMMA GreatestIs ==
  ASSUME NEW n \in Nat, NEW S, S \subseteq 1..n, S # {}
  PROVE  Max(S) \in S /\ \A i \in S : Max(S) >= i
<1>1. Cardinality(S) \in Nat /\ DOMAIN InOrder(S) = 1..Cardinality(S)
  BY InOrderIs
<1>2. \A k \in 1..Cardinality(S) : InOrder(S)[k] \in S /\ Place(S, InOrder(S)[k]) = k
  BY InOrderIs
<1>3. \A i \in S : Place(S, i) \in 1..Cardinality(S)
  BY InOrderIs
<1>4. Cardinality(S) \in 1..Cardinality(S)
  <2>1. PICK i \in S : TRUE
    OBVIOUS
  <2>2. Place(S, i) \in 1..Cardinality(S)
    BY <1>3
  <2> QED BY <1>1, <2>2
<1> DEFINE x == InOrder(S)[Cardinality(S)]
<1>5. x \in S /\ Place(S, x) = Cardinality(S)
  BY <1>2, <1>4
<1> HIDE DEF x
<1>6. ASSUME NEW i \in S PROVE x >= i
  <2>1. i \in 1..n /\ x \in 1..n
    BY <1>5
  <2>2. ~(x < i)
    <3>1. x < i => Place(S, x) < Place(S, i)
      BY <1>5, PlaceGrows
    <3>2. Place(S, i) \in 1..Cardinality(S) /\ Place(S, x) = Cardinality(S)
      BY <1>3, <1>5
    <3> QED BY <1>1, <3>1, <3>2
  <2> QED BY <2>1, <2>2
<1> QED BY <1>5, <1>6 DEF Max

LEMMA LeastIs ==
  ASSUME NEW n \in Nat, NEW S, S \subseteq 1..n, S # {}
  PROVE  Min(S) \in S /\ \A i \in S : Min(S) <= i
<1>1. Cardinality(S) \in Nat /\ DOMAIN InOrder(S) = 1..Cardinality(S)
  BY InOrderIs
<1>2. \A k \in 1..Cardinality(S) : InOrder(S)[k] \in S /\ Place(S, InOrder(S)[k]) = k
  BY InOrderIs
<1>3. \A i \in S : Place(S, i) \in 1..Cardinality(S)
  BY InOrderIs
<1>4. 1 \in 1..Cardinality(S)
  <2>1. PICK i \in S : TRUE
    OBVIOUS
  <2>2. Place(S, i) \in 1..Cardinality(S)
    BY <1>3
  <2> QED BY <1>1, <2>2
<1> DEFINE x == InOrder(S)[1]
<1>5. x \in S /\ Place(S, x) = 1
  BY <1>2, <1>4
<1> HIDE DEF x
<1>6. ASSUME NEW i \in S PROVE x <= i
  <2>1. i \in 1..n /\ x \in 1..n
    BY <1>5
  <2>2. ~(i < x)
    <3>1. i < x => Place(S, i) < Place(S, x)
      BY <1>5, PlaceGrows
    <3>2. Place(S, i) \in 1..Cardinality(S) /\ Place(S, x) = 1
      BY <1>3, <1>5
    <3> QED BY <1>1, <3>1, <3>2
  <2> QED BY <2>1, <2>2
<1> QED BY <1>5, <1>6 DEF Min

-----------------------------------------------------------------------------
(* What the model is given of some rows.                                   *)

\* The answers to the questions kept.
AnswersTo(rows, kept) == {i + 1 : i \in {i \in kept : Answered(rows, i)}}
SaidOf(rows, kept)    == kept \cup AnswersTo(rows, kept)

LEMMA RecentIs ==
  ASSUME NEW n \in Nat, NEW rows, DOMAIN rows = 1..n
  PROVE  /\ Asked(rows) \subseteq 1..n /\ Recent(rows) \subseteq Asked(rows)
         /\ \A i \in Recent(rows), j \in Asked(rows) : i <= j => j \in Recent(rows)
         /\ MaxTurns # 0 => Cardinality(Recent(rows)) <= MaxTurns
         /\ \A i \in Asked(rows) \ Recent(rows) :
              MaxTurns # 0 /\ Cardinality({j \in Asked(rows) : j > i}) >= MaxTurns
<1> DEFINE Later(i) == {j \in Asked(rows) : j > i}
<1>1. Asked(rows) \subseteq 1..n /\ Recent(rows) \subseteq Asked(rows)
  BY DEF Asked, Recent
<1>2. ASSUME NEW i \in 1..n
      PROVE  Later(i) \subseteq 1..n /\ IsFiniteSet(Later(i)) /\ Cardinality(Later(i)) \in Nat
  <2>1. Later(i) \subseteq 1..n
    BY <1>1
  <2> HIDE DEF Later
  <2> QED BY <2>1, Counted
<1>3. MaxTurns \in Nat
  BY ChatsAssumption
<1>4. \A i \in Asked(rows) : i \in Recent(rows) <=> (MaxTurns = 0 \/ Cardinality(Later(i)) < MaxTurns)
  BY DEF Recent
<1>5. ASSUME NEW i \in Recent(rows), NEW j \in Asked(rows), i <= j PROVE j \in Recent(rows)
  <2>1. i \in 1..n /\ j \in 1..n /\ i \in Asked(rows)
    BY <1>1
  <2>2. Later(j) \subseteq Later(i)
    <3> SUFFICES ASSUME NEW k \in Later(j) PROVE k \in Later(i)
      OBVIOUS
    <3>1. k \in 1..n /\ k > j /\ k \in Asked(rows)
      BY <1>1
    <3> QED BY <1>5, <2>1, <3>1
  <2>3. Cardinality(Later(j)) <= Cardinality(Later(i)) /\ Cardinality(Later(j)) \in Nat /\ Cardinality(Later(i)) \in Nat
    <3> HIDE DEF Later
    <3>1. IsFiniteSet(Later(i)) /\ Later(j) \in SUBSET Later(i)
      BY <1>2, <2>1, <2>2
    <3>2. Cardinality(Later(j)) <= Cardinality(Later(i))
      BY <3>1, FS_Subset
    <3> QED BY <1>2, <2>1, <3>2
  <2> HIDE DEF Later
  <2> QED BY <1>3, <1>4, <2>1, <2>3
<1>6. ASSUME MaxTurns # 0 PROVE Cardinality(Recent(rows)) <= MaxTurns
  <2> DEFINE R == Recent(rows)
  <2>1. R \subseteq 1..n /\ IsFiniteSet(R) /\ Cardinality(R) \in Nat
    <3>1. R \subseteq 1..n
      BY <1>1
    <3> HIDE DEF R
    <3> QED BY <3>1, Counted
  <2>2. CASE R = {}
    BY <1>3, <2>2, FS_EmptySet
  <2>3. CASE R # {}
    <3> DEFINE m == Min(R)
               Q == R \ {m}
    <3>1. m \in R /\ \A i \in R : m <= i
      <4> HIDE DEF R
      <4> QED BY <2>1, <2>3, LeastIs
    <3> HIDE DEF m
    <3>2. m \in 1..n /\ m \in Asked(rows) /\ Cardinality(Later(m)) < MaxTurns
      BY <1>1, <1>4, <1>6, <3>1
    <3>3. Q \subseteq Later(m)
      <4> SUFFICES ASSUME NEW i \in Q PROVE i \in Later(m)
        OBVIOUS
      <4>1. i \in 1..n /\ i \in Asked(rows) /\ m <= i /\ i # m
        BY <1>1, <3>1
      <4> QED BY <3>2, <4>1
    <3> HIDE DEF Later, R
    <3>4. Cardinality(Q) = Cardinality(R) - 1
      BY <2>1, <3>1, FS_RemoveElement
    <3> HIDE DEF Q
    <3>5. Cardinality(Q) <= Cardinality(Later(m)) /\ Cardinality(Later(m)) \in Nat
      <4>1. Q \in SUBSET Later(m) /\ IsFiniteSet(Later(m))
        BY <1>2, <3>2, <3>3
      <4>2. Cardinality(Q) <= Cardinality(Later(m))
        BY <4>1, FS_Subset
      <4> QED BY <1>2, <3>2, <4>2
    <3>6. Cardinality(R) <= MaxTurns
      BY <1>3, <2>1, <3>2, <3>4, <3>5
    <3> QED BY <3>6 DEF R
  <2> QED BY <2>2, <2>3
<1>7. ASSUME NEW i \in Asked(rows) \ Recent(rows) PROVE MaxTurns # 0 /\ Cardinality(Later(i)) >= MaxTurns
  <2>1. i \in 1..n
    BY <1>1
  <2>2. Cardinality(Later(i)) \in Nat
    BY <1>2, <2>1
  <2> HIDE DEF Later
  <2> QED BY <1>3, <1>4, <2>2
<1> QED BY <1>1, <1>5, <1>6, <1>7

\* At most one answer goes with each question, and what is said is in the order
\* of the rows.
LEMMA RenderIs ==
  ASSUME NEW n \in Nat, NEW rows, DOMAIN rows = 1..n, NEW kept, kept \subseteq Asked(rows)
  PROVE  /\ SaidOf(rows, kept) \subseteq 1..n
         /\ DOMAIN Render(rows, kept) = DOMAIN InOrder(SaidOf(rows, kept))
         /\ Len(Render(rows, kept)) = Cardinality(SaidOf(rows, kept))
         /\ Cardinality(SaidOf(rows, kept)) <= 2 * Cardinality(kept)
         /\ \A k \in DOMAIN InOrder(SaidOf(rows, kept)) :
              LET i == InOrder(SaidOf(rows, kept))[k]
              IN  Render(rows, kept)[k] = [role |-> rows[i].role, turn |-> rows[i].turn,
                                           sample |-> IF i \in kept THEN Sample(rows, kept, i) ELSE Nothing]
<1> DEFINE A == {i \in kept : Answered(rows, i)}
           B == AnswersTo(rows, kept)
           said == SaidOf(rows, kept)
           o == InOrder(said)
<1>1. kept \subseteq 1..n /\ A \subseteq kept /\ A \subseteq 1..n /\ B \subseteq 1..n
  <2>1. kept \subseteq 1..n
    BY DEF Asked
  <2>2. B \subseteq 1..n
    BY DEF AnswersTo, Answered
  <2> QED BY <2>1, <2>2
<1>2. said = kept \cup B /\ said \subseteq 1..n
  BY <1>1 DEF SaidOf
<1>3. Cardinality(B) <= Cardinality(kept)
  <2> DEFINE f == [i \in A |-> i + 1]
  <2>1. B = {i + 1 : i \in A}
    BY DEF AnswersTo
  <2>2. f \in Surjection(A, B)
    <3>1. f \in [A -> B] /\ \A b \in B : \E i \in A : f[i] = b
      BY <2>1
    <3> HIDE DEF f, A, B
    <3> QED BY <3>1 DEF Surjection
  <2> HIDE DEF f, A, B
  <2>3. IsFiniteSet(A) /\ IsFiniteSet(kept) /\ Cardinality(A) \in Nat /\ Cardinality(B) \in Nat /\ Cardinality(kept) \in Nat
    BY <1>1, Counted
  <2>4. Cardinality(B) <= Cardinality(A)
    BY <2>2, <2>3, FS_Surjection
  <2>5. Cardinality(A) <= Cardinality(kept)
    <3>1. A \in SUBSET kept
      BY <1>1
    <3> QED BY <2>3, <3>1, FS_Subset
  <2> QED BY <2>3, <2>4, <2>5
<1>4. Cardinality(said) <= 2 * Cardinality(kept)
  <2> HIDE DEF B, said
  <2>1. IsFiniteSet(B) /\ IsFiniteSet(kept) /\ Cardinality(B) \in Nat /\ Cardinality(kept) \in Nat
    BY <1>1, Counted
  <2>2. Cardinality(said) = Cardinality(kept) + Cardinality(B) - Cardinality(kept \cap B)
    BY <1>2, <2>1, FS_Union
  <2>3. Cardinality(kept \cap B) \in Nat
    <3>1. kept \cap B \subseteq 1..n
      BY <1>1
    <3> QED BY <3>1, Counted
  <2> QED BY <1>3, <2>1, <2>2, <2>3
<1>5. DOMAIN o = 1..Cardinality(said) /\ Cardinality(said) \in Nat
  <2> HIDE DEF said
  <2> QED BY <1>2, InOrderIs
<1>6. Render(rows, kept) = [k \in DOMAIN o |-> [role |-> rows[o[k]].role, turn |-> rows[o[k]].turn,
                                                sample |-> IF o[k] \in kept THEN Sample(rows, kept, o[k]) ELSE Nothing]]
  BY DEF Render, SaidOf, AnswersTo
<1> HIDE DEF said, o
<1>7. Len(Render(rows, kept)) = Cardinality(said) /\ DOMAIN Render(rows, kept) = DOMAIN o
  BY <1>5, <1>6
<1>8. \A k \in DOMAIN o : Render(rows, kept)[k] = [role |-> rows[o[k]].role, turn |-> rows[o[k]].turn,
                                                   sample |-> IF o[k] \in kept THEN Sample(rows, kept, o[k]) ELSE Nothing]
  BY <1>6
<1> QED BY <1>2, <1>4, <1>7, <1>8 DEF said, o

\* The questions kept are the latest ones, from some place on, and fit; from any
\* earlier place on they would not.
LEMMA HistoryIs ==
  ASSUME NEW n \in Nat, NEW rows, DOMAIN rows = 1..n, Len(rows) = n
  PROVE  \E f \in Recent(rows) \cup {n + 1} :
           /\ History(rows) = Render(rows, {i \in Asked(rows) : i >= f})
           /\ {i \in Asked(rows) : i >= f} \subseteq Recent(rows)
           /\ Size(History(rows)) <= MaxChars
           /\ \A m \in Recent(rows) : m < f => ~(Size(Render(rows, {i \in Asked(rows) : i >= m})) <= MaxChars)
<1> DEFINE kept(f) == {i \in Recent(rows) : i >= f}
           fits == {f \in Recent(rows) \cup {n + 1} : Size(Render(rows, kept(f))) <= MaxChars}
           f == Min(fits)
<1>1. Asked(rows) \subseteq 1..n /\ Recent(rows) \subseteq Asked(rows)
  BY RecentIs
<1>2. \A i \in Recent(rows), j \in Asked(rows) : i <= j => j \in Recent(rows)
  BY RecentIs
<1>3. History(rows) = Render(rows, kept(f))
  BY DEF History
<1>4. n + 1 \in fits
  <2>1. kept(n + 1) = {}
    BY <1>1
  <2>2. {} \subseteq Asked(rows) /\ SaidOf(rows, {}) = {}
    BY DEF SaidOf, AnswersTo
  <2>3. Cardinality({}) = 0
    BY FS_EmptySet
  <2>4. DOMAIN InOrder({}) = {}
    <3>1. DOMAIN InOrder({}) = 1..0
      BY <2>3 DEF InOrder
    <3> QED BY <3>1
  <2>5. Len(Render(rows, {})) = 0 /\ DOMAIN Render(rows, {}) = {}
    BY <2>2, <2>3, <2>4, RenderIs
  <2>6. Size(Render(rows, {})) = 0
    <3> DEFINE h == Render(rows, {})
    <3>1. {i \in DOMAIN h : h[i].sample # Nothing} = {}
      BY <2>5
    <3> HIDE DEF h
    <3>2. Size(h) = Len(h) + 0
      BY <2>3, <3>1 DEF Size
    <3> QED BY <2>5, <3>2 DEF h
  <2>7. MaxChars \in Nat
    BY ChatsAssumption
  <2>8. Size(Render(rows, kept(n + 1))) = 0
    BY <2>1, <2>6, Zenon
  <2> HIDE DEF kept
  <2> QED BY <2>7, <2>8
<1>5. fits \subseteq 1..(n + 1) /\ n + 1 \in Nat /\ fits \subseteq Recent(rows) \cup {n + 1}
  BY <1>1
<1>6. f \in fits /\ \A m \in fits : f <= m
  <2> HIDE DEF fits
  <2> QED BY <1>4, <1>5, LeastIs
<1>7. f \in Recent(rows) \cup {n + 1} /\ Size(Render(rows, kept(f))) <= MaxChars
  BY <1>6
<1>11. ASSUME NEW m \in Recent(rows), m < f PROVE ~(Size(Render(rows, kept(m))) <= MaxChars)
  <2>1. m \in 1..n /\ f \in 1..(n + 1)
    BY <1>1, <1>7
  <2> HIDE DEF f
  <2>2. ~(f <= m)
    BY <1>11, <2>1
  <2>3. m \notin fits
    BY <1>6, <2>2
  <2> HIDE DEF kept
  <2> QED BY <2>3
<1> HIDE DEF f
<1>8. kept(f) = {i \in Asked(rows) : i >= f}
  <2>1. ASSUME NEW i \in Asked(rows), i >= f PROVE i \in Recent(rows)
    <3>1. i \in 1..n
      BY <1>1
    <3>2. f # n + 1
      BY <2>1, <3>1
    <3>3. f \in Recent(rows) /\ f \in 1..n
      BY <1>1, <1>7, <3>2
    <3>4. f <= i
      BY <2>1, <3>1, <3>3
    <3> QED BY <1>2, <3>3, <3>4
  <2> QED BY <1>1, <2>1
<1>9. Size(History(rows)) <= MaxChars
  BY <1>3, <1>7
<1>10. ASSUME NEW m \in Recent(rows) PROVE kept(m) = {i \in Asked(rows) : i >= m}
  <2>1. ASSUME NEW i \in Asked(rows), i >= m PROVE i \in Recent(rows)
    <3>1. i \in 1..n /\ m \in 1..n /\ m <= i
      BY <1>1, <2>1
    <3> QED BY <1>2, <3>1
  <2> QED BY <1>1, <2>1
<1>12. ASSUME NEW m \in Recent(rows), m < f PROVE ~(Size(Render(rows, {i \in Asked(rows) : i >= m})) <= MaxChars)
  <2>1. ~(Size(Render(rows, kept(m))) <= MaxChars)
    BY <1>11, <1>12
  <2>2. kept(m) = {i \in Asked(rows) : i >= m}
    BY <1>10
  <2> HIDE DEF kept
  <2> QED BY <2>1, <2>2
<1>13. {i \in Asked(rows) : i >= f} \subseteq Recent(rows)
  BY <1>8
<1>14. History(rows) = Render(rows, {i \in Asked(rows) : i >= f})
  <2> HIDE DEF kept
  <2> QED BY <1>3, <1>8
<1> HIDE DEF kept, fits
<1> QED BY <1>7, <1>9, <1>12, <1>13, <1>14

\* Rows of whole turns: each turn's question before its answer, and nothing else of it.
TurnsPaired(rows) ==
  /\ rows \in Seq({rows[i] : i \in DOMAIN rows})
  /\ \A i \in DOMAIN rows : \E a, b \in DOMAIN rows :
       /\ a < b /\ rows[a].role = "user" /\ rows[b].role = "assistant"
       /\ {k \in DOMAIN rows : rows[k].turn = rows[i].turn} = {a, b}

\* A chat without a sample gives none to its questions.
LEMMA NoneSampled ==
  ASSUME NEW n \in Nat, NEW rows, DOMAIN rows = 1..n, Latest(rows) = Nothing,
         NEW kept, kept \subseteq Asked(rows), NEW i
  PROVE  Sample(rows, kept, i) = Nothing
<1> DEFINE sampled == {k \in DOMAIN rows : rows[k].role = "assistant" /\ rows[k].run.sample # Nothing}
           before == Before(kept, i)
           m == Max(before)
<1>1. sampled = {}
  <2> SUFFICES ASSUME sampled # {} PROVE FALSE
    OBVIOUS
  <2>1. sampled \subseteq 1..n
    OBVIOUS
  <2>2. Latest(rows) = rows[Max(sampled)].run.sample
    BY DEF Latest
  <2>3. Max(sampled) \in sampled
    <3> HIDE DEF sampled
    <3> QED BY <2>1, GreatestIs
  <2> QED BY <2>2, <2>3
<1>2. ASSUME Answered(rows, m) PROVE rows[m + 1].run.sample = Nothing
  BY <1>1, <1>2 DEF Answered
<1> HIDE DEF m
<1> QED BY <1>2 DEF Sample, m

\* The question and the answer of a row's turn, and nothing else of it.
Pair(rows, i, a, b) ==
  /\ a < b /\ rows[a].role = "user" /\ rows[b].role = "assistant" /\ i \in {a, b}
  /\ rows[a].turn = rows[i].turn /\ rows[b].turn = rows[i].turn
  /\ \A k \in DOMAIN rows : rows[k].turn = rows[i].turn => k \in {a, b}

LEMMA Paired ==
  ASSUME NEW n \in Nat, NEW rows, DOMAIN rows = 1..n, TurnsPaired(rows), NEW i \in 1..n
  PROVE  \E a, b \in 1..n : Pair(rows, i, a, b)
<1>1. PICK a, b \in 1..n :
        /\ a < b /\ rows[a].role = "user" /\ rows[b].role = "assistant"
        /\ {k \in 1..n : rows[k].turn = rows[i].turn} = {a, b}
  <2> DEFINE D == DOMAIN rows
  <2>1. D = 1..n /\ i \in D
    OBVIOUS
  <2>2. \E a, b \in D :
          /\ a < b /\ rows[a].role = "user" /\ rows[b].role = "assistant"
          /\ {k \in D : rows[k].turn = rows[i].turn} = {a, b}
    BY <2>1, Zenon DEF TurnsPaired
  <2> HIDE DEF D
  <2> QED BY <2>1, <2>2
<1>2. i \in {a, b} /\ rows[a].turn = rows[i].turn /\ rows[b].turn = rows[i].turn
  <2>1. i \in {k \in 1..n : rows[k].turn = rows[i].turn}
    OBVIOUS
  <2>2. a \in {k \in 1..n : rows[k].turn = rows[i].turn} /\ b \in {k \in 1..n : rows[k].turn = rows[i].turn}
    BY <1>1
  <2> QED BY <1>1, <2>1, <2>2
<1>3. ASSUME NEW k \in 1..n, rows[k].turn = rows[i].turn PROVE k \in {a, b}
  BY <1>1, <1>3
<1>4. Pair(rows, i, a, b)
  BY <1>1, <1>2, <1>3 DEF Pair
<1> QED BY <1>4

\* A turn has one question and one answer.
LEMMA OneRow ==
  ASSUME NEW n \in Nat, NEW rows, DOMAIN rows = 1..n, TurnsPaired(rows), NEW i \in 1..n, NEW j \in 1..n,
         rows[i].role = rows[j].role, rows[i].turn = rows[j].turn
  PROVE  i = j
<1>1. PICK a, b \in 1..n : Pair(rows, i, a, b)
  BY Paired
<1>2. i \in {a, b} /\ j \in {a, b} /\ rows[a].role = "user" /\ rows[b].role = "assistant"
  BY <1>1 DEF Pair
<1> QED BY <1>2

\* The messages of a history, by the places in the chat they are of.
Heard(rows, kept, h, o) ==
  /\ kept \subseteq Asked(rows)
  /\ \E c \in Nat : DOMAIN o = 1..c
  /\ DOMAIN h = DOMAIN o
  /\ \A k \in DOMAIN o : /\ o[k] \in SaidOf(rows, kept)
                         /\ h[k].role = rows[o[k]].role /\ h[k].turn = rows[o[k]].turn
                         /\ h[k].sample = IF o[k] \in kept THEN Sample(rows, kept, o[k]) ELSE Nothing
  /\ \A i \in SaidOf(rows, kept) : \E k \in DOMAIN o : o[k] = i
  /\ \A j, k \in DOMAIN o : j < k <=> o[j] < o[k]

LEMMA HeardIs ==
  ASSUME NEW n \in Nat, NEW rows, DOMAIN rows = 1..n, NEW kept, kept \subseteq Asked(rows)
  PROVE  Heard(rows, kept, Render(rows, kept), InOrder(SaidOf(rows, kept)))
<1> DEFINE h == Render(rows, kept)
           said == SaidOf(rows, kept)
           o == InOrder(said)
           c == Cardinality(said)
<1>1. /\ said \subseteq 1..n /\ DOMAIN h = DOMAIN o
      /\ \A k \in DOMAIN o :
           LET i == o[k]
           IN  h[k] = [role |-> rows[i].role, turn |-> rows[i].turn,
                       sample |-> IF i \in kept THEN Sample(rows, kept, i) ELSE Nothing]
  BY RenderIs
<1> HIDE DEF said, h
<1>2. /\ c \in Nat /\ DOMAIN o = 1..c
      /\ \A k \in 1..c : o[k] \in said /\ Place(said, o[k]) = k
      /\ \A i \in said : Place(said, i) \in 1..c /\ o[Place(said, i)] = i
  BY <1>1, InOrderIs
<1> HIDE DEF o, c
<1>3. ASSUME NEW k \in DOMAIN o
      PROVE  /\ o[k] \in said /\ h[k].role = rows[o[k]].role /\ h[k].turn = rows[o[k]].turn
             /\ h[k].sample = IF o[k] \in kept THEN Sample(rows, kept, o[k]) ELSE Nothing
  BY <1>1, <1>2
<1>4. ASSUME NEW j \in DOMAIN o, NEW k \in DOMAIN o PROVE j < k <=> o[j] < o[k]
  <2>1. /\ j \in 1..c /\ k \in 1..c /\ o[j] \in said /\ o[k] \in said
        /\ Place(said, o[j]) = j /\ Place(said, o[k]) = k
    BY <1>2
  <2>2. o[j] \in 1..n /\ o[k] \in 1..n
    BY <1>1, <2>1
  <2>3. o[j] < o[k] => j < k
    BY <1>1, <2>1, PlaceGrows
  <2>4. o[k] < o[j] => k < j
    BY <1>1, <2>1, PlaceGrows
  <2>5. o[j] = o[k] => j = k
    BY <2>1
  <2> QED BY <1>2, <2>1, <2>2, <2>3, <2>4, <2>5
<1>5. \A i \in said : \E k \in DOMAIN o : o[k] = i
  BY <1>2
<1> QED BY <1>1, <1>2, <1>3, <1>4, <1>5 DEF Heard, said, h, o

\* What is said is a question kept or the answer right after one.
LEMMA SaidIs ==
  ASSUME NEW n \in Nat, NEW rows, DOMAIN rows = 1..n, NEW kept, kept \subseteq Asked(rows),
         NEW i \in SaidOf(rows, kept)
  PROVE  /\ i \in 1..n
         /\ i \in kept <=> rows[i].role = "user"
         /\ i \notin kept <=> rows[i].role = "assistant"
         /\ rows[i].role = "assistant" => \E q \in kept : q \in 1..n /\ i = q + 1 /\ Answered(rows, q)
<1>1. CASE i \in kept
  <2>1. i \in 1..n /\ rows[i].role = "user"
    BY <1>1 DEF Asked
  <2> QED BY <1>1, <2>1
<1>2. CASE i \notin kept
  <2>1. PICK q \in kept : i = q + 1 /\ Answered(rows, q)
    BY <1>2 DEF SaidOf, AnswersTo
  <2>2. i \in 1..n /\ rows[i].role = "assistant" /\ q \in 1..n
    BY <2>1 DEF Answered, Asked
  <2> QED BY <1>2, <2>1, <2>2
<1> QED BY <1>1, <1>2

\* A message tells the one row it is of.
LEMMA TellsOne ==
  ASSUME NEW n \in Nat, NEW rows, DOMAIN rows = 1..n, TurnsPaired(rows), NEW kept, NEW h, NEW o,
         Heard(rows, kept, h, o), NEW k \in DOMAIN h, NEW i \in 1..n
  PROVE  Tells(h[k], rows[i]) <=> i = o[k]
<1>1. o[k] \in SaidOf(rows, kept) /\ h[k].role = rows[o[k]].role /\ h[k].turn = rows[o[k]].turn /\ kept \subseteq Asked(rows)
  BY DEF Heard
<1>2. o[k] \in 1..n
  BY <1>1, SaidIs
<1>3. ASSUME Tells(h[k], rows[i]) PROVE i = o[k]
  BY <1>1, <1>2, <1>3, OneRow DEF Tells
<1> QED BY <1>1, <1>3 DEF Tells

\* The answer kept with a question is told right after it.
LEMMA AnswerFollows ==
  ASSUME NEW n \in Nat, NEW rows, DOMAIN rows = 1..n, NEW kept, NEW h, NEW o, Heard(rows, kept, h, o),
         NEW q \in kept, Answered(rows, q)
  PROVE  \E k \in DOMAIN h : k + 1 \in DOMAIN h /\ o[k] = q /\ o[k + 1] = q + 1
<1>1. kept \subseteq Asked(rows) /\ DOMAIN h = DOMAIN o /\ q \in SaidOf(rows, kept) /\ q + 1 \in SaidOf(rows, kept)
  BY DEF Heard, SaidOf, AnswersTo
<1>2. PICK k \in DOMAIN o, m \in DOMAIN o : o[k] = q /\ o[m] = q + 1
  BY <1>1 DEF Heard
<1>3. PICK c \in Nat : DOMAIN o = 1..c
  BY DEF Heard
<1>4. q \in 1..n
  BY <1>1, SaidIs
<1>5. k < m
  BY <1>2, <1>4 DEF Heard
<1>6. k + 1 \in DOMAIN o
  BY <1>3, <1>5
<1>7. m = k + 1
  <2> DEFINE x == k + 1
  <2>1. x \in DOMAIN o /\ k < x /\ x \in Int /\ m \in Int
    BY <1>3, <1>6
  <2>2. o[x] \in 1..n
    BY <1>1, <2>1, SaidIs DEF Heard
  <2> HIDE DEF x
  <2>3. o[k] < o[x]
    BY <2>1 DEF Heard
  <2>4. ~(x < m)
    <3>1. x < m => o[x] < o[m]
      BY <2>1 DEF Heard
    <3> QED BY <1>2, <1>4, <2>2, <2>3, <3>1
  <2>5. m >= x
    BY <1>3, <1>5 DEF x
  <2>6. m = x
    BY <2>1, <2>4, <2>5
  <2> QED BY <2>6 DEF x
<1> QED BY <1>1, <1>2, <1>6, <1>7

\* What is told and what is left of the questions of a history from f on.
LEMMA LatestAre ==
  ASSUME NEW n \in Nat, NEW rows, DOMAIN rows = 1..n, TurnsPaired(rows), NEW h, NEW o,
         NEW f \in Recent(rows) \cup {n + 1},
         Heard(rows, {i \in Asked(rows) : i >= f}, h, o),
         {i \in Asked(rows) : i >= f} \subseteq Recent(rows),
         Size(h) <= MaxChars,
         \A m \in Recent(rows) : m < f => ~(Size(Render(rows, {i \in Asked(rows) : i >= m})) <= MaxChars)
  PROVE  LatestAreTold(rows, h)
<1> DEFINE kept == {i \in Asked(rows) : i >= f}
           told == {i \in Asked(rows) : Told(h, rows[i])}
           left == Asked(rows) \ told
<1>1. Asked(rows) \subseteq 1..n /\ Recent(rows) \subseteq Asked(rows) /\ f \in 1..(n + 1)
  BY RecentIs
<1>2. ASSUME NEW i \in Asked(rows) PROVE Told(h, rows[i]) <=> i \in kept
  <2> HIDE DEF kept
  <2>1. i \in 1..n /\ rows[i].role = "user"
    BY <1>1 DEF Asked
  <2>2. Heard(rows, kept, h, o) /\ kept \subseteq Asked(rows)
    BY DEF kept
  <2>3. ASSUME NEW k \in DOMAIN h, Tells(h[k], rows[i]) PROVE i \in kept
    <3>1. i = o[k]
      BY <2>1, <2>2, <2>3, TellsOne
    <3>2. i \in SaidOf(rows, kept)
      BY <2>2, <3>1 DEF Heard
    <3> QED BY <2>1, <2>2, <3>2, SaidIs
  <2>4. ASSUME i \in kept PROVE \E k \in DOMAIN h : Tells(h[k], rows[i])
    <3>1. PICK k \in DOMAIN h : o[k] = i
      BY <2>2, <2>4 DEF Heard, SaidOf
    <3> QED BY <2>1, <2>2, <3>1, TellsOne
  <2> QED BY <2>3, <2>4 DEF Told
<1>3. told = kept
  <2> HIDE DEF kept
  <2>1. kept \subseteq Asked(rows)
    BY DEF kept
  <2> QED BY <1>2, <2>1
<1>4. left = {i \in Asked(rows) : ~(i >= f)}
  <2> HIDE DEF told
  <2> QED BY <1>3
<1>5. MaxTurns # 0 => Cardinality(told) <= MaxTurns
  <2> DEFINE R == Recent(rows)
  <2>1. R \subseteq 1..n /\ kept \in SUBSET R
    BY <1>1
  <2> HIDE DEF R, kept, told
  <2>2. IsFiniteSet(R) /\ Cardinality(R) \in Nat /\ Cardinality(kept) \in Nat
    <3>1. kept \subseteq 1..n
      BY <2>1
    <3> QED BY <2>1, <3>1, Counted
  <2>3. Cardinality(kept) <= Cardinality(R)
    BY <2>1, <2>2, FS_Subset
  <2>4. MaxTurns # 0 => Cardinality(R) <= MaxTurns
    BY RecentIs DEF R
  <2>5. MaxTurns \in Nat
    BY ChatsAssumption
  <2> QED BY <1>3, <2>2, <2>3, <2>4, <2>5
<1>6. ASSUME NEW i \in told, NEW j \in left PROVE i > j
  <2>1. i \in 1..n /\ i >= f /\ j \in 1..n /\ ~(j >= f)
    <3>1. i \in kept
      <4> HIDE DEF kept, told
      <4> QED BY <1>3
    <3>2. j \in {x \in Asked(rows) : ~(x >= f)}
      <4> HIDE DEF left
      <4> QED BY <1>4
    <3> QED BY <1>1, <3>1, <3>2
  <2> QED BY <1>1, <2>1
<1>7. ASSUME left # {}, ~(MaxTurns # 0 /\ Cardinality(told) = MaxTurns)
      PROVE  ~(Size(Render(rows, {Max(left)} \cup told)) <= MaxChars)
  <2> DEFINE m == Max(left)
  <2>1. left \subseteq 1..n
    BY <1>1
  <2>2. m \in left /\ \A i \in left : m >= i
    <3> HIDE DEF left
    <3> QED BY <1>7, <2>1, GreatestIs
  <2>3. m \in Asked(rows) /\ m \in 1..n /\ m < f
    <3>1. m \in {i \in Asked(rows) : ~(i >= f)}
      <4> HIDE DEF left, m
      <4> QED BY <1>4, <2>2
    <3> HIDE DEF m, left
    <3> QED BY <1>1, <3>1
  <2> HIDE DEF m
  <2>4. ASSUME NEW i \in Asked(rows) PROVE i >= m <=> i = m \/ i \in kept
    <3>1. i \in 1..n
      BY <1>1
    <3>2. i \in left \/ i >= f
      <4> HIDE DEF left
      <4> QED BY <1>4
    <3>3. i \in left => m >= i
      BY <2>2
    <3> HIDE DEF left
    <3> QED BY <1>1, <2>3, <3>1, <3>2, <3>3
  <2>5. CASE m \in Recent(rows)
    <3>1. {i \in Asked(rows) : i >= m} = {m} \cup kept
      <4>1. kept \subseteq Asked(rows)
        OBVIOUS
      <4> HIDE DEF kept
      <4> QED BY <2>3, <2>4, <4>1
    <3>2. ~(Size(Render(rows, {i \in Asked(rows) : i >= m})) <= MaxChars)
      BY <2>3, <2>5
    <3> HIDE DEF kept, told, left
    <3> QED BY <1>3, <3>1, <3>2 DEF m
  <2>6. CASE m \notin Recent(rows)
    <3>1. MaxTurns # 0 /\ Cardinality({j \in Asked(rows) : j > m}) >= MaxTurns
      BY <2>3, <2>6, RecentIs
    <3>2. {j \in Asked(rows) : j > m} = kept
      <4>1. ASSUME NEW j \in Asked(rows) PROVE j > m <=> j \in kept
        <5>1. j \in 1..n
          BY <1>1
        <5>2. m \notin kept
          BY <1>1, <2>3
        <5>3. j >= m <=> j = m \/ j \in kept
          BY <2>4
        <5> HIDE DEF kept
        <5> QED BY <2>3, <5>1, <5>2, <5>3
      <4>2. kept \subseteq Asked(rows)
        OBVIOUS
      <4> HIDE DEF kept
      <4> QED BY <4>1, <4>2
    <3>3. Cardinality(kept) \in Nat
      <4>1. kept \subseteq 1..n
        BY <1>1
      <4> HIDE DEF kept
      <4> QED BY <4>1, Counted
    <3> HIDE DEF kept, told, left
    <3>4. MaxTurns \in Nat
      BY ChatsAssumption
    <3>5. Cardinality(kept) >= MaxTurns
      BY <3>1, <3>2
    <3>6. Cardinality(told) = Cardinality(kept)
      BY <1>3
    <3> HIDE DEF m
    <3> QED BY <1>5, <1>7, <3>1, <3>3, <3>4, <3>5, <3>6
  <2> QED BY <2>5, <2>6
<1> HIDE DEF left, told
<1> QED BY <1>5, <1>6, <1>7 DEF LatestAreTold, left, told

\* A question whose own answer does not follow it was asked with another.
LEMMA TurnsAre ==
  ASSUME NEW n \in Nat, NEW rows, DOMAIN rows = 1..n, TurnsPaired(rows), NEW kept, NEW h, NEW o,
         Heard(rows, kept, h, o)
  PROVE  TurnsAreTold(rows, h)
<1>1. kept \subseteq Asked(rows) /\ DOMAIN h = DOMAIN o
  BY DEF Heard
<1>2. ASSUME NEW k \in DOMAIN h
      PROVE  /\ o[k] \in 1..n /\ o[k] \in SaidOf(rows, kept)
             /\ h[k].role = rows[o[k]].role /\ h[k].turn = rows[o[k]].turn /\ Tells(h[k], rows[o[k]])
  <2>1. o[k] \in SaidOf(rows, kept) /\ h[k].role = rows[o[k]].role /\ h[k].turn = rows[o[k]].turn
    BY DEF Heard
  <2>2. o[k] \in 1..n
    BY <1>1, <2>1, SaidIs
  <2> QED BY <2>1, <2>2 DEF Tells
<1>3. ASSUME NEW j \in DOMAIN h, NEW k \in DOMAIN h, NEW a \in DOMAIN rows, NEW b \in DOMAIN rows,
             j < k, Tells(h[j], rows[a]), Tells(h[k], rows[b])
      PROVE  a < b
  <2>1. a = o[j] /\ b = o[k]
    BY <1>3, TellsOne
  <2> QED BY <1>1, <1>3, <2>1 DEF Heard
<1>4. ASSUME NEW k \in DOMAIN h, h[k].role = "user"
      PROVE  \/ k + 1 \in DOMAIN h /\ h[k + 1].role = "assistant" /\ h[k + 1].turn = h[k].turn
             \/ \E i \in DOMAIN rows : AtOnce(rows, h[k].turn, rows[i].turn)
  <2> DEFINE i == o[k]
  <2>1. i \in 1..n /\ i \in SaidOf(rows, kept) /\ rows[i].role = "user" /\ h[k].turn = rows[i].turn
    BY <1>2, <1>4
  <2>2. i \in kept
    BY <1>1, <2>1, SaidIs
  <2> HIDE DEF i
  <2>7. PICK a, b \in 1..n : Pair(rows, i, a, b)
    BY <2>1, Paired
  <2>3. /\ a < b /\ rows[a].role = "user" /\ rows[b].role = "assistant" /\ i \in {a, b}
        /\ rows[a].turn = rows[i].turn /\ rows[b].turn = rows[i].turn
        /\ \A x \in 1..n : rows[x].turn = rows[i].turn => x \in {a, b}
    BY <2>7 DEF Pair
  <2>4. i = a
    BY <2>1, <2>3
  <2>5. CASE b = i + 1
    <3>1. Answered(rows, i)
      BY <2>3, <2>5 DEF Answered
    <3>2. PICK m \in DOMAIN h : m + 1 \in DOMAIN h /\ o[m] = i /\ o[m + 1] = i + 1
      BY <2>2, <3>1, AnswerFollows
    <3>3. m = k
      <4>1. Tells(h[m], rows[i]) /\ Tells(h[k], rows[i])
        BY <1>2, <3>2 DEF i
      <4>2. ~(m < k) /\ ~(k < m)
        BY <1>1, <2>1, <3>2 DEF Heard, i
      <4>3. m \in Int /\ k \in Int
        BY <1>1 DEF Heard
      <4> QED BY <4>2, <4>3
    <3>4. h[k + 1].role = rows[i + 1].role /\ h[k + 1].turn = rows[i + 1].turn
      BY <1>2, <3>2, <3>3
    <3> QED BY <2>1, <2>3, <2>5, <3>2, <3>3, <3>4
  <2>6. CASE b # i + 1
    <3> DEFINE c == i + 1
    <3>1. c \in 1..n /\ i < c /\ c < b /\ c \notin {a, b}
      BY <2>3, <2>4, <2>6
    <3> HIDE DEF c
    <3>2. rows[c].turn # rows[i].turn
      BY <2>3, <3>1
    <3>3. AtOnce(rows, rows[i].turn, rows[c].turn)
      BY <2>1, <2>3, <3>1, <3>2 DEF AtOnce
    <3> QED BY <2>1, <3>1, <3>3
  <2> QED BY <2>5, <2>6
<1>5. ASSUME NEW k \in DOMAIN h, h[k].role = "assistant"
      PROVE  k - 1 \in DOMAIN h /\ h[k - 1].role = "user" /\ SameTurn(rows, h[k - 1].turn, h[k].turn)
  <2> DEFINE i == o[k]
  <2>1. i \in 1..n /\ i \in SaidOf(rows, kept) /\ rows[i].role = "assistant" /\ h[k].turn = rows[i].turn
    BY <1>2, <1>5
  <2>2. PICK q \in kept : q \in 1..n /\ i = q + 1 /\ Answered(rows, q)
    BY <1>1, <2>1, SaidIs
  <2>3. PICK m \in DOMAIN h : m + 1 \in DOMAIN h /\ o[m] = q /\ o[m + 1] = q + 1
    BY <2>2, AnswerFollows
  <2>4. m = k - 1
    <3> DEFINE x == m + 1
    <3>1. x \in DOMAIN h /\ o[x] = o[k] /\ o[k] \in 1..n
      BY <1>2, <2>2, <2>3
    <3>2. m \in Int /\ k \in Int /\ x = m + 1 /\ x \in Int
      BY <1>1 DEF Heard
    <3> HIDE DEF x
    <3>3. ~(x < k) /\ ~(k < x)
      BY <1>1, <3>1 DEF Heard
    <3>4. x = k
      BY <3>2, <3>3
    <3> QED BY <3>2, <3>4
  <2> HIDE DEF i
  <2>5. h[m].role = rows[q].role /\ h[m].turn = rows[q].turn /\ rows[q].role = "user"
    BY <1>1, <1>2, <2>3 DEF Asked
  <2>6. ASSUME rows[q].turn # rows[i].turn PROVE AtOnce(rows, rows[q].turn, rows[i].turn)
    <3>3. PICK a, b \in 1..n : Pair(rows, i, a, b)
      BY <2>1, Paired
    <3>1. /\ a < b /\ rows[a].role = "user" /\ rows[b].role = "assistant" /\ i \in {a, b}
          /\ rows[a].turn = rows[i].turn /\ rows[b].turn = rows[i].turn
      BY <3>3 DEF Pair
    <3>2. i = b /\ a # q /\ a < q /\ q < i
      <4>1. i = b /\ a # q
        BY <2>1, <2>6, <3>1
      <4> QED BY <2>2, <3>1, <4>1
    <3> QED BY <2>1, <2>2, <2>6, <3>1, <3>2 DEF AtOnce
  <2> QED BY <2>1, <2>3, <2>4, <2>5, <2>6 DEF SameTurn
<1>6. \A k \in DOMAIN h : \E i \in DOMAIN rows : Tells(h[k], rows[i])
  BY <1>2
<1> QED BY <1>3, <1>4, <1>5, <1>6 DEF TurnsAreTold

\* The question before one, of those kept, is the one whose answer was told last.
LEMMA SamplesAre ==
  ASSUME NEW n \in Nat, NEW rows, DOMAIN rows = 1..n, TurnsPaired(rows), NEW kept, NEW h, NEW o,
         Heard(rows, kept, h, o)
  PROVE  SamplesAreTold(rows, h)
<1>1. kept \subseteq Asked(rows) /\ DOMAIN h = DOMAIN o /\ Asked(rows) \subseteq 1..n
  BY DEF Heard, Asked
<1>2. ASSUME NEW k \in DOMAIN h
      PROVE  /\ o[k] \in 1..n /\ o[k] \in SaidOf(rows, kept) /\ k \in Int
             /\ h[k].role = rows[o[k]].role /\ h[k].turn = rows[o[k]].turn
             /\ o[k] \in kept <=> h[k].role = "user"
             /\ o[k] \notin kept <=> h[k].role = "assistant"
             /\ h[k].sample = IF o[k] \in kept THEN Sample(rows, kept, o[k]) ELSE Nothing
  <2>1. /\ o[k] \in SaidOf(rows, kept) /\ h[k].role = rows[o[k]].role /\ h[k].turn = rows[o[k]].turn
        /\ h[k].sample = IF o[k] \in kept THEN Sample(rows, kept, o[k]) ELSE Nothing
        /\ k \in Int
    BY DEF Heard
  <2>2. /\ o[k] \in 1..n
        /\ o[k] \in kept <=> rows[o[k]].role = "user"
        /\ o[k] \notin kept <=> rows[o[k]].role = "assistant"
    BY <1>1, <2>1, SaidIs
  <2> QED BY <2>1, <2>2
<1>3. \A j, k \in DOMAIN h : j < k <=> o[j] < o[k]
  BY <1>1 DEF Heard
<1>4. ASSUME NEW k \in DOMAIN h, h[k].role = "user", k - 1 \in DOMAIN h, h[k - 1].role = "assistant",
             NEW x \in DOMAIN rows, Tells(h[k - 1], rows[x])
      PROVE  h[k].sample = rows[x].run.sample
  <2> DEFINE m == k - 1
             i == o[k]
             p == o[m]
             before == Before(kept, i)
  <2>1. m \in DOMAIN h /\ m \in Int /\ k \in Int /\ m < k /\ k = m + 1
    BY <1>2, <1>4
  <2>2. x = p
    BY <1>4, TellsOne
  <2> HIDE DEF m
  <2>3. i \in 1..n /\ i \in kept /\ p \in 1..n /\ rows[p].role = "assistant" /\ p \in SaidOf(rows, kept) /\ p < i
    BY <1>2, <1>3, <1>4, <2>1 DEF m
  <2>4. PICK q \in kept : q \in 1..n /\ p = q + 1 /\ Answered(rows, q)
    BY <1>1, <2>3, SaidIs
  <2>5. h[k].sample = Sample(rows, kept, i)
    BY <1>2, <2>3
  <2> HIDE DEF i, p
  <2>6. q \in before /\ before \subseteq 1..n
    <3>1. q < i
      BY <2>3, <2>4
    <3>2. before = {j \in kept : j < i}
      BY DEF Before
    <3> HIDE DEF before
    <3> QED BY <1>1, <3>1, <3>2
  <2>7. ASSUME NEW y \in before PROVE y <= q
    <3>1. y \in kept /\ y \in 1..n /\ y < i /\ rows[y].role = "user"
      BY <1>1, <2>6 DEF Before, Asked
    <3>2. y # p
      BY <2>3, <3>1
    <3>3. PICK j \in DOMAIN h : o[j] = y
      BY <1>1, <3>1 DEF Heard, SaidOf
    <3>4. j \in Int /\ j < k
      BY <1>2, <1>3, <3>1, <3>3 DEF i
    <3>5. ~(m < j)
      BY <2>1, <3>4
    <3>6. ~(p < y)
      BY <1>3, <2>1, <3>3, <3>5 DEF p
    <3> QED BY <2>3, <2>4, <3>1, <3>2, <3>6
  <2>8. Max(before) = q
    <3> HIDE DEF before
    <3>1. Max(before) \in before /\ Max(before) >= q
      BY <2>6, GreatestIs
    <3> DEFINE z == Max(before)
    <3>2. z \in 1..n /\ z <= q /\ z >= q
      BY <2>6, <2>7, <3>1
    <3> HIDE DEF z
    <3>3. z = q
      BY <2>4, <3>2
    <3> QED BY <3>3 DEF z
  <2>9. Sample(rows, kept, i) = rows[q + 1].run.sample
    <3>1. before # {}
      BY <2>6
    <3> QED BY <2>4, <2>8, <3>1 DEF Sample
  <2> QED BY <2>2, <2>4, <2>5, <2>9
<1>5. ASSUME NEW k \in DOMAIN h, ~(h[k].role = "user" /\ k - 1 \in DOMAIN h /\ h[k - 1].role = "assistant")
      PROVE  h[k].sample = Nothing
  <2> DEFINE i == o[k]
             before == Before(kept, i)
             q == Max(before)
  <2>1. CASE i \notin kept
    BY <1>2, <2>1
  <2>2. CASE i \in kept
    <3>1. h[k].role = "user" /\ h[k].sample = Sample(rows, kept, i) /\ i \in 1..n /\ rows[i].role = "user" /\ k \in Int
      BY <1>2, <2>2
    <3> HIDE DEF i
    <3>2. SUFFICES ASSUME before # {}, Answered(rows, q) PROVE FALSE
      BY <3>1 DEF Sample
    <3>3. before \subseteq 1..n
      BY <1>1 DEF Before
    <3>4. q \in before /\ \A y \in before : q >= y
      <4> HIDE DEF before
      <4> QED BY <3>2, <3>3, GreatestIs
    <3>5. q \in kept /\ q < i /\ q \in 1..n
      <4>1. \A y \in before : y \in kept /\ y < i
        BY DEF Before
      <4> HIDE DEF before, q
      <4> QED BY <3>3, <3>4, <4>1
    <3>6. rows[q + 1].role = "assistant"
      BY <3>2 DEF Answered
    <3>7. PICK m \in DOMAIN h : m + 1 \in DOMAIN h /\ o[m] = q /\ o[m + 1] = q + 1
      BY <3>2, <3>5, AnswerFollows
    <3>8. q + 1 < i
      <4>1. q + 1 # i
        BY <3>1, <3>6
      <4> HIDE DEF q
      <4> QED BY <3>1, <3>5, <4>1
    <3>9. m + 1 < k
      BY <1>3, <3>7, <3>8 DEF i
    <3> DEFINE l == k - 1
               p == o[l]
    <3>10. l \in DOMAIN h /\ l >= m + 1
      <4>1. PICK c \in Nat : DOMAIN h = 1..c
        BY <1>1 DEF Heard
      <4> HIDE DEF q, before
      <4> QED BY <3>1, <3>7, <3>9, <4>1
    <3>11. h[l].role # "assistant"
      BY <1>5, <3>1, <3>10
    <3>12. p \in kept /\ p \in 1..n
      BY <1>2, <3>10, <3>11
    <3>13. p < i
      <4>1. l < k
        BY <3>1
      <4> HIDE DEF l
      <4> QED BY <1>3, <3>10, <4>1 DEF i
    <3>14. p >= q + 1
      <4>1. l = m + 1 \/ m + 1 < l
        <5>1. l \in Int /\ m \in Int
          BY <1>2, <3>10
        <5> HIDE DEF l, q, before
        <5> QED BY <3>10, <5>1
      <4>2. m + 1 < l => o[m + 1] < p
        <5> HIDE DEF l, q, before
        <5> QED BY <1>3, <3>7, <3>10
      <4> HIDE DEF l, q, before
      <4> QED BY <3>5, <3>7, <3>12, <4>1, <4>2
    <3>15. p \in before
      BY <3>12, <3>13 DEF Before
    <3>16. q >= p
      BY <3>4, <3>15
    <3> HIDE DEF p, q, before
    <3> QED BY <3>5, <3>12, <3>14, <3>16
  <2> QED BY <2>1, <2>2
<1>6. ASSUME Latest(rows) = Nothing, NEW k \in DOMAIN h PROVE h[k].sample = Nothing
  <2>1. Sample(rows, kept, o[k]) = Nothing
    BY <1>1, <1>6, NoneSampled
  <2> QED BY <1>2, <2>1
<1>7. ASSUME NEW k \in DOMAIN h
      PROVE  IF h[k].role = "user" /\ k - 1 \in DOMAIN h /\ h[k - 1].role = "assistant"
             THEN \A x \in DOMAIN rows : Tells(h[k - 1], rows[x]) => h[k].sample = rows[x].run.sample
             ELSE h[k].sample = Nothing
  BY <1>4, <1>5
<1> QED BY <1>6, <1>7 DEF SamplesAreTold

\* What the run checks of the conversation with the given rows.
WellTold(rows) ==
  LatestAreTold(rows, History(rows)) /\ TurnsAreTold(rows, History(rows)) /\ SamplesAreTold(rows, History(rows))

LEMMA ConversationIs ==
  ASSUME NEW n \in Nat, NEW rows, DOMAIN rows = 1..n, Len(rows) = n, TurnsPaired(rows)
  PROVE  WellTold(rows)
<1> DEFINE h == History(rows)
<1>1. PICK f \in Recent(rows) \cup {n + 1} :
        /\ h = Render(rows, {i \in Asked(rows) : i >= f})
        /\ {i \in Asked(rows) : i >= f} \subseteq Recent(rows)
        /\ Size(h) <= MaxChars
        /\ \A m \in Recent(rows) : m < f => ~(Size(Render(rows, {i \in Asked(rows) : i >= m})) <= MaxChars)
  BY HistoryIs
<1> DEFINE kept == {i \in Asked(rows) : i >= f}
           o == InOrder(SaidOf(rows, kept))
<1>2. Heard(rows, kept, h, o)
  <2>1. kept \subseteq Asked(rows)
    OBVIOUS
  <2>2. h = Render(rows, kept)
    BY <1>1
  <2> HIDE DEF kept, h, o
  <2>3. Heard(rows, kept, Render(rows, kept), InOrder(SaidOf(rows, kept)))
    BY <2>1, HeardIs
  <2> QED BY <2>2, <2>3 DEF o
<1> HIDE DEF h, o
<1>3. LatestAreTold(rows, h)
  BY <1>1, <1>2, LatestAre
<1> HIDE DEF kept
<1>4. TurnsAreTold(rows, h) /\ SamplesAreTold(rows, h)
  BY <1>2, TurnsAre, SamplesAre
<1> QED BY <1>3, <1>4 DEF WellTold, h

-----------------------------------------------------------------------------
(* What a question was given.                                              *)

\* What is stored is whole turns, and so are the rows that are read.
LEMMA RowsPaired ==
  ASSUME ChatInv
  PROVE  TurnsPaired(Rows)
<1> DEFINE D == DOMAIN messages
           n == Cardinality(D)
           ids == InOrder(D)
           R == Rows
<1>1. lastId \in Nat /\ D \subseteq 1..lastId /\ \A i \in D : messages[i].turn \in Turns
  BY DEF ChatInv, TypeInv, TypeOK, Turns
<1> HIDE DEF D
<1>2. /\ n \in Nat /\ DOMAIN ids = 1..n
      /\ \A k \in 1..n : ids[k] \in D /\ Place(D, ids[k]) = k
      /\ \A i \in D : Place(D, i) \in 1..n /\ ids[Place(D, i)] = i
  BY <1>1, InOrderIs
<1> HIDE DEF n
<1>3. R = [k \in 1..n |-> messages[ids[k]]]
  <2>1. R = [k \in DOMAIN ids |-> messages[ids[k]]]
    BY DEF Rows, D
  <2> HIDE DEF R, ids
  <2> QED BY <1>2, <2>1
<1>4. DOMAIN R = 1..n /\ \A k \in 1..n : R[k] = messages[ids[k]]
  <2> HIDE DEF R, ids
  <2> QED BY <1>3
<1>5. R \in Seq({R[i] : i \in DOMAIN R})
  <2> HIDE DEF ids
  <2> DEFINE T == {R[i] : i \in DOMAIN R}
  <2>1. R = [k \in 1..n |-> R[k]] /\ \A k \in 1..n : R[k] \in T
    <3> HIDE DEF R
    <3>1. R = [k \in 1..n |-> R[k]]
      BY <1>3
    <3> QED BY <1>4, <3>1
  <2> HIDE DEF R, T
  <2>2. R \in [1..n -> T]
    BY <2>1
  <2>3. R \in Seq(T)
    BY <1>2, <2>2
  <2> QED BY <2>3 DEF T
<1>6. ASSUME NEW k \in 1..n
      PROVE  \E a, b \in 1..n : /\ a < b /\ R[a].role = "user" /\ R[b].role = "assistant"
                                /\ {j \in 1..n : R[j].turn = R[k].turn} = {a, b}
  <2> DEFINE t == R[k].turn
  <2>1. ids[k] \in D /\ messages[ids[k]].turn = t
    <3> HIDE DEF R, ids
    <3> QED BY <1>2, <1>4
  <2>2. t \in Turns /\ Of(t) # {} /\ Whole(t)
    <3>1. t \in Turns
      BY <1>1, <2>1
    <3> HIDE DEF t
    <3>2. ids[k] \in Of(t)
      BY <2>1 DEF Of, D
    <3> QED BY <3>1, <3>2, TurnByTurn DEF ChatInv
  <2> HIDE DEF t
  <2>3. PICK p, q \in Of(t) : Of(t) = {p, q} /\ p < q /\ messages[p].role = "user" /\ messages[q].role = "assistant"
    BY <2>2 DEF Whole
  <2>4. \A i : i \in Of(t) <=> i \in D /\ messages[i].turn = t
    BY DEF Of, D
  <2> DEFINE a == Place(D, p)
             b == Place(D, q)
  <2> HIDE DEF R, ids
  <2>5. p \in D /\ q \in D /\ a \in 1..n /\ b \in 1..n /\ ids[a] = p /\ ids[b] = q
    BY <1>2, <2>3, <2>4
  <2>6. a < b
    BY <1>1, <2>3, <2>5, PlaceGrows
  <2> HIDE DEF a, b
  <2>7. R[a] = messages[p] /\ R[b] = messages[q]
    BY <1>4, <2>5
  <2>8. ASSUME NEW j \in 1..n PROVE R[j].turn = t <=> j \in {a, b}
    <3>1. R[j] = messages[ids[j]] /\ ids[j] \in D /\ Place(D, ids[j]) = j
      BY <1>2, <1>4
    <3>2. R[j].turn = t <=> ids[j] \in {p, q}
      BY <2>3, <2>4, <3>1
    <3>3. ids[j] = p => j = a
      BY <3>1 DEF a
    <3>4. ids[j] = q => j = b
      BY <3>1 DEF b
    <3> QED BY <2>5, <3>2, <3>3, <3>4
  <2>9. {j \in 1..n : R[j].turn = t} = {a, b}
    BY <2>5, <2>8
  <2>10. R[a].role = "user" /\ R[b].role = "assistant"
    BY <2>3, <2>7
  <2> QED BY <2>5, <2>6, <2>9, <2>10 DEF t
<1> HIDE DEF R
<1>7. \A i \in DOMAIN R : \E a, b \in DOMAIN R :
        /\ a < b /\ R[a].role = "user" /\ R[b].role = "assistant"
        /\ {k \in DOMAIN R : R[k].turn = R[i].turn} = {a, b}
  <2> DEFINE E == DOMAIN R
  <2>1. E = 1..n
    BY <1>4
  <2> HIDE DEF E, ids
  <2>2. \A i \in E : \E a, b \in E :
          /\ a < b /\ R[a].role = "user" /\ R[b].role = "assistant"
          /\ {k \in E : R[k].turn = R[i].turn} = {a, b}
    <3> SUFFICES ASSUME NEW i \in E
                 PROVE  \E a, b \in E : /\ a < b /\ R[a].role = "user" /\ R[b].role = "assistant"
                                        /\ {k \in E : R[k].turn = R[i].turn} = {a, b}
      OBVIOUS
    <3>1. PICK a, b \in 1..n : /\ a < b /\ R[a].role = "user" /\ R[b].role = "assistant"
                               /\ {j \in 1..n : R[j].turn = R[i].turn} = {a, b}
      BY <1>6, <2>1
    <3>2. {k \in E : R[k].turn = R[i].turn} = {j \in 1..n : R[j].turn = R[i].turn}
      BY <2>1
    <3> QED BY <2>1, <3>1, <3>2
  <2> QED BY <2>2 DEF E
<1>8. TurnsPaired(R)
  BY <1>5, <1>7 DEF TurnsPaired
<1> QED BY <1>8 DEF R

\* A question waits for the model with the whole turns it read.
ModelInv == \A r \in Requests : pc[r] = "model" => TurnsPaired(saw[r].rows)

\* Only the reading of the context leads to the model.
LEMMA Elsewhere ==
  ASSUME TypeInv, NEW r \in Requests, Arrives(r) \/ Goes(r), ~LoadContext(r)
  PROVE  \E w \in Stages \ {"model"} : Goto(r, w) /\ (saw' = saw \/ \E s : Sees(r, s))
<1> DEFINE Moves(w) == Goto(r, w) /\ (saw' = saw \/ \E s : Sees(r, s))
<1> SUFFICES \E w \in Stages \ {"model"} : Moves(w)
  OBVIOUS
<1>1. \A w \in {"refused", "context", "write", "done", "failed", "question", "answer", "bump", "commit", "run",
                "record", "attach", "save", "rerun"} : w \in Stages \ {"model"}
  BY DEF Stages
<1> HIDE DEF Moves
<1>2. \A w : Goto(r, w) /\ UNCHANGED saw => Moves(w)
  BY DEF Moves
<1>3. \A w, s : Goto(r, w) /\ Sees(r, s) => Moves(w)
  BY DEF Moves
<1>4. Fail(r) => Moves("failed")
  BY <1>2 DEF Fail
<1>5. ASSUME NEW o, LoadChat(r, o) PROVE \E w \in {"refused", "context", "write"} : Moves(w)
  BY <1>2, <1>3, <1>5 DEF LoadChat
<1>6. CASE Disconnect(r)
  BY <1>1, <1>2, <1>6 DEF Disconnect
<1>7. CASE Execute(r)
  BY <1>1, <1>3, <1>7 DEF Execute
<1>8. CASE Rerun(r)
  BY <1>1, <1>2, <1>8 DEF Rerun
<1>9. CASE Generate(r)
  BY <1>1, <1>2, <1>9 DEF Generate
<1>10. CASE InsertQuestion(r)
  BY <1>1, <1>3, <1>4, <1>10 DEF InsertQuestion
<1>11. CASE InsertAnswer(r)
  BY <1>1, <1>3, <1>11 DEF InsertAnswer
<1>12. CASE Bump(r)
  BY <1>1, <1>2, <1>12 DEF Bump
<1>13. CASE CommitTurn(r)
  BY <1>1, <1>2, <1>13 DEF CommitTurn
<1>14. CASE WriteChat(r)
  BY <1>1, <1>2, <1>14 DEF WriteChat
<1>15. CASE CommitChat(r)
  BY <1>1, <1>2, <1>15 DEF CommitChat
<1>16. CASE WriteDelete(r)
  BY <1>1, <1>2, <1>16 DEF WriteDelete
<1>17. CASE CommitDelete(r)
  BY <1>1, <1>2, <1>17 DEF CommitDelete
<1>18. CASE RunEnds(r)
  BY <1>1, <1>3, <1>4, <1>18 DEF RunEnds
<1>19. CASE ReadEntry(r)
  BY <1>1, <1>3, <1>19 DEF ReadEntry
<1>20. CASE ReadTurn(r)
  BY <1>1, <1>2, <1>3, <1>20 DEF ReadTurn
<1>21. CASE Save(r)
  BY <1>1, <1>2, <1>4, <1>21 DEF Save
<1>22. CASE RerunEnds(r)
  BY <1>1, <1>2, <1>4, <1>22 DEF RerunEnds
<1> QED BY <1>1, <1>5, <1>6, <1>7, <1>8, <1>9, <1>10, <1>11, <1>12, <1>13, <1>14, <1>15, <1>16, <1>17, <1>18, <1>19,
           <1>20, <1>21, <1>22 DEF Arrives, Goes

LEMMA ModelKeeps == ChatInv /\ ModelInv /\ [Next]_vars => ModelInv'
<1> SUFFICES ASSUME ChatInv, ModelInv, [Next]_vars, NEW q \in Requests, pc'[q] = "model" PROVE TurnsPaired(saw'[q].rows)
  BY DEF ModelInv
<1>1. TypeInv /\ DOMAIN saw = Requests /\ pc \in [Requests -> Stages]
  BY DEF ChatInv, TypeInv, TypeOK, Stages
<1>2. CASE UNCHANGED vars
  <2>1. pc'[q] = pc[q] /\ saw'[q] = saw[q]
    BY <1>2 DEF vars
  <2> QED BY <2>1 DEF ModelInv
<1>3. ASSUME NEW r \in Requests, Arrives(r) \/ Goes(r), ~LoadContext(r) PROVE TurnsPaired(saw'[q].rows)
  <2>1. PICK w \in Stages \ {"model"} : Goto(r, w) /\ (saw' = saw \/ \E s : Sees(r, s))
    BY <1>1, <1>3, Elsewhere
  <2>2. q # r
    BY <1>1, <2>1 DEF Goto
  <2>3. pc'[q] = pc[q]
    BY <1>1, <2>1, <2>2 DEF Goto
  <2>4. saw'[q] = saw[q]
    BY <1>1, <2>1, <2>2 DEF Sees
  <2> QED BY <2>3, <2>4 DEF ModelInv
<1>4. ASSUME NEW r \in Requests, LoadContext(r) PROVE TurnsPaired(saw'[q].rows)
  <2> DEFINE s == [title |-> saw[r].title, rows |-> Rows]
  <2>1. Goto(r, "model") /\ Sees(r, s)
    BY <1>4 DEF LoadContext
  <2>2. s.rows = Rows
    OBVIOUS
  <2> HIDE DEF s
  <2>3. CASE q = r
    <3>1. saw'[q] = s
      BY <1>1, <2>1, <2>3 DEF Sees
    <3> QED BY <2>2, <3>1, RowsPaired
  <2>4. CASE q # r
    <3>1. pc'[q] = pc[q] /\ saw'[q] = saw[q]
      BY <1>1, <2>1, <2>4 DEF Goto, Sees
    <3> QED BY <3>1 DEF ModelInv
  <2> QED BY <2>3, <2>4
<1> QED BY <1>2, <1>3, <1>4 DEF Next, Over

\* However questions interleave and whatever the limits, the model is given as many
\* of the latest questions as fit, in order, each with its own answer and the sample
\* of the answer told before it; an answer is missing or another's only where two
\* questions were asked at once (build_history_messages, latest_result_sample).
THEOREM ModelIsTold == Spec => []ConversationIsTheChats
<1>1. Init => ModelInv
  BY DEF Init, ModelInv
<1>2. ModelInv => ConversationIsTheChats
  <2> SUFFICES ASSUME ModelInv, NEW r \in Requests, pc[r] = "model" PROVE WellTold(saw[r].rows)
    BY DEF ConversationIsTheChats, WellTold
  <2> DEFINE rows == saw[r].rows
  <2>1. TurnsPaired(rows)
    BY DEF ModelInv
  <2> HIDE DEF rows
  <2>2. Len(rows) \in Nat /\ DOMAIN rows = 1..Len(rows)
    <3> DEFINE T == {rows[i] : i \in DOMAIN rows}
    <3>1. rows \in Seq(T)
      BY <2>1 DEF TurnsPaired
    <3> HIDE DEF T
    <3> QED BY <3>1
  <2>3. WellTold(rows)
    BY <2>1, <2>2, ConversationIs
  <2> QED BY <2>3 DEF rows
<1> QED BY <1>1, <1>2, ModelKeeps, ChatHolds, PTL DEF Spec

=============================================================================
