----------------------------- MODULE GenerateLoop -----------------------------
(***************************************************************************)
(* generate_with_verification (services/ai/generate.py) and what            *)
(* run_ask_flow makes of its outcome (services/ask_flow.py): ask the model   *)
(* for SQL, guard it, verify its identifiers against the schema, and on a    *)
(* failure append the reply and a correction and ask again.                 *)
(*                                                                         *)
(* A reply is what the loop can tell about it; an SQL text or a failed      *)
(* verification is named by the attempt it came from, 0 standing for None.  *)
(***************************************************************************)
EXTENDS Integers, Sequences

CONSTANT
  MaxRetries   \* settings.ask_max_retries; a negative setting means none

ASSUME MaxRetriesAssumption == MaxRetries \in Int

VARIABLES
  verify,         \* settings.ask_verify_identifiers
  pc,             \* calling the model, judging its reply, or how the loop ended
  replies,        \* the model's replies, one per attempt
  messages,       \* the current question and the corrections after it
  retryCount,
  safeSql,        \* the attempt whose SQL passed the guard last
  lastFailed,     \* the attempt whose verification failed last
  outcome,        \* the GenerationOutcome
  row             \* the history row run_ask_flow writes for it

loopVars == <<verify, pc, replies, messages, retryCount, safeSql, lastFailed, outcome, row>>

-----------------------------------------------------------------------------

Attempts == 1 + (IF MaxRetries > 0 THEN MaxRetries ELSE 0)

\* unanswered: a status other than "ok"; unsafe: the guard refuses the SQL;
\* unknown: it passes but names identifiers the schema lacks; good: neither.
ReplyKinds == {"unanswered", "unsafe", "unknown", "good"}
Corrections == {"reply", "guard_feedback", "identifier_feedback"}

Messages == [kind : Corrections \cup {"question"}, attempt : Nat]
Outcomes == [reply : Nat, sql : Nat, failed : Nat, retries : Nat]
HistoryRows == [status : {"unanswered", "verification_failed", "ok"}, sql : Nat, retries : Nat]

None == [reply |-> 0]
NoRow == [status |-> "none"]

LoopTypeOK ==
  /\ verify \in BOOLEAN
  /\ pc \in {"call", "judge", "returned", "raised", "stored"}
  /\ replies \in Seq(ReplyKinds)
  /\ messages \in Seq(Messages)
  /\ retryCount \in Nat /\ safeSql \in Nat /\ lastFailed \in Nat
  /\ outcome \in Outcomes \cup {None}
  /\ row \in HistoryRows \cup {NoRow}

LoopInit ==
  /\ verify \in BOOLEAN
  /\ pc = "call"
  /\ replies = <<>>
  /\ messages = <<[kind |-> "question", attempt |-> 0]>>
  /\ retryCount = 0 /\ safeSql = 0 /\ lastFailed = 0
  /\ outcome = None /\ row = NoRow

-----------------------------------------------------------------------------

Attempt == Len(replies)
Reply   == replies[Attempt]
IsLast  == Attempt = Attempts

\* provider.generate_sql answers, or raises AIProviderError.
Call ==
  /\ pc = "call" /\ pc' = "judge"
  /\ \E k \in ReplyKinds : replies' = Append(replies, k)
  /\ UNCHANGED <<verify, messages, retryCount, safeSql, lastFailed, outcome, row>>

ProviderFails ==
  /\ pc = "call" /\ pc' = "raised"
  /\ UNCHANGED <<verify, replies, messages, retryCount, safeSql, lastFailed, outcome, row>>

Return(sql, failed) ==
  /\ pc' = "returned"
  /\ outcome' = [reply |-> Attempt, sql |-> sql, failed |-> failed, retries |-> retryCount]
  /\ UNCHANGED <<verify, replies, messages, retryCount, row>>

\* Mutant of AskAgain: the loop starts over, and its attempts with it.
AskFromScratch(feedback) ==
  /\ pc' = "call"
  /\ replies' = <<>> /\ messages' = SubSeq(messages, 1, 1) /\ retryCount' = 0
  /\ UNCHANGED <<verify, outcome, row>>

\* The reply and a correction are appended and the model is asked again.
AskAgain(feedback) ==
  /\ pc' = "call"
  /\ messages' = messages \o << [kind |-> "reply", attempt |-> Attempt],
                                [kind |-> feedback, attempt |-> Attempt] >>
  /\ retryCount' = retryCount + 1
  /\ UNCHANGED <<verify, replies, outcome, row>>

\* A clarification request or an unanswerable verdict is final, never retried.
Unanswered ==
  /\ pc = "judge" /\ Reply = "unanswered"
  /\ Return(0, 0)
  /\ UNCHANGED <<safeSql, lastFailed>>

GuardRejects ==
  /\ pc = "judge" /\ Reply = "unsafe" /\ ~IsLast
  /\ AskAgain("guard_feedback")
  /\ UNCHANGED <<safeSql, lastFailed>>

\* Mutant of GuardRaises: the loop is left with what earlier attempts stored.
GuardGivesUp ==
  /\ pc = "judge" /\ Reply = "unsafe" /\ IsLast
  /\ Return(safeSql, lastFailed)
  /\ UNCHANGED <<safeSql, lastFailed>>

GuardRaises ==
  /\ pc = "judge" /\ Reply = "unsafe" /\ IsLast
  /\ pc' = "raised"
  /\ UNCHANGED <<verify, replies, messages, retryCount, safeSql, lastFailed, outcome, row>>

\* The SQL is accepted: verified, or verification is off.
Accept ==
  /\ pc = "judge" /\ Reply \in {"unknown", "good"} /\ (Reply = "good" \/ ~verify)
  /\ safeSql' = Attempt
  /\ Return(Attempt, 0)
  /\ UNCHANGED lastFailed

VerificationFails ==
  /\ pc = "judge" /\ Reply = "unknown" /\ verify /\ ~IsLast
  /\ safeSql' = Attempt /\ lastFailed' = Attempt
  /\ AskAgain("identifier_feedback")

\* Mutant of VerificationGivesUp: the failed verification is dropped.
ForgetsFailure ==
  /\ pc = "judge" /\ Reply = "unknown" /\ verify /\ IsLast
  /\ safeSql' = Attempt /\ lastFailed' = Attempt
  /\ Return(Attempt, 0)

\* Attempts exhausted: the last SQL is returned with its failed verification.
VerificationGivesUp ==
  /\ pc = "judge" /\ Reply = "unknown" /\ verify /\ IsLast
  /\ safeSql' = Attempt /\ lastFailed' = Attempt
  /\ Return(Attempt, Attempt)

\* The history row of run_ask_flow, from the outcome alone.
RowOf(o) ==
  [ status  |-> IF replies[o.reply] = "unanswered" THEN "unanswered"
                ELSE IF o.failed # 0 THEN "verification_failed" ELSE "ok",
    sql     |-> IF replies[o.reply] = "unanswered" THEN 0 ELSE o.sql,
    retries |-> o.retries ]

Store ==
  /\ pc = "returned" /\ pc' = "stored"
  /\ row' = RowOf(outcome)
  /\ UNCHANGED <<verify, replies, messages, retryCount, safeSql, lastFailed, outcome>>

Stopped ==
  /\ pc \in {"raised", "stored"}
  /\ UNCHANGED loopVars

Step ==
  \/ Call \/ ProviderFails \/ Unanswered \/ GuardRejects \/ GuardRaises
  \/ Accept \/ VerificationFails \/ VerificationGivesUp \/ Store

LoopNext == Step \/ Stopped

LoopSafety == LoopInit /\ [][LoopNext]_loopVars

\* The loop is one coroutine and its provider calls return or raise.
LoopSpec == LoopSafety /\ WF_loopVars(Step)

-----------------------------------------------------------------------------
(* Properties.                                                             *)

\* Result, SQL and failed verification of an outcome all belong to the last
\* attempt: nothing an earlier attempt left behind leaks into it.
OutcomeIsLastAttempt ==
  outcome # None =>
    /\ outcome.reply = Len(replies)
    /\ outcome.sql \in {0, outcome.reply}
    /\ outcome.failed \in {0, outcome.reply}

\* A row that says "ok" holds SQL that passed the guard and, when verification
\* is on, names only identifiers of the schema; a row that says verification
\* failed holds SQL that passed the guard.
RowTellsTheTruth ==
  row # NoRow =>
    /\ row.status = "ok" => row.sql # 0 /\ replies[row.sql] \in {"good"} \cup IF verify THEN {} ELSE {"unknown"}
    /\ row.status = "verification_failed" => row.sql # 0 /\ replies[row.sql] = "unknown"
    /\ row.status = "unanswered" => row.sql = 0

\* The conversation: after the question, reply and correction alternate, the
\* i-th pair is about the i-th attempt, and each correction names the reason
\* that attempt failed for; retry_count counts the corrections.
FeedbackFor(kind) == IF kind = "unsafe" THEN "guard_feedback" ELSE "identifier_feedback"

ConversationIsSound ==
  /\ Len(messages) = 1 + 2 * retryCount
  /\ \A i \in 1..retryCount :
       /\ messages[2 * i] = [kind |-> "reply", attempt |-> i]
       /\ messages[2 * i + 1] = [kind |-> FeedbackFor(replies[i]), attempt |-> i]
       /\ replies[i] \in {"unsafe", "unknown"}

\* What ties outcome, row and attempt together at each point of the loop.
LoopInv ==
  /\ pc = "call" => Len(replies) = retryCount /\ Len(replies) < Attempts
  /\ pc # "call" => Len(replies) <= Attempts
  /\ pc \in {"judge", "returned", "stored"} => Len(replies) = retryCount + 1
  /\ pc = "raised" => Len(replies) \in {retryCount, retryCount + 1}
  /\ pc \in {"call", "judge", "raised"} <=> outcome = None
  /\ pc # "stored" => row = NoRow
  /\ pc = "stored" => row = RowOf(outcome)

\* An outcome carries a failed verification exactly when its SQL has one.
OutcomeInv ==
  outcome # None =>
    CASE replies[outcome.reply] = "unanswered" -> outcome.sql = 0 /\ outcome.failed = 0
      [] replies[outcome.reply] = "unknown" ->
           outcome.sql = outcome.reply /\ outcome.failed = IF verify THEN outcome.reply ELSE 0
      [] replies[outcome.reply] = "good" -> outcome.sql = outcome.reply /\ outcome.failed = 0
      [] OTHER -> FALSE

\* The model is called at most once plus once per allowed retry.
CallsBounded == Len(replies) <= Attempts

\* The loop at each of its awaits (generate.py:117-195): nothing of an earlier
\* attempt reaches the outcome, the conversation alternates and each correction
\* answers the reply before it, and the calls are bounded.
GenerateInv == /\ LoopTypeOK /\ LoopInv /\ OutcomeInv
               /\ OutcomeIsLastAttempt /\ ConversationIsSound /\ CallsBounded

\* The loop ends, with an exception or a stored row.
Terminates == <>(pc \in {"raised", "stored"})

=============================================================================
