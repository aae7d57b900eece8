----------------------------- MODULE ClarityFetch -----------------------------
(***************************************************************************)
(* The Clarity fetch (services/clarity/fetcher.py, client.py): a run reads   *)
(* the configured dimension combinations and what is left of the daily       *)
(* request budget, then fetches one combination after the other, each        *)
(* answer replacing the stored snapshot of the same day and combination.     *)
(* A run is one panel-database transaction at read committed, committed by   *)
(* its caller: the scheduler's job (services/scheduler.py), or get_session   *)
(* after POST /clarity/fetch-now (routers/clarity.py).                       *)
(*                                                                         *)
(* A snapshot is named by the run that stored it and its combination.       *)
(***************************************************************************)
EXTENDS FiniteSetsExt, Integers, Sequences

CONSTANTS
  Runs,     \* fetch runs, each started at most once
  Past,     \* those of them that are over at the outset
  Combos,   \* dimension combinations
  Configs,  \* settings the administrators may save: sequences of combinations
  Budget,   \* DAILY_REQUEST_BUDGET
  LastDay   \* bound: the UTC days 1..LastDay are explored

ASSUME RunsAssumption == IsFiniteSet(Runs)
ASSUME ConfigsAssumption ==   \* validate_combos: no combination twice
  /\ Configs \subseteq Seq(Combos) /\ Configs # {} /\ <<>> \notin Configs
  /\ \A s \in Configs : \A i, j \in 1..Len(s) : s[i] = s[j] => i = j
ASSUME BudgetAssumption == Budget \in Nat /\ LastDay \in Nat \ {0}
ASSUME PastAssumption ==   \* one run, or none
  /\ Past \subseteq Runs /\ \A r, q \in Past : r = q
  /\ \A s \in Configs : Len(s) <= Budget

VARIABLES
  day,        \* the current UTC day
  pc,         \* where each run is
  plan,       \* the combinations it read
  born,       \* the UTC day its row is dated: its transaction began then
  counted,    \* the UTC day it counted the requests of
  date,       \* the day its data is about: yesterday, somewhere
  quota,      \* how many of the combinations it may attempt
  attempted,  \* requests_attempted
  result,     \* what it has fetched, per combination
  status,     \* the status of its row
  target,     \* snapshots its DELETE is waiting to delete
  doomed,     \* snapshots it has deleted, and locked, in its transaction
  stored,     \* the snapshots in the database
  saw         \* the runs whose requests it counted (history variable)

facts   == <<plan, born>>
budget  == <<counted, date, quota, saw>>
answers == <<result, status>>
rows    == <<target, doomed, stored>>
vars    == <<day, pc, facts, budget, attempted, answers, rows>>

-----------------------------------------------------------------------------

Days == 1..LastDay

TypeOK ==
  /\ day \in Days
  /\ pc \in [Runs -> {"new", "count", "find", "lock", "get", "retry", "commit", "done", "failed"}]
  /\ plan \in [Runs -> Configs]
  /\ born \in [Runs -> Days] /\ counted \in [Runs -> Days] /\ date \in [Runs -> Days \cup {LastDay + 1}]
  /\ quota \in [Runs -> Nat] /\ attempted \in [Runs -> Nat]
  /\ result \in [Runs -> [Combos -> {"none", "success", "error"}]]
  /\ status \in [Runs -> {"running", "success", "partial", "failed"}]
  /\ target \in [Runs -> SUBSET (Runs \X Combos)]
  /\ doomed \in [Runs -> SUBSET (Runs \X Combos)]
  /\ stored \subseteq Runs \X Combos
  /\ saw \in [Runs -> SUBSET Runs]

\* A past run fetched everything it was configured with, on the first day; the
\* others take their plan when they begin and their date when they count.
Init ==
  /\ day = 1
  /\ plan = [r \in Runs |-> CHOOSE s \in Configs : TRUE]
  /\ date \in [Runs -> {1, 2}] /\ \A r \in Runs \ Past : date[r] = 1
  /\ pc = [r \in Runs |-> IF r \in Past THEN "done" ELSE "new"]
  /\ born = [r \in Runs |-> 1] /\ counted = [r \in Runs |-> 1]
  /\ quota = [r \in Runs |-> IF r \in Past THEN Len(plan[r]) ELSE 0]
  /\ attempted = quota
  /\ result = [r \in Runs |-> [c \in Combos |->
       IF r \in Past /\ \E i \in 1..Len(plan[r]) : plan[r][i] = c THEN "success" ELSE "none"]]
  /\ status = [r \in Runs |-> IF r \in Past THEN "success" ELSE "running"]
  /\ stored = {s \in Past \X Combos : result[s[1]][s[2]] = "success"}
  /\ target = [r \in Runs |-> {}] /\ doomed = [r \in Runs |-> {}]
  /\ saw = [r \in Runs |-> {}]

\* The loop takes the combinations in the order of the settings.
Combo(r, i) == plan[r][i]

Active(r)  == pc[r] \notin {"new", "done", "failed"}
Logged     == {r \in Runs : pc[r] = "done"}
Successes(r) == {c \in Combos : result[r][c] = "success"}
Fetched(r)   == {<<r, c>> : c \in {d \in Combos : result[r][d] # "none"}}

Goto(r, where) == pc' = [pc EXCEPT ![r] = where]

Requests(S) == MapThenSumSet(LAMBDA r : attempted[r], S)

\* Mutant of Used: only successful runs count.
UsedBySuccesses(d) == Requests({r \in Logged : born[r] >= d /\ status[r] = "success"})

\* requests_used_today, on a given day.
Used(d) == Requests({r \in Logged : born[r] >= d})

-----------------------------------------------------------------------------

\* The job or the handler starts: its transaction begins and reads the settings,
\* whatever the administrators have saved by then.
Begin(r) ==
  /\ pc[r] = "new" /\ Goto(r, "count")
  /\ \E s \in Configs : plan' = [plan EXCEPT ![r] = s]
  /\ born' = [born EXCEPT ![r] = day]
  /\ UNCHANGED <<day, budget, attempted, answers, rows>>

\* _data_date: yesterday, in the configured timezone, is the day before the UTC
\* day or that day itself.  Days are numbered so that the former is `day`.
Yesterdays == {day, day + 1}

\* The data's date, requests_used_today and plan_combos; an exhausted budget
\* fails the run.
Count(r) ==
  /\ pc[r] = "count"
  /\ \E d \in Yesterdays : date' = [date EXCEPT ![r] = d]
  /\ quota' = [quota EXCEPT ![r] = Min({Len(plan[r]), Max({0, Budget - Used(day)})})]
  /\ counted' = [counted EXCEPT ![r] = day] /\ saw' = [saw EXCEPT ![r] = Logged]
  /\ IF quota'[r] = 0
     THEN Goto(r, "commit") /\ status' = [status EXCEPT ![r] = "failed"]
     ELSE Goto(r, "find") /\ UNCHANGED status
  /\ UNCHANGED <<day, facts, attempted, result, rows>>

\* Mutant of FindOld: every snapshot of the day is deleted.
FindOldOfDay(r) ==
  /\ pc[r] = "find" /\ Goto(r, "lock")
  /\ attempted' = [attempted EXCEPT ![r] = @ + 1]
  /\ target' = [target EXCEPT ![r] = {s \in stored : date[s[1]] = date[r]}]
  /\ UNCHANGED <<day, facts, budget, answers, doomed, stored>>

\* The next combination is attempted: its DELETE sees the committed snapshots of
\* the day and combination ...
FindOld(r) ==
  /\ pc[r] = "find" /\ Goto(r, "lock")
  /\ attempted' = [attempted EXCEPT ![r] = @ + 1]
  /\ target' = [target EXCEPT ![r] =
       {s \in stored : date[s[1]] = date[r] /\ s[2] = Combo(r, attempted'[r])}]
  /\ UNCHANGED <<day, facts, budget, answers, doomed, stored>>

\* ... and waits for any transaction that has deleted one of them, to delete
\* those that are still there then.
LockOld(r) ==
  /\ pc[r] = "lock" /\ \A q \in Runs \ {r} : target[r] \cap doomed[q] = {}
  /\ Goto(r, "get")
  /\ doomed' = [doomed EXCEPT ![r] = @ \cup (target[r] \cap stored)]
  /\ target' = [target EXCEPT ![r] = {}]
  /\ UNCHANGED <<day, facts, budget, attempted, answers, stored>>

\* The status run_fetch gives its row at the end.
Report(r, n) == IF n = 0 THEN "failed" ELSE IF n < Len(plan[r]) THEN "partial" ELSE "success"

\* An answer is stored; an authentication failure or a rate limit is fatal to
\* the run, any other error to this combination only.
Answer(r, outcome, fatal) ==
  /\ result' = [result EXCEPT ![r][Combo(r, attempted[r])] = outcome]
  /\ IF fatal \/ attempted[r] = quota[r]
     THEN /\ Goto(r, "commit")
          /\ status' = [status EXCEPT ![r] = Report(r, Cardinality(Successes(r)'))]
     ELSE Goto(r, "find") /\ UNCHANGED status

\* fetch_insights: an answer, or a transient failure and one more request.
Get(r) ==
  /\ pc[r] = "get"
  /\ \/ Answer(r, "success", FALSE)
     \/ \E fatal \in BOOLEAN : Answer(r, "error", fatal)
     \/ Goto(r, "retry") /\ UNCHANGED <<result, status>>
  /\ UNCHANGED <<day, facts, budget, attempted, rows>>

\* Mutant of Retry: transient failures are retried for as long as they last.
RetryForever(r) ==
  /\ pc[r] = "retry"
  /\ \/ Answer(r, "success", FALSE)
     \/ \E fatal \in BOOLEAN : Answer(r, "error", fatal)
     \/ Goto(r, "get") /\ UNCHANGED <<result, status>>
  /\ UNCHANGED <<day, facts, budget, attempted, rows>>

\* The second and last request: its answer, or its failure, stands.
Retry(r) ==
  /\ pc[r] = "retry"
  /\ \/ Answer(r, "success", FALSE)
     \/ \E fatal \in BOOLEAN : Answer(r, "error", fatal)
  /\ UNCHANGED <<day, facts, budget, attempted, rows>>

\* The caller commits: deleted snapshots go and the new ones appear together.
Commit(r) ==
  /\ pc[r] = "commit" /\ Goto(r, "done")
  /\ stored' = (stored \ doomed[r]) \cup Fetched(r)
  /\ doomed' = [doomed EXCEPT ![r] = {}]
  /\ UNCHANGED <<day, facts, budget, attempted, answers, target>>

\* No token, a database error, a deadlock victim, a dead process: the caller
\* rolls back, the run's row and with it the count of its requests included.
Fail(r) ==
  /\ Active(r) /\ Goto(r, "failed")
  /\ attempted' = [attempted EXCEPT ![r] = 0]
  /\ result' = [result EXCEPT ![r] = [c \in Combos |-> "none"]]
  /\ status' = [status EXCEPT ![r] = "running"]
  /\ target' = [target EXCEPT ![r] = {}] /\ doomed' = [doomed EXCEPT ![r] = {}]
  /\ UNCHANGED <<day, facts, budget, stored>>

Midnight ==
  /\ day < LastDay /\ day' = day + 1
  /\ UNCHANGED <<pc, facts, budget, attempted, answers, rows>>

Waits(r, q) == pc[r] = "lock" /\ r # q /\ target[r] \cap doomed[q] # {}

\* PostgreSQL breaks a deadlock by failing one of the transactions in it.
BreakDeadlock == \E r, q \in Runs : Waits(r, q) /\ Waits(q, r) /\ Fail(r)

Step(r) ==
  Count(r) \/ FindOld(r) \/ LockOld(r) \/ Get(r) \/ Retry(r) \/ Commit(r)

Next ==
  \/ Midnight
  \/ \E r \in Runs : Begin(r) \/ Step(r) \/ Fail(r)

\* Each await of a run returns; nobody has to start one.
Safety == Init /\ [][Next]_vars
Spec   == Safety /\ WF_vars(BreakDeadlock) /\ \A r \in Runs : WF_vars(Step(r))

-----------------------------------------------------------------------------
(* Properties.                                                             *)

Overlap(r, q) == r \notin saw[q] /\ q \notin saw[r]

\* The requests logged for a UTC day exceed the budget only if two of its runs
\* overlapped, neither counting the other, or one began just before the day it
\* counted: nothing else overspends, retried combinations and settings changes
\* included.
OverspentMeansRace ==
  \A d \in Days :
    LET Today == {r \in Logged : born[r] = d}
    IN  Requests(Today) > Budget =>
          \E r \in Today : counted[r] # d \/ \E q \in Today \ {r} : Overlap(r, q)

\* Two snapshots of the same day and combination are both stored only if their
\* runs overlapped: otherwise the later one has replaced the earlier one.
DuplicatesMeanRace ==
  \A s, t \in stored : s # t /\ date[s[1]] = date[t[1]] /\ s[2] = t[2] => Overlap(s[1], t[1])

\* What the readers find (clarity/reader.py): the stored snapshots with a payload.
Readable == {s \in stored : result[s[1]][s[2]] = "success"}

\* The step stores an answer, or the API's refusal, for the day and combination
\* of a snapshot in its place.
Refetched(s) ==
  \E t \in stored' \ stored : date[t[1]] = date[s[1]] /\ t[2] = s[2] /\ t \in Readable'
Refused(s) ==
  \E t \in stored' \ stored :
    date[t[1]] = date[s[1]] /\ t[2] = s[2] /\ result[t[1]][t[2]] = "error" /\ status[t[1]] # "success"

\* A refused refetch does lose data: the error's row takes the place of the last
\* answer, and the readers pass it over.  But that is the only way data go: the
\* readers find nothing of a day and combination they did find only once the API
\* has answered the refetch of that very combination, with data that are there
\* instead or with a refusal the run's own report admits.  Nothing is lost to a
\* run that is rolled back, to the combinations an exhausted budget or a fatal
\* error leaves out, or to a run about another day.
RefetchReplaces ==
  [][ \A s \in Readable \ Readable' : Refetched(s) \/ Refused(s) ]_vars

\* A refetch for the same day replaces the previous snapshot.
RefetchKeepsData == [][ \A s \in Readable \ Readable' : Refetched(s) ]_vars

\* A logged run calls itself a success only if it fetched every combination it
\* was configured with, and failed only if it fetched none, whether the budget,
\* a fatal error or neither ended it; and each of its requests has its snapshot.
ReportTellsTheTruth ==
  \A r \in Logged :
    /\ status[r] = "success" <=> \A i \in 1..Len(plan[r]) : result[r][plan[r][i]] = "success"
    /\ status[r] = "failed"  <=> \A c \in Combos : result[r][c] # "success"
    /\ status[r] # "running"
    /\ attempted[r] = Cardinality(Fetched(r))

\* Two runs wait for each other's deletions only if the order of the
\* combinations was changed between them.
DeadlockMeansReorder ==
  \A r, q \in Runs : Waits(r, q) /\ Waits(q, r) => plan[r] # plan[q]

\* The inductive strengthening of the four.  How many of its combinations a run
\* has a result for, and how many it has looked for old snapshots of:
Settled(r)  == IF pc[r] \in {"lock", "get", "retry"} THEN attempted[r] - 1 ELSE attempted[r]
Searched(r) == IF pc[r] = "lock" THEN attempted[r] - 1 ELSE attempted[r]

\* A run stays within what the runs it counted left of the budget.
BudgetInv ==
  \A r \in Runs :
    /\ pc[r] \in {"new", "count", "failed"} => attempted[r] = 0
    /\ pc[r] \in {"new", "count"} => quota[r] = 0 /\ saw[r] = {}
    /\ pc[r] \in {"lock", "get", "retry"} => attempted[r] > 0
    /\ pc[r] = "find" => attempted[r] < quota[r]
    /\ attempted[r] <= quota[r] /\ quota[r] <= Len(plan[r])
    /\ quota[r] = 0 \/ quota[r] + Requests({q \in saw[r] : born[q] >= counted[r]}) <= Budget

\* What a run counted was logged then, and so was what that had counted.
SawInv ==
  \A r \in Runs :
    /\ r \notin saw[r] /\ saw[r] \subseteq Logged
    /\ \A q \in saw[r] : saw[q] \subseteq saw[r]

ResultInv ==
  \A r \in Runs :
    /\ \A c \in Combos : result[r][c] # "none" <=> \E i \in 1..Settled(r) : Combo(r, i) = c
    /\ pc[r] \in {"commit", "done"} => status[r] = Report(r, Cardinality(Successes(r)))

\* Only committed runs have snapshots; a run deletes those of its own day and
\* combinations, no two runs the same ones, and none it could see is left.
Old(r, i) == {s \in stored : date[s[1]] = date[r] /\ s[2] = Combo(r, i)}

RowInv ==
  /\ \A s \in stored : s[1] \in Logged /\ s \in Fetched(s[1])
  /\ \A r \in Runs :
       /\ doomed[r] \subseteq UNION {Old(r, i) : i \in 1..Searched(r)}
       /\ \A q \in Runs \ {r} : doomed[r] \cap doomed[q] = {}
       /\ ~Active(r) => doomed[r] = {}
       /\ \A i \in 1..Searched(r) : \A s \in Old(r, i) : s[1] \in saw[r] => s \in doomed[r]
  /\ \A r \in Runs :
       IF pc[r] = "lock"
       THEN /\ \A s \in target[r] : s[1] \in Logged /\ date[s[1]] = date[r] /\ s[2] = Combo(r, attempted[r])
            /\ \A s \in Old(r, attempted[r]) : s[1] \in saw[r] => s \in target[r]
       ELSE target[r] = {}

RunsInv == BudgetInv /\ SawInv /\ ResultInv /\ RowInv

\* Types, what overlapping runs may do to each other, to the budget and to the
\* report of one of them (fetcher.py:46-157).
FetchInv ==
  /\ TypeOK /\ RunsInv
  /\ OverspentMeansRace /\ DuplicatesMeanRace /\ ReportTellsTheTruth /\ DeadlockMeansReorder

\* A run that begins ends.
EveryRunEnds == \A r \in Runs : pc[r] = "count" ~> pc[r] \in {"done", "failed"}

=============================================================================
