------------------------------- MODULE Settings -------------------------------
(***************************************************************************)
(* The panel's settings (services/app_settings.py): one row by key, saved by  *)
(* the administrators through PUT /clarity/settings (routers/clarity.py),     *)
(* PUT /admin/ask-settings (routers/ask_settings.py) and /prompts             *)
(* (routers/prompts.py, services/prompt_store.py), and the schedule of the    *)
(* daily Clarity fetch, which lives in the process and is made of two of      *)
(* them (services/scheduler.py).                                           *)
(*                                                                         *)
(* Each save is one transaction at read committed.  A row it has written is   *)
(* locked until its commit.                                                *)
(***************************************************************************)
EXTENDS FiniteSets, Naturals, Sequences

CONSTANTS
  Requests,     \* saves, each handled once
  Values,       \* what a setting may be set to
  Default,      \* what counts when there is no row
  Nothing,      \* no row
  MaxRestarts   \* bound: restarts of the process

ASSUME SettingsAssumption ==
  /\ Values # {} /\ Default \notin Values /\ Nothing \notin Values \cup {Default}
  /\ MaxRestarts \in Nat

\* The token, the project and the combinations are saved like these.
Schedule == {"time", "zone"}
Keys     == Schedule \cup {"mode", "cap", "prompt"}

VARIABLES
  row,       \* the committed value by key
  job,       \* the trigger of the daily fetch
  pc,        \* where a save is
  todo,      \* the settings it has still to write, in order
  op,        \* what it saves
  loaded,    \* the value of the row it loaded last
  pending,   \* what it has written and not committed
  config,    \* what its rescheduling has read
  restarts,
  disturbed, \* saves under way when another one committed (history variable)
  behind,    \* reschedulings under way when another save committed (history variable)
  stale      \* the trigger is one of those, or the default for want of an answer (history variable)

save == <<op, todo, loaded, pending>>
vars == <<row, job, pc, save, config, restarts, disturbed, behind, stale>>

-----------------------------------------------------------------------------

\* get_clarity_config.
Effective(k) == IF row[k] = Nothing THEN Default ELSE row[k]

\* What the scheduler's trigger is built from; stored values are valid ones.
Configured == [k \in Schedule |-> Effective(k)]
Fallback   == [k \in Schedule |-> Default]

Init ==
  /\ \E v \in {Nothing, CHOOSE v \in Values : TRUE} : row = [k \in Keys |-> v]
  /\ job = Configured
  /\ pc = [r \in Requests |-> "new"]
  /\ op = [r \in Requests |-> "none"] /\ todo = [r \in Requests |-> <<>>]
  /\ loaded = [r \in Requests |-> Nothing] /\ config = [r \in Requests |-> Fallback]
  /\ pending = [r \in Requests |-> <<>>]
  /\ restarts = 0 /\ disturbed = {} /\ behind = {} /\ stale = FALSE

Goto(r, where) == pc' = [pc EXCEPT ![r] = where]
Saving(q)       == pc[q] \in {"load", "write", "commit"}
Rescheduling(q) == pc[q] \in {"read time", "read zone", "apply"}

\* A save is planned as a sequence of settings and their new values.
Set(k, v) == [key |-> k, value |-> v]
Begin(r, o, sequence) ==
  /\ pc[r] = "new" /\ Goto(r, IF sequence = <<>> THEN "commit" ELSE "load")
  /\ op' = [op EXCEPT ![r] = o] /\ todo' = [todo EXCEPT ![r] = sequence]
  /\ UNCHANGED <<row, job, loaded, pending, config, restarts, disturbed, behind, stale>>

\* Mutant of SaveClarity: the settings are written in the order of the request.
SaveClarityInAnyOrder(r) ==
  \E time, zone \in Values : \E s \in {<<Set("zone", zone), Set("time", time)>>, <<Set("time", time), Set("zone", zone)>>} :
    Begin(r, "clarity", s)

\* update_settings writes what the request gives, the timezone first.
SaveClarity(r) ==
  \E time, zone \in Values \cup {Nothing} :
    Begin(r, "clarity",
             (IF zone = Nothing THEN <<>> ELSE <<Set("zone", zone)>>)
             \o (IF time = Nothing THEN <<>> ELSE <<Set("time", time)>>))

SaveAsk(r)     == \E mode, cap \in Values : Begin(r, "ask", <<Set("mode", mode), Set("cap", cap)>>)
SavePrompt(r)  == \E v \in Values : Begin(r, "prompt", <<Set("prompt", v)>>)
ResetPrompt(r) == Begin(r, "prompt", <<Set("prompt", Nothing)>>)

\* Whatever a handler raises rolls its transaction back.
Abort(r, where) ==
  /\ Goto(r, where) /\ pending' = [pending EXCEPT ![r] = <<>>]
  /\ todo' = [todo EXCEPT ![r] = <<>>] /\ loaded' = [loaded EXCEPT ![r] = Nothing]
  /\ op' = [op EXCEPT ![r] = "none"]
  /\ UNCHANGED <<row, job, config, restarts, disturbed, behind, stale>>

\* An unknown timezone, combinations that do not validate, a secret that cannot
\* be encrypted, found when the settings before it are already written.
Refuse(r) == pc[r] = "load" /\ op[r] = "clarity" /\ Abort(r, "refused")

\* get_setting.
Load(r) ==
  /\ pc[r] = "load" /\ Goto(r, "write")
  /\ loaded' = [loaded EXCEPT ![r] = row[todo[r][1].key]]
  /\ UNCHANGED <<row, job, op, todo, pending, config, restarts, disturbed, behind, stale>>

Locked(q)     == DOMAIN pending[q]
WaitsFor(r, q) == pc[r] = "write" /\ q # r /\ todo[r][1].key \in Locked(q) /\ loaded[r] # todo[r][1].value

Writes(r, new) ==
  /\ pending' = [pending EXCEPT ![r] = new]
  /\ todo' = [todo EXCEPT ![r] = Tail(@)]
  /\ Goto(r, IF Len(todo[r]) = 1 THEN "commit" ELSE "load")
  /\ loaded' = [loaded EXCEPT ![r] = Nothing]
  /\ UNCHANGED <<row, job, op, config, restarts, disturbed, behind, stale>>

\* set_setting and delete_setting flush: a row that was not there is inserted, one
\* whose value differs updated.  A row inserted or deleted meanwhile fails that;
\* deleting what is gone does nothing.
Write(r) ==
  LET s == todo[r][1]
  IN  /\ pc[r] = "write" /\ \A q \in Requests : ~WaitsFor(r, q)
      /\ IF s.value = loaded[r] \/ (s.value = Nothing /\ row[s.key] = Nothing) THEN Writes(r, pending[r])
         ELSE IF s.value # Nothing /\ (row[s.key] = Nothing) # (loaded[r] = Nothing) THEN Abort(r, "failed")
         ELSE Writes(r, [k \in Locked(r) \cup {s.key} |-> IF k = s.key THEN s.value ELSE pending[r][k]])

\* Mutant of Commit: the job is left as it was.
CommitOnly(r) ==
  /\ pc[r] = "commit" /\ Goto(r, "done")
  /\ row' = [k \in Keys |-> IF k \in Locked(r) THEN pending[r][k] ELSE row[k]]
  /\ pending' = [pending EXCEPT ![r] = <<>>] /\ op' = [op EXCEPT ![r] = "none"]
  /\ disturbed' = (disturbed \ {r}) \cup {q \in Requests \ {r} : Saving(q)}
  /\ behind' = behind \cup {q \in Requests : pc[q] \in {"read zone", "apply"}}
  /\ UNCHANGED <<job, todo, loaded, config, restarts, stale>>

\* The session commits; after PUT /clarity/settings the job is rescheduled.
Commit(r) ==
  /\ pc[r] = "commit" /\ Goto(r, IF op[r] = "clarity" THEN "read time" ELSE "done")
  /\ row' = [k \in Keys |-> IF k \in Locked(r) THEN pending[r][k] ELSE row[k]]
  /\ pending' = [pending EXCEPT ![r] = <<>>] /\ op' = [op EXCEPT ![r] = "none"]
  /\ disturbed' = (disturbed \ {r}) \cup {q \in Requests \ {r} : Saving(q)}
  /\ behind' = behind \cup {q \in Requests : pc[q] \in {"read zone", "apply"}}
  /\ UNCHANGED <<job, todo, loaded, config, restarts, stale>>

-----------------------------------------------------------------------------
(* reschedule_clarity_job.                                                 *)

\* Its own session reads the two settings one after the other.
Read(r, here, k, next) ==
  /\ pc[r] = here /\ Goto(r, next)
  /\ config' = [config EXCEPT ![r][k] = Effective(k)]
  /\ UNCHANGED <<row, job, save, restarts, disturbed, behind, stale>>
ReadTime(r) == Read(r, "read time", "time", "read zone")
ReadZone(r) == Read(r, "read zone", "zone", "apply")

\* The settings cannot be read: the default schedule is kept.
ReadFails(r) ==
  /\ pc[r] \in {"read time", "read zone"} /\ Goto(r, "apply")
  /\ config' = [config EXCEPT ![r] = Fallback] /\ behind' = behind \cup {r}
  /\ UNCHANGED <<row, job, save, restarts, disturbed, stale>>

\* add_job replaces the trigger.
Apply(r) ==
  /\ pc[r] = "apply" /\ Goto(r, "done")
  /\ job' = config[r] /\ stale' = (r \in behind)
  /\ config' = [config EXCEPT ![r] = Fallback] /\ behind' = behind \ {r}
  /\ UNCHANGED <<row, save, restarts, disturbed>>

\* The process stops and starts again: what was not committed is lost, and the
\* scheduler is set before any request is served.
Restart ==
  /\ restarts < MaxRestarts /\ restarts' = restarts + 1
  /\ pc' = [r \in Requests |-> IF Saving(r) \/ Rescheduling(r) THEN "lost" ELSE pc[r]]
  /\ pending' = [r \in Requests |-> <<>>] /\ todo' = pending'
  /\ loaded' = [r \in Requests |-> Nothing] /\ config' = [r \in Requests |-> Fallback]
  /\ behind' = {} /\ op' = [r \in Requests |-> "none"]
  /\ \E readable \in BOOLEAN : job' = (IF readable THEN Configured ELSE Fallback) /\ stale' = ~readable
  /\ UNCHANGED <<row, disturbed>>

-----------------------------------------------------------------------------

Step(r) ==
  \/ SaveClarity(r) \/ SaveAsk(r) \/ SavePrompt(r) \/ ResetPrompt(r)
  \/ Refuse(r) \/ Load(r) \/ Write(r) \/ Commit(r)
  \/ ReadTime(r) \/ ReadZone(r) \/ ReadFails(r) \/ Apply(r)

Over == (\A r \in Requests : ~Saving(r) /\ ~Rescheduling(r) /\ pc[r] # "new") /\ UNCHANGED vars

Next == (\E r \in Requests : Step(r)) \/ Restart \/ Over

Spec == Init /\ [][Next]_vars

-----------------------------------------------------------------------------
(* Properties.                                                             *)

TypeOK ==
  /\ row \in [Keys -> Values \cup {Nothing}]
  /\ job \in [Schedule -> Values \cup {Default}] /\ config \in [Requests -> [Schedule -> Values \cup {Default}]]
  /\ pc \in [Requests -> {"new", "load", "write", "commit", "read time", "read zone", "apply",
                          "done", "refused", "failed", "lost"}]
  /\ restarts \in 0..MaxRestarts /\ stale \in BOOLEAN

\* A setting has one writer at a time, and saves never wait for each other in a
\* circle: each handler writes its settings in one order (set_setting).
NoCircle ==
  \A r, q \in Requests : r # q => Locked(r) \cap Locked(q) = {} /\ ~(WaitsFor(r, q) /\ WaitsFor(q, r))

\* A save fails with a server error only when another one committed meanwhile.
FailuresAreRaces == \A r \in Requests : pc[r] = "failed" => r \in disturbed

SettingsInv == TypeOK /\ NoCircle /\ FailuresAreRaces

\* With no rescheduling under way the daily fetch is scheduled for the time and
\* zone saved, whatever saves overlapped or were lost with the process, unless the
\* settings could not be read or the last rescheduling read them before another
\* save committed (reschedule_clarity_job).
JobFollowsSettings == (\A r \in Requests : ~Rescheduling(r)) /\ ~stale => job = Configured

=============================================================================
