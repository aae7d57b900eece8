-------------------------------- MODULE AskRun --------------------------------
(***************************************************************************)
(* What the Ask endpoint promises about one run, whatever its tasks do: the *)
(* run's rows are saved at most once, the client is told one outcome, and   *)
(* the outcome agrees with what was saved.  A cancelled run may turn out to *)
(* be saved: the promise of routers/ask_ws.py, lines 20 to 22, is stronger  *)
(* than what the code can keep.                                            *)
(***************************************************************************)
VARIABLES
  open,    \* is the socket open?
  told,    \* the terminal event of the run, "none" before it
  saved    \* is the history row committed?

runVars == <<open, told, saved>>

Init == open = TRUE /\ told = "none" /\ saved = FALSE

Save ==
  /\ open /\ told = "none" /\ ~saved
  /\ saved' = TRUE
  /\ UNCHANGED <<open, told>>

Consistent(t) ==
  /\ t = "final_result" => saved
  /\ t = "error" => ~saved

Tell(t) ==
  /\ open /\ told = "none" /\ Consistent(t)
  /\ told' = t
  /\ UNCHANGED <<open, saved>>

Close ==
  /\ open /\ open' = FALSE
  /\ UNCHANGED <<told, saved>>

\* A client turned away before its run starts is told and closed at once.
TurnAway ==
  /\ open /\ told = "none" /\ ~saved
  /\ open' = FALSE /\ told' = "error"
  /\ UNCHANGED saved

Next ==
  \/ Save \/ Close \/ TurnAway
  \/ \E t \in {"final_result", "error", "cancelled"} : Tell(t)

\* The socket of a run is closed in the end.
Fairness == WF_runVars(Close \/ TurnAway)

Safety == Init /\ [][Next]_runVars
Spec   == Safety /\ Fairness

=============================================================================
