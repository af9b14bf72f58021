--------------------------- MODULE ReviewContract ----------------------------
(***************************************************************************)
(* What a user may rely on while the backend validates a task, without     *)
(* iterations, agents, events or files: the task is at work or at rest; it *)
(* comes to rest as completed only with an approval in its plan and no     *)
(* feedback waiting; whatever happens to the approval happens at work, so  *)
(* one found on a task at rest stays; feedback comes from the user alone,  *)
(* and is gone only when the work on it ended.                             *)
(***************************************************************************)
VARIABLES
  working,     \* a process works on the task
  completed,   \* the task is shown as completed
  approved,    \* its plan carries an approval
  feedback     \* feedback of the user waits for an answer

vars == <<working, completed, approved, feedback>>

Init == working = TRUE /\ completed = FALSE /\ approved = FALSE /\ feedback = FALSE

\* The user asks for more work, with feedback or without.
Ask ==
  /\ ~working
  /\ working' = TRUE /\ completed' = FALSE
  /\ feedback' \in {feedback, TRUE}
  /\ UNCHANGED approved

\* An agent signs.  It may do so before the feedback it works on counts as
\* answered, so an approval comes and goes with feedback waiting, too.
Review ==
  /\ working
  /\ approved' \in BOOLEAN
  /\ UNCHANGED <<working, completed, feedback>>

Answer ==
  /\ working /\ feedback
  /\ feedback' = FALSE
  /\ UNCHANGED <<working, completed, approved>>

Complete ==
  /\ working /\ approved /\ ~feedback
  /\ working' = FALSE /\ completed' = TRUE
  /\ UNCHANGED <<approved, feedback>>

\* The work ends without a verdict; a failed answer may use the feedback up.
GiveUp ==
  /\ working
  /\ working' = FALSE /\ feedback' \in {feedback, FALSE}
  /\ UNCHANGED <<completed, approved>>

Next == Ask \/ Review \/ Answer \/ Complete \/ GiveUp

Spec == Init /\ [][Next]_vars

==============================================================================
