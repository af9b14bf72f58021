----------------------------- MODULE TaskMachine -----------------------------
(***************************************************************************)
(* The XState machine of one task, shared/state-machines/task-machine.ts,  *)
(* as a transition function: Step(m, e) is the machine after event e.      *)
(*                                                                         *)
(* A machine is its state value and its context's reviewReason.  An event  *)
(* is its type and the one datum a guard of the machine reads, as a flag:  *)
(*   PLANNING_COMPLETE   requireReviewBeforeCoding === true                *)
(*   USER_STOPPED        hasPlan !== false                                 *)
(*   PROCESS_EXITED      unexpected === true                               *)
(* The flag of every other event is unused.                                *)
(***************************************************************************)
EXTENDS Naturals

TASK_STATE_NAMES ==
  {"backlog", "planning", "plan_review", "coding", "qa_review", "qa_fixing",
   "human_review", "error", "creating_pr", "pr_created", "done"}

\* ReviewReason, with "none" for an undefined reviewReason.
ReviewReason ==
  {"none", "plan_review", "completed", "errors", "qa_rejected", "stopped"}

TaskEventType ==
  {"PLANNING_STARTED", "PLANNING_COMPLETE", "PLAN_APPROVED", "CODING_STARTED",
   "ALL_SUBTASKS_DONE", "QA_STARTED", "QA_PASSED", "QA_FAILED",
   "QA_FIXING_STARTED", "QA_FIXING_COMPLETE", "PLANNING_FAILED",
   "CODING_FAILED", "QA_MAX_ITERATIONS", "QA_AGENT_ERROR", "PROCESS_EXITED",
   "USER_STOPPED", "USER_RESUMED", "MARK_DONE", "CREATE_PR", "PR_CREATED"}

TaskEvent == [type : TaskEventType, flag : BOOLEAN]
Machine   == [state : TASK_STATE_NAMES, reason : ReviewReason]

\* States in which the backend is expected to be working on the task.
ActiveStates == {"planning", "coding", "qa_review", "qa_fixing"}

\* The final state: an actor that reached it ignores every later event.
FinalStates == {"done"}

------------------------------------------------------------------------------
(* Targets: Stay keeps the reason (a transition without an action), the    *)
(* others assign it.                                                       *)
To(s)      == [state |-> s, sets |-> FALSE, reason |-> "none"]
Set(s, r)  == [state |-> s, sets |-> TRUE, reason |-> r]
Clear(s)   == Set(s, "none")            \* clearReviewReason

Always(t)     == [f \in BOOLEAN |-> t]
If(yes, no)   == [f \in BOOLEAN |-> IF f THEN yes ELSE no]

\* PROCESS_EXITED is guarded by unexpectedExit: an expected exit moves nothing.
CrashFrom(s)  == If(Set("error", "errors"), To(s))
StopFrom      == Always(Set("human_review", "stopped"))
Completed     == Always(Set("human_review", "completed"))
Failed        == Always(Set("error", "errors"))

\* The "on" block of every state: On[s] is defined on the events s handles.
On ==
  [backlog      |-> [PLANNING_STARTED |-> Always(To("planning")),
                     CODING_STARTED   |-> Always(To("coding")),
                     USER_STOPPED     |-> Always(To("backlog"))],
   planning     |-> [PLANNING_COMPLETE |-> If(Set("plan_review", "plan_review"),
                                              Clear("coding")),
                     CODING_STARTED    |-> Always(Clear("coding")),
                     ALL_SUBTASKS_DONE |-> Always(To("qa_review")),
                     QA_STARTED        |-> Always(To("qa_review")),
                     QA_PASSED         |-> Completed,
                     PLANNING_FAILED   |-> Failed,
                     USER_STOPPED      |-> If(Set("human_review", "stopped"),
                                              Clear("backlog")),
                     PROCESS_EXITED    |-> CrashFrom("planning")],
   plan_review  |-> [PLAN_APPROVED  |-> Always(Clear("coding")),
                     USER_STOPPED   |-> Always(Clear("backlog")),
                     PROCESS_EXITED |-> CrashFrom("plan_review")],
   coding       |-> [QA_STARTED        |-> Always(To("qa_review")),
                     ALL_SUBTASKS_DONE |-> Always(To("qa_review")),
                     QA_PASSED         |-> Completed,
                     CODING_FAILED     |-> Failed,
                     USER_STOPPED      |-> StopFrom,
                     PROCESS_EXITED    |-> CrashFrom("coding")],
   qa_review    |-> [QA_FAILED         |-> Always(To("qa_fixing")),
                     QA_PASSED         |-> Completed,
                     QA_MAX_ITERATIONS |-> Failed,
                     QA_AGENT_ERROR    |-> Failed,
                     USER_STOPPED      |-> StopFrom,
                     PROCESS_EXITED    |-> CrashFrom("qa_review")],
   qa_fixing    |-> [QA_FIXING_COMPLETE |-> Always(To("qa_review")),
                     QA_FAILED          |-> Always(Set("human_review", "qa_rejected")),
                     QA_PASSED          |-> Completed,
                     QA_MAX_ITERATIONS  |-> Failed,
                     QA_AGENT_ERROR     |-> Failed,
                     USER_STOPPED       |-> StopFrom,
                     PROCESS_EXITED     |-> CrashFrom("qa_fixing")],
   human_review |-> [CREATE_PR        |-> Always(To("creating_pr")),
                     MARK_DONE        |-> Always(To("done")),
                     USER_RESUMED     |-> Always(Clear("coding")),
                     PLANNING_STARTED |-> Always(Clear("planning"))],
   error        |-> [USER_RESUMED     |-> Always(Clear("coding")),
                     PLANNING_STARTED |-> Always(Clear("planning")),
                     MARK_DONE        |-> Always(To("done"))],
   creating_pr  |-> [PR_CREATED |-> Always(To("pr_created"))],
   pr_created   |-> [MARK_DONE |-> Always(To("done"))],
   done         |-> << >>]

\* One event given to the machine; an event the state does not handle is
\* dropped.
Step(m, e) ==
  IF e.type \in DOMAIN On[m.state]
  THEN LET t == On[m.state][e.type][e.flag]
       IN  [state  |-> t.state,
            reason |-> IF t.sets THEN t.reason ELSE m.reason]
  ELSE m

==============================================================================
