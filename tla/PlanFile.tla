------------------------------- MODULE PlanFile -------------------------------
(***************************************************************************)
(* implementation_plan.json as the frontend and the backend share it: the  *)
(* fields the frontend restores a task from, what each writer does to      *)
(* them (ipc-handlers/task/plan-file-utils.ts, project-store.ts, the       *)
(* planner agent) and how a task and a machine are rebuilt from them       *)
(* (project-store.ts, task-state-manager.ts).                              *)
(*                                                                         *)
(* "none" stands for an absent field.  The subtasks of the plan are        *)
(* abstracted to none / some still to do / all completed.                  *)
(***************************************************************************)
EXTENDS TaskMachine, Integers

TaskStatus == {"backlog", "queue", "in_progress", "ai_review", "human_review",
               "done", "pr_created", "error"}

ExecutionPhase == {"idle", "planning", "coding", "qa_review", "qa_fixing",
                   "complete", "failed"}

NoSeq == -1                    \* no lastEvent.sequence

Plan == [exists   : BOOLEAN,
         status   : TaskStatus \union {"none"},
         reason   : ReviewReason,
         xstate   : TASK_STATE_NAMES \union {"none"},
         phase    : ExecutionPhase \union {"none"},
         seq      : Nat \union {NoSeq},
         subtasks : {"none", "todo", "done"}]

NoPlan == [exists |-> FALSE, status |-> "none", reason |-> "none",
           xstate |-> "none", phase |-> "none", seq |-> NoSeq,
           subtasks |-> "none"]

HasSubtasks(plan) == plan.subtasks # "none"

------------------------------------------------------------------------------
(* XState state -> legacy status, review reason and execution phase.       *)

\* Fault: the state is persisted unmapped.
LegacyStatusUnmapped(state) == state

LegacyStatus(state) ==
  CASE state \in {"planning", "coding"}                  -> "in_progress"
    [] state \in {"qa_review", "qa_fixing"}              -> "ai_review"
    [] state \in {"plan_review", "human_review", "error", "creating_pr"}
                                                         -> "human_review"
    [] state \in {"backlog", "pr_created", "done"}       -> state

LegacyReason(state, reason) ==
  CASE state = "plan_review"  -> "plan_review"
    [] state = "human_review" -> IF reason = "none" THEN "completed" ELSE reason
    [] state = "error"        -> "errors"
    [] state = "creating_pr"  -> "completed"
    [] OTHER                  -> "none"

XSTATE_SETTLED_STATES ==
  {"plan_review", "human_review", "error", "creating_pr", "pr_created", "done"}

XSTATE_TO_PHASE ==
  [backlog      |-> "idle",      planning    |-> "planning",
   plan_review  |-> "planning",  coding      |-> "coding",
   qa_review    |-> "qa_review", qa_fixing   |-> "qa_fixing",
   human_review |-> "complete",  error       |-> "failed",
   creating_pr  |-> "complete",  pr_created  |-> "complete",
   done         |-> "complete"]

------------------------------------------------------------------------------
(* Writers of the frontend.                                                *)

\* persistPlanStatusAndReasonSync: creates a minimal plan when there is none.
PersistStatusAndReason(plan, status, reason, xstate, phase) ==
  [plan EXCEPT !.exists = TRUE, !.status = status, !.reason = reason,
               !.xstate = xstate, !.phase = phase]

\* What TaskStateManager's subscriber persists of a machine.
StampMachine(plan, m) ==
  PersistStatusAndReason(plan, LegacyStatus(m.state),
                         LegacyReason(m.state, m.reason), m.state,
                         XSTATE_TO_PHASE[m.state])

\* persistPlanPhaseSync: the phase and the status it maps to; the reason, the
\* XState state and lastEvent stay as they were.
PHASE_TO_STATUS(phase, status) ==
  CASE phase \in {"planning", "coding"}     -> "in_progress"
    [] phase \in {"qa_review", "qa_fixing"} -> "ai_review"
    [] phase = "complete"                   -> "human_review"
    [] phase = "failed"                     -> "error"
    [] OTHER                                -> status

PersistPhase(plan, phase) ==
  [plan EXCEPT !.exists = TRUE, !.phase = phase,
               !.status = PHASE_TO_STATUS(phase, plan.status)]

\* persistPlanLastEventSync: nothing without a plan file.
PersistLastEvent(plan, seq) ==
  IF plan.exists THEN [plan EXCEPT !.seq = seq] ELSE plan

\* persistPlanStatus, or createPlanIfNotExists when it found no file.
PersistStatus(plan, status) ==
  IF plan.exists THEN [plan EXCEPT !.status = status]
                 ELSE [NoPlan EXCEPT !.exists = TRUE, !.status = status]

------------------------------------------------------------------------------
(* Writers of the backend.                                                 *)

\* The planner agent replaces the whole file: the fields of the frontend
\* and lastEvent are gone, the subtasks are there.
PlannerOverwrites(plan) ==
  [NoPlan EXCEPT !.exists = TRUE, !.subtasks = "todo"]

\* The coder's update_subtask_status edits the JSON in place.
CompleteSubtasks(plan) == [plan EXCEPT !.subtasks = "done"]

------------------------------------------------------------------------------
(* Reading a task back.                                                    *)

Task == [status : TaskStatus, reason : ReviewReason,
         phase : ExecutionPhase \union {"none"}]

\* correctStaleTaskStatus, for a plan not written in the last 30 seconds.
IsStale(plan) ==
  plan.subtasks = "done" /\ plan.status \in {"none", "backlog", "queue", "in_progress"}

CorrectStale(plan) ==
  [plan EXCEPT !.status = "human_review", !.reason = "completed",
               !.xstate = "human_review", !.phase = "complete"]

\* inferExecutionProgress, for a plan with neither phase nor XState state.
InferPhase(status) ==
  CASE status = "none"                    -> "none"
    [] status \in {"backlog", "queue"}    -> "idle"
    [] status = "in_progress"             -> "coding"
    [] status = "ai_review"               -> "qa_review"
    [] status \in {"human_review", "done"} -> "complete"
    [] status = "error"                   -> "failed"
    [] OTHER                              -> "none"

PhaseOf(plan) ==
  IF plan.phase # "none" THEN plan.phase
  ELSE IF plan.xstate # "none" THEN XSTATE_TO_PHASE[plan.xstate]
  ELSE InferPhase(plan.status)

\* determineTaskStatusAndReason and the execution progress of loadTasksFromSpecsDir.
TaskOf(plan) ==
  [status |-> IF plan.status = "none" THEN "backlog" ELSE plan.status,
   reason |-> IF plan.status = "human_review" THEN plan.reason ELSE "none",
   phase  |-> PhaseOf(plan)]

\* Fault: every task in human_review is restored alike.
SnapshotWithoutReview(task) ==
  [state  |-> IF task.status = "human_review" THEN "human_review" ELSE "backlog",
   reason |-> task.reason]

\* buildSnapshotFromTask: the machine an actor is created with.
SnapshotOf(task) ==
  CASE task.status = "in_progress" ->
         [state  |-> IF task.phase \in {"planning", "qa_review", "qa_fixing"}
                     THEN task.phase ELSE "coding",
          reason |-> "none"]
    [] task.status = "ai_review"    -> [state |-> "qa_review", reason |-> "none"]
    [] task.status = "human_review" ->
         [state  |-> IF task.reason = "plan_review"
                     THEN "plan_review" ELSE "human_review",
          reason |-> task.reason]
    [] task.status \in {"pr_created", "done"} ->
         [state |-> task.status, reason |-> "none"]
    [] task.status = "error" ->
         [state  |-> "error",
          reason |-> IF task.reason = "none" THEN "errors" ELSE task.reason]
    [] OTHER -> [state |-> "backlog", reason |-> "none"]

Restored(plan) == SnapshotOf(TaskOf(plan))

==============================================================================
