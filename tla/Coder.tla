-------------------------------- MODULE Coder --------------------------------
(***************************************************************************)
(* The coding loop of a build (agents/coder.py) with its recovery manager  *)
(* (services/recovery.py) and the processing after a session               *)
(* (agents/session.py), over several processes of one task.  A task works  *)
(* in the project itself or in a worktree.  In a worktree it has a copy of *)
(* the spec directory, which every start replaces by the project's one     *)
(* (core/workspace/setup.py) and the loop copies back at three places      *)
(* (agents/utils.py).                                                      *)
(*                                                                         *)
(* Subtasks are numbered in plan order.  A planner or coder session is an  *)
(* agent: its result is any the code can be given, and it marks the one    *)
(* subtask its prompt is about.  Commits are left out: whether there is a  *)
(* good one to roll back to is open.                                       *)
(***************************************************************************)
EXTENDS Integers, FiniteSets

CONSTANTS
  Last,                       \* number of subtasks
  PhaseOf,                    \* the phase of each subtask
  DependsOn,                  \* the phases each phase depends on
  MAX_SUBTASK_RETRIES,
  MAX_CONCURRENCY_RETRIES,
  MaxPlanningFailures,        \* max_planning_validation_retries
  MaxRuns,                    \* bound: processes of the task
  MaxResets,                  \* bound: calls of reset_subtask, for each subtask
  MaxPauses,                  \* bound: waits and immediate retries after rate limits
  MaxAgings                   \* bound: times the attempts leave the time window

Subtasks == 1..Last
Phases   == DOMAIN DependsOn

ASSUME CoderAssumption ==
  /\ Last \in Nat \ {0}
  /\ PhaseOf \in [Subtasks -> Phases]
  /\ DependsOn \in [Phases -> SUBSET Phases]
  /\ {MAX_SUBTASK_RETRIES, MaxPlanningFailures} \subseteq Nat \ {0}
  /\ {MAX_CONCURRENCY_RETRIES, MaxRuns, MaxResets, MaxPauses, MaxAgings} \subseteq Nat

VARIABLES
  isolated,    \* the task works in a worktree
  stage,       \* where the process is, "idle" when there is none
  cur,         \* next_subtask of the session, 0 for none
  is_planning_phase,
  planned,     \* implementation_plan.json has subtasks
  plan,        \* the status of each subtask
  outside,     \* subtasks with a path outside the project, which no repair moves
  attempts,    \* attempts of each subtask within ATTEMPT_WINDOW_SECONDS
  stuck,       \* stuck_subtasks of attempt_history.json
  source,      \* the spec directory of the project, for a task in a worktree
  failures,    \* planning_validation_failures
  conc,        \* consecutive_concurrency_errors
  result,      \* what the session just processed ended with
  runs, resets, pauses, agings

session == <<stage, cur, is_planning_phase, failures, conc, result>>
memory  == <<attempts, stuck>>
file    == <<planned, plan, outside>>
bounds  == <<runs, resets, pauses, agings>>
vars    == <<isolated, session, memory, file, source, bounds>>

Stage  == {"idle", "planning", "picking", "session", "judging", "rate_wait", "auth_wait"}
Status == {"pending", "in_progress", "completed", "failed"}

SpecDirectory == [planned : BOOLEAN, plan : [Subtasks -> Status], outside : SUBSET Subtasks,
                  attempts : [Subtasks -> Nat], stuck : SUBSET Subtasks]

\* The error types of run_agent_session.
Error   == {"tool_concurrency", "rate_limit", "authentication", "other"}
Failure == {"broken_build", "verification_failed", "circular_fix", "context_exhausted", "unknown"}

------------------------------------------------------------------------------
(* core/progress.py.                                                       *)

is_build_complete == planned /\ \A s \in Subtasks : plan[s] = "completed"

\* Fault: a subtask nobody will work on any more does not hold up its phase.
PhaseCompleteOrStuck(p) ==
  \A s \in Subtasks : PhaseOf[s] = p => plan[s] = "completed" \/ s \in stuck

PhaseComplete(p) == \A s \in Subtasks : PhaseOf[s] = p => plan[s] = "completed"

\* Fault: it does not look at the subtasks that are stuck.
AvailableOrStuck ==
  {s \in Subtasks : planned /\ plan[s] = "pending" /\ \A p \in DependsOn[PhaseOf[s]] : PhaseComplete(p)}

\* What get_next_subtask may return.
Available ==
  {s \in Subtasks : /\ planned /\ plan[s] = "pending" /\ s \notin stuck
                    /\ \A p \in DependsOn[PhaseOf[s]] : PhaseComplete(p)}

\* It goes through the phases in plan order.
IsNext(s) == s \in Available /\ \A t \in Available : s <= t

------------------------------------------------------------------------------
(* services/recovery.py.                                                   *)

record_attempt(s) == [attempts EXCEPT ![s] = @ + 1]

\* classify_failure: a session without an error has a message that matches no
\* pattern; only an error may repeat the approach of two attempts, however old.
Classes(err) ==
  IF err = "none" THEN {"unknown"}
  ELSE {c \in Failure : c = "circular_fix" => attempts[cur] >= 1 \/ agings > 0}

\* determine_recovery_action, n being the attempts with the present one.
Actions(class, n) ==
  CASE class = "broken_build"        -> {"rollback", "escalate"}
    [] class = "verification_failed" -> {IF n < 3 THEN "retry" ELSE "skip"}
    [] class = "circular_fix"        -> {"skip"}
    [] class = "context_exhausted"   -> {"continue"}
    [] class = "unknown"             -> {IF n < 2 THEN "retry" ELSE "escalate"}

\* reset_subtask: clears the attempts, and the mark too.
ResetSubtask(s) ==
  /\ resets[s] < MaxResets
  /\ attempts' = [attempts EXCEPT ![s] = 0]
  /\ stuck' = stuck \ {s}
  /\ resets' = [resets EXCEPT ![s] = @ + 1]

\* _execute_recovery_action, after the attempt was recorded.  A rollback moves
\* the branch only, and "continue" is no action it knows.
Recover(action) ==
  \/ action = "retry" /\ ResetSubtask(cur)
  \/ /\ action \in {"skip", "escalate"}
     /\ attempts' = record_attempt(cur) /\ stuck' = stuck \cup {cur} /\ UNCHANGED resets
  \/ /\ action \in {"rollback", "continue"}
     /\ attempts' = record_attempt(cur) /\ UNCHANGED <<stuck, resets>>

------------------------------------------------------------------------------
(* The two copies of the spec directory.                                   *)

Directory == [planned |-> planned, plan |-> plan, outside |-> outside,
              attempts |-> attempts, stuck |-> stuck]

\* Fault: nothing is copied before all subtasks are completed.
SyncsAtEnd == source' = IF isolated /\ is_build_complete THEN Directory ELSE source

\* sync_spec_to_source.
Syncs == source' = IF isolated THEN Directory ELSE source

------------------------------------------------------------------------------
(* The process.                                                            *)

To(next) ==
  /\ stage' = next /\ cur' = 0 /\ result' = "none"
  /\ UNCHANGED <<is_planning_phase, failures>>

Leaves ==
  /\ stage' = "idle" /\ cur' = 0 /\ result' = "none"
  /\ is_planning_phase' = FALSE /\ failures' = 0 /\ conc' = 0

\* Waits for the reset of a limit or for the user, or retries at once.
Pauses(next) == To(next) /\ pauses < MaxPauses /\ pauses' = pauses + 1

\* Fault: the reset goes by what is not pending.
UnstuckAll(p) == [s \in Subtasks |-> "pending"]

\* resetStuckSubtasks.
Unstuck(p) == [s \in Subtasks |-> IF p[s] \in {"in_progress", "failed"} THEN "pending" ELSE p[s]]

\* TASK_START, which resets stuck subtasks in the project's directory, or a
\* restart by the agent manager, which does not.  Then setup_workspace and a
\* new run_autonomous_agent.
Start ==
  /\ stage = "idle" /\ runs < MaxRuns /\ runs' = runs + 1
  /\ LET old == IF isolated THEN source ELSE Directory
     IN \E p \in {old.plan, Unstuck(old.plan)} :
          /\ plan' = p /\ planned' = old.planned /\ outside' = old.outside
          /\ attempts' = old.attempts /\ stuck' = old.stuck
          /\ source' = IF isolated THEN [source EXCEPT !.plan = p] ELSE source
          /\ stage' = IF old.planned THEN "picking" ELSE "planning"
          /\ is_planning_phase' = ~old.planned
  /\ UNCHANGED <<isolated, cur, result, failures, conc, resets, pauses, agings>>

\* A stop, a crash, a PAUSE file at the top of the loop.
Killed ==
  /\ stage # "idle"
  /\ Leaves
  /\ UNCHANGED <<isolated, file, memory, source, bounds>>

\* The planner is an agent too; nothing keeps an unvalidated plan from use.
PlannerWrites ==
  /\ stage = "planning"
  /\ planned' = TRUE /\ plan' = [s \in Subtasks |-> "pending"]
  /\ outside' \in SUBSET Subtasks
  /\ UNCHANGED <<isolated, session, memory, source, bounds>>

\* Its session ended well, and the plan is valid or could be fixed.
PlanValid ==
  /\ stage = "planning" /\ planned
  /\ Syncs
  /\ To("picking") /\ conc' = 0
  /\ UNCHANGED <<isolated, file, memory, bounds>>

PlanInvalid ==
  /\ stage = "planning"
  /\ IF failures + 1 >= MaxPlanningFailures THEN Leaves
     ELSE /\ failures' = failures + 1 /\ conc' = 0
          /\ UNCHANGED <<stage, cur, is_planning_phase, result>>
  /\ UNCHANGED <<isolated, file, memory, source, bounds>>

\* Fault: the planner is brought back without a look at the limit.
PlannerErrsForEver ==
  /\ stage = "planning"
  /\ conc' = conc + 1 /\ To("planning")
  /\ UNCHANGED <<isolated, file, memory, source, bounds>>

\* Only a concurrency error brings the planner back; after any other the loop
\* goes on to the subtasks of a plan that may not be there.
PlannerErrs ==
  /\ stage = "planning"
  /\ \/ /\ IF conc + 1 > MAX_CONCURRENCY_RETRIES THEN Leaves
           ELSE To("planning") /\ conc' = conc + 1
        /\ UNCHANGED pauses
     \/ \E next \in {"rate_wait", "auth_wait", "picking"} : Pauses(next) /\ conc' = 0
     \/ To("picking") /\ conc' = 0 /\ UNCHANGED pauses
     \/ Leaves /\ UNCHANGED pauses
  /\ UNCHANGED <<isolated, file, memory, source, runs, resets, agings>>

\* The first iteration after planning, however that ended.
Transition ==
  /\ stage = "picking" /\ is_planning_phase
  /\ is_planning_phase' = FALSE /\ Syncs
  /\ UNCHANGED <<isolated, stage, cur, failures, conc, result, file, memory, bounds>>

Picking == stage = "picking" /\ ~is_planning_phase

\* The loop ends, whatever the reason that there is nothing to do.
NothingToDo ==
  /\ Picking /\ Available = {}
  /\ Leaves
  /\ UNCHANGED <<isolated, file, memory, source, bounds>>

\* Fault: a failed validation is no attempt.
ValidationFailsForEver ==
  /\ Picking
  /\ \E s \in outside : IsNext(s)
  /\ UNCHANGED vars

\* validate_subtask_files fails: an attempt without a session.
ValidationFails ==
  /\ Picking
  /\ \E s \in outside :
       /\ IsNext(s)
       /\ attempts' = record_attempt(s)
       /\ stuck' = (IF attempts[s] + 1 >= MAX_SUBTASK_RETRIES THEN stuck \cup {s} ELSE stuck)
  /\ UNCHANGED <<isolated, session, file, source, bounds>>

SessionStarts ==
  /\ Picking
  /\ \E s \in Subtasks \ outside : IsNext(s) /\ cur' = s
  /\ stage' = "session"
  /\ UNCHANGED <<isolated, is_planning_phase, result, failures, conc, file, memory, source, bounds>>

\* update_subtask_status.
AgentMarks ==
  /\ stage = "session"
  /\ \E status \in Status \ {plan[cur]} : plan' = [plan EXCEPT ![cur] = status]
  /\ UNCHANGED <<isolated, session, planned, outside, memory, source, bounds>>

\* post_session_processing of a session that ended with err, in its branches.
\* (MaxPauses bounds the authentication errors.)
SessionEnds ==
  /\ stage = "session"
  /\ Syncs
  /\ \E err \in Error \cup {"none"} :
       /\ result' = err /\ (err = "authentication" => pauses < MaxPauses)
       /\ \/ /\ plan[cur] = "completed"
             /\ attempts' = record_attempt(cur) /\ UNCHANGED <<stuck, resets, plan>>
          \/ /\ plan[cur] = "in_progress" /\ err = "tool_concurrency"
             /\ ResetSubtask(cur) /\ plan' = [plan EXCEPT ![cur] = "pending"]
          \/ /\ plan[cur] # "completed" /\ (plan[cur] = "in_progress" => err # "tool_concurrency")
             /\ \E c \in Classes(err) : \E action \in Actions(c, attempts[cur] + 1) : Recover(action)
             /\ UNCHANGED plan
  /\ stage' = "judging"
  /\ UNCHANGED <<isolated, cur, is_planning_phase, failures, conc, planned, outside, runs, pauses, agings>>

\* Fault: one attempt too many.
MarkedLate ==
  stuck' = IF plan[cur] # "completed" /\ attempts[cur] > MAX_SUBTASK_RETRIES
           THEN stuck \cup {cur} ELSE stuck

\* Back in the loop, after the memory of the session was saved: the subtask is
\* marked if this was one attempt too many.
MarkedIfExhausted ==
  stuck' = IF plan[cur] # "completed" /\ attempts[cur] >= MAX_SUBTASK_RETRIES
           THEN stuck \cup {cur} ELSE stuck

\* The session itself went well.
GoesOn ==
  /\ stage = "judging" /\ result = "none"
  /\ MarkedIfExhausted
  /\ IF is_build_complete THEN Leaves ELSE To("picking") /\ conc' = 0
  /\ UNCHANGED <<isolated, attempts, file, source, bounds>>

\* Back off and retry, or give the subtask up and end.
ConcurrencyError ==
  /\ stage = "judging" /\ result = "tool_concurrency"
  /\ IF conc + 1 > MAX_CONCURRENCY_RETRIES
     THEN Leaves /\ stuck' = stuck \cup {cur}
     ELSE To("picking") /\ conc' = conc + 1 /\ MarkedIfExhausted
  /\ UNCHANGED <<isolated, attempts, file, source, bounds>>

\* The limit resets in the past, later, too late, or at a time nobody can read.
RateLimited ==
  /\ stage = "judging" /\ result = "rate_limit"
  /\ MarkedIfExhausted
  /\ \/ Leaves /\ UNCHANGED pauses
     \/ \E next \in {"picking", "rate_wait"} : Pauses(next) /\ conc' = 0
  /\ UNCHANGED <<isolated, attempts, file, source, runs, resets, agings>>

Unauthenticated ==
  /\ stage = "judging" /\ result = "authentication"
  /\ MarkedIfExhausted
  /\ Pauses("auth_wait") /\ conc' = 0
  /\ UNCHANGED <<isolated, attempts, file, source, runs, resets, agings>>

OtherError ==
  /\ stage = "judging" /\ result = "other"
  /\ MarkedIfExhausted
  /\ To("picking") /\ conc' = 0
  /\ UNCHANGED <<isolated, attempts, file, source, bounds>>

\* The time is over, the user resumes, or the AUTH_PAUSE file is removed.
WaitEnds ==
  /\ stage \in {"rate_wait", "auth_wait"}
  /\ To("picking")
  /\ UNCHANGED <<isolated, conc, file, memory, source, bounds>>

\* Attempts leave the window of get_attempt_count.  A loop of retries is over
\* long before; a wait or a session may last as long.
AttemptsAge ==
  /\ stage \in {"idle", "session", "rate_wait", "auth_wait"} /\ agings < MaxAgings
  /\ attempts' = [s \in Subtasks |-> 0] /\ source' = [source EXCEPT !.attempts = attempts']
  /\ agings' = agings + 1
  /\ UNCHANGED <<isolated, session, stuck, file, runs, resets, pauses>>

------------------------------------------------------------------------------
Init ==
  /\ isolated \in BOOLEAN
  /\ stage = "idle" /\ cur = 0 /\ is_planning_phase = FALSE /\ result = "none"
  /\ failures = 0 /\ conc = 0
  /\ planned = FALSE /\ plan = [s \in Subtasks |-> "pending"] /\ outside = {}
  /\ attempts = [s \in Subtasks |-> 0] /\ stuck = {} /\ source = Directory
  /\ runs = 0 /\ resets = [s \in Subtasks |-> 0] /\ pauses = 0 /\ agings = 0

Process ==
  \/ PlanValid \/ PlanInvalid \/ PlannerErrs \/ Transition
  \/ NothingToDo \/ ValidationFails \/ SessionStarts \/ SessionEnds
  \/ GoesOn \/ ConcurrencyError \/ RateLimited \/ Unauthenticated \/ OtherError \/ WaitEnds

Next == Start \/ Killed \/ PlannerWrites \/ AgentMarks \/ AttemptsAge \/ Process

Spec == Init /\ [][Next]_vars

\* An agent session ends, a wait times out, and the process goes on.
FairSpec == Spec /\ WF_vars(Process)

------------------------------------------------------------------------------
ProcessOK ==
  /\ stage \in Stage /\ cur \in 0..Last /\ result \in Error \cup {"none"}
  /\ stage \in {"session", "judging"} <=> cur # 0
  /\ is_planning_phase \in BOOLEAN
  /\ failures \in 0..(MaxPlanningFailures - 1) /\ conc \in 0..MAX_CONCURRENCY_RETRIES

DirectoryOK ==
  /\ isolated \in BOOLEAN /\ source \in SpecDirectory
  /\ planned \in BOOLEAN /\ plan \in [Subtasks -> Status] /\ outside \subseteq Subtasks
  /\ attempts \in [Subtasks -> Nat] /\ stuck \subseteq Subtasks

BoundsOK ==
  /\ runs \in 0..MaxRuns /\ pauses \in 0..MaxPauses /\ agings \in 0..MaxAgings
  /\ resets \in [Subtasks -> 0..MaxResets]

TypeOK == ProcessOK /\ DirectoryOK /\ BoundsOK

\* Across kills, resets, restarts and lost copies, no subtask is touched before
\* all subtasks of the phases its phase depends on were completed, and they
\* still are (get_next_subtask, resetStuckSubtasks and the copies together).
InOrder ==
  \A s, t \in Subtasks :
    PhaseOf[t] \in DependsOn[PhaseOf[s]] /\ plan[s] # "pending" => plan[t] = "completed"

\* The attempts at a subtask that is neither stuck nor done stay below the
\* limit, but for one for each process killed before it looked at the count:
\* record_attempt and mark_subtask_stuck are two writes, far apart.
AttemptsBounded ==
  \A s \in Subtasks \ stuck :
    \/ plan[s] = "completed" \/ (stage = "judging" /\ cur = s)
    \/ attempts[s] < MAX_SUBTASK_RETRIES + (IF stage = "idle" THEN runs ELSE runs - 1)

\* A mark as stuck is not taken back, although every retry of a subtask resets
\* its mark too; but a start in a worktree forgets the marks not copied back.
StuckIsFinal ==
  [][stuck \subseteq stuck' \/ (isolated /\ stage = "idle" /\ source.stuck \subseteq stuck')]_vars

\* A completed subtask is undone by the session that completed it, or by a
\* start in a worktree, whose copy of the plan was not saved any more.
CompletedKept ==
  [][\A s \in Subtasks :
       plan[s] = "completed" /\ plan'[s] # "completed" =>
         \/ stage = "session" /\ cur = s
         \/ stage = "idle" /\ isolated /\ source.plan[s] # "completed"]_vars

\* What such a start can undo is the work of the one session that was killed:
\* the project's plan is never more than one completed subtask behind.
OneSessionBehind ==
  isolated => Cardinality({s \in Subtasks : plan[s] = "completed" /\ source.plan[s] # "completed"}) <= 1

\* base.py promises that a subtask is marked as stuck after MAX_SUBTASK_RETRIES
\* attempts.  There is a failed attempt before every reset.
StuckInTime ==
  \A s \in Subtasks : resets[s] >= MAX_SUBTASK_RETRIES => s \in stuck \/ plan[s] = "completed"

\* Whatever the sessions end with, the process comes to an end: all that could
\* keep it in the loop for ever are resets by a retry and pauses.
LoopEnds == stage # "idle" ~> stage = "idle"

==============================================================================
