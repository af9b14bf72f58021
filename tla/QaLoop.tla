------------------------------- MODULE QaLoop --------------------------------
(***************************************************************************)
(* The QA validation loop of the backend (qa/loop.py) on a task whose      *)
(* subtasks are all completed, with the two ways to enter it, the build    *)
(* command (cli/build_commands.py) and the --qa command                    *)
(* (cli/qa_commands.py), and the machine of the frontend (TaskMachine) as  *)
(* the receiver of its events.  Here no event is lost or late: that is     *)
(* the subject of TaskStateManager.                                        *)
(*                                                                         *)
(* The reviewer and the fixer are agents: a session of either may write    *)
(* any sign-off update_qa_status takes, once, a reviewer after "in_review" *)
(* too.  Issues are compared by identity where the code compares them by   *)
(* similarity.                                                             *)
(***************************************************************************)
EXTENDS TaskMachine, Integers

CONSTANTS
  Issues,                     \* what a reviewer may find
  MAX_QA_ITERATIONS,
  MAX_CONSECUTIVE_ERRORS,
  RECURRING_ISSUE_THRESHOLD,
  MaxRuns                     \* bound: processes started on the task

ASSUME QaAssumption ==
  /\ {MAX_QA_ITERATIONS, MAX_CONSECUTIVE_ERRORS} \subseteq Nat \ {0}
  /\ RECURRING_ISSUE_THRESHOLD \in Nat \ {0, 1}   \* an empty history recurs nowhere
  /\ MaxRuns \in Nat

VARIABLES
  stage,       \* where the process is, "idle" when there is none
  kind,        \* the command it runs
  iteration,   \* qa_iteration
  errors,      \* consecutive_errors
  signoff,     \* qa_signoff of implementation_plan.json
  seen,        \* qa_iteration_history: how often each issue was recorded
  request,     \* QA_FIX_REQUEST.md: who wrote it, or that it was answered
  machine,     \* the task's XState machine
  terminalEventSeen,
  signed,      \* the agent of this session signed off
  runs,        \* processes started so far
  handed       \* history: how often each issue was handed to the fixer

loop     == <<stage, kind, iteration, errors>>
disk     == <<signoff, seen, request, handed>>
frontend == <<machine, terminalEventSeen>>
vars     == <<loop, disk, frontend, signed, runs>>

Stage  == {"idle", "boot", "answering", "loop", "reviewing", "fixing"}
Kind   == {"build", "qa"}
\* "none" stands for "pending" as well.
Status == {"none", "in_review", "approved", "rejected", "fixes_applied"}
Completed_ == [state |-> "human_review", reason |-> "completed"]

Event(type) == [type |-> type, flag |-> FALSE]
Crashed     == [type |-> "PROCESS_EXITED", flag |-> TRUE]
Stopped     == [type |-> "USER_STOPPED", flag |-> TRUE]

\* Those of TERMINAL_EVENTS that the loop emits.
TERMINAL_EVENTS == {"QA_PASSED", "QA_MAX_ITERATIONS", "QA_AGENT_ERROR"}
Heard(types) ==
  terminalEventSeen' = IF types \cap TERMINAL_EVENTS = {} THEN terminalEventSeen ELSE TRUE

Emits(e)        == machine' = Step(machine, e) /\ Heard({e.type})
EmitsBoth(e, f) == machine' = Step(Step(machine, e), f) /\ Heard({e.type, f.type})

\* handleProcessExited with a code other than 0: after a terminal event of the
\* same process nobody hears of it.
Exits ==
  /\ machine' = IF terminalEventSeen THEN machine ELSE Step(machine, Crashed)
  /\ UNCHANGED terminalEventSeen

\* The user's event, with prepareForRestart.
Tells(e) == machine' = Step(machine, e) /\ terminalEventSeen' = FALSE

\* The loop returns False, or the build goes on to exit 0 whatever it returned.
Returns == stage' = "idle" /\ UNCHANGED <<kind, iteration, errors, runs>>

------------------------------------------------------------------------------
(* The user.                                                               *)

\* TASK_REVIEW with feedback, for a task in review.
RejectReview ==
  /\ stage = "idle" /\ machine.state \in {"human_review", "error"} /\ runs < MaxRuns
  /\ request' = "human"
  /\ Tells(Event("USER_RESUMED"))
  /\ stage' = "boot" /\ kind' = "qa" /\ runs' = runs + 1
  /\ UNCHANGED <<iteration, errors, signoff, seen, signed, handed>>

\* TASK_START: the coder has nothing left to do.
Resume ==
  /\ stage = "idle" /\ machine.state \in {"human_review", "error"} /\ runs < MaxRuns
  /\ Tells(Event("USER_RESUMED"))
  /\ stage' = "boot" /\ kind' = "build" /\ runs' = runs + 1
  /\ UNCHANGED <<iteration, errors, disk, signed>>

\* TASK_STOP, also for a task that only looks at work.
Stop ==
  /\ stage # "idle" \/ machine.state \in ActiveStates
  /\ Returns /\ Tells(Stopped)
  /\ UNCHANGED <<disk, signed>>

Crash ==
  /\ stage # "idle"
  /\ Returns /\ Exits
  /\ UNCHANGED <<disk, signed>>

------------------------------------------------------------------------------
(* Entering the loop.                                                      *)

\* should_run_qa; --qa also runs for feedback on an approved build.
RunsQa == signoff.status # "approved" \/ (kind = "qa" /\ request # "none")

\* Fault: the verdict found in the plan is reported again.
PassesAgain ==
  /\ stage = "boot" /\ ~RunsQa
  /\ Returns /\ EmitsBoth(Event("QA_STARTED"), Event("QA_PASSED"))
  /\ UNCHANGED <<disk, signed>>

SkipsQa ==
  /\ stage = "boot" /\ ~RunsQa
  /\ Returns /\ UNCHANGED frontend
  /\ UNCHANGED <<disk, signed>>

\* Fault: the loop is entered with the fix request of the user still unread.
StartsReviewAnyway ==
  /\ stage = "boot" /\ RunsQa
  /\ Emits(Event("QA_STARTED"))
  /\ stage' = "loop" /\ iteration' = signoff.session /\ errors' = 0
  /\ UNCHANGED <<kind, runs, disk, signed>>

\* qa_iteration starts at the session count on disk.
EntersLoop ==
  /\ stage' = "loop" /\ iteration' = signoff'.session /\ errors' = 0
  /\ UNCHANGED <<kind, runs>>

StartsReview ==
  /\ stage = "boot" /\ RunsQa /\ request = "none"
  /\ Emits(Event("QA_STARTED"))
  /\ UNCHANGED disk /\ EntersLoop
  /\ UNCHANGED signed

\* Fault: the fix request is removed as soon as it is read.
StartsAnsweringOnce ==
  /\ stage = "boot" /\ RunsQa /\ request # "none"
  /\ request' = "none"
  /\ EmitsBoth(Event("QA_STARTED"), Event("QA_FIXING_STARTED"))
  /\ stage' = "answering" /\ signed' = FALSE
  /\ UNCHANGED <<kind, iteration, errors, signoff, seen, runs, handed>>

StartsAnswering ==
  /\ stage = "boot" /\ RunsQa /\ request # "none"
  /\ EmitsBoth(Event("QA_STARTED"), Event("QA_FIXING_STARTED"))
  /\ stage' = "answering" /\ signed' = FALSE
  /\ UNCHANGED <<kind, iteration, errors, disk, runs>>

\* "in_review" and "rejected" count as a session.
UpdateQaStatus(status, found) ==
  signoff' = [status  |-> status,
              session |-> IF status \in {"in_review", "rejected"}
                          THEN signoff.session + 1 ELSE signoff.session,
              issues  |-> found]

SignsOff ==
  /\ ~signed /\ signed' = TRUE
  /\ \/ \E status \in Status \ {"rejected"} : UpdateQaStatus(status, {})
     \/ \E found \in SUBSET Issues : UpdateQaStatus("rejected", found)

\* The fixer calls update_qa_status while the request it works on still lies
\* there: its session may yet fail, be stopped or crash.
FixerSignsOff ==
  /\ stage \in {"answering", "fixing"}
  /\ SignsOff
  /\ UNCHANGED <<loop, seen, request, frontend, runs, handed>>

\* The session is over; the file may fail to be removed.
Answered ==
  /\ stage = "answering"
  /\ request' \in {"none", "answered"}
  /\ Emits(Event("QA_FIXING_COMPLETE"))
  /\ UNCHANGED <<signoff, seen, handed>> /\ EntersLoop
  /\ UNCHANGED signed

\* The feedback survives a transient error.  QA_FIXING_FAILED means nothing to
\* the machine; the --qa command exits 1, the build command 0.
NotAnswered ==
  /\ stage = "answering"
  /\ request' \in {request, "none"}
  /\ Returns
  /\ IF kind = "qa" THEN Exits ELSE UNCHANGED frontend
  /\ UNCHANGED <<signoff, seen, signed, handed>>

------------------------------------------------------------------------------
(* An iteration.                                                           *)

\* Fault: the iteration count is that of the sessions on disk.
NextSession ==
  /\ stage = "loop" /\ iteration < MAX_QA_ITERATIONS
  /\ iteration' = signoff.session
  /\ stage' = "reviewing" /\ signed' = FALSE
  /\ UNCHANGED <<kind, errors, disk, frontend, runs>>

NextIteration ==
  /\ stage = "loop" /\ iteration < MAX_QA_ITERATIONS
  /\ iteration' = iteration + 1
  /\ stage' = "reviewing" /\ signed' = FALSE
  /\ UNCHANGED <<kind, errors, disk, frontend, runs>>

NoIterationLeft ==
  /\ stage = "loop" /\ iteration >= MAX_QA_ITERATIONS
  /\ Returns /\ Emits(Event("QA_MAX_ITERATIONS"))
  /\ UNCHANGED <<disk, signed>>

\* The reviewer calls update_qa_status.  With its verdict it is asked to write
\* QA_FIX_REQUEST.md.
ReviewerSignsOff ==
  /\ stage = "reviewing" /\ ~signed
  /\ \/ /\ signoff.status # "in_review"
        /\ UpdateQaStatus("in_review", {})
        /\ UNCHANGED <<request, signed>>
     \/ SignsOff /\ request' \in {request, "qa"}
  /\ UNCHANGED <<loop, seen, frontend, runs, handed>>

\* run_qa_agent_session returns what the plan file says, not what was signed.
Approves ==
  /\ stage = "reviewing" /\ signoff.status = "approved"
  /\ Returns /\ Emits(Event("QA_PASSED"))
  /\ UNCHANGED <<disk, signed>>

\* Fault: the current occurrence is not counted.
RecurredBefore == \E i \in signoff.issues : seen[i] >= RECURRING_ISSUE_THRESHOLD

Recurring == \E i \in signoff.issues : seen[i] + 1 >= RECURRING_ISSUE_THRESHOLD

\* Fault: the record of an iteration replaces the history.
RecordedAfresh == [i \in signoff.issues |-> 1]

Counted(f) == [i \in Issues |-> IF i \in signoff.issues THEN f[i] + 1 ELSE f[i]]
Recorded   == Counted(seen)

Rejects ==
  /\ stage = "reviewing" /\ signoff.status = "rejected"
  /\ ~Recurring /\ iteration < MAX_QA_ITERATIONS
  /\ seen' = Recorded /\ handed' = Counted(handed)
  /\ EmitsBoth(Event("QA_FAILED"), Event("QA_FIXING_STARTED"))
  /\ stage' = "fixing" /\ errors' = 0 /\ signed' = FALSE
  /\ UNCHANGED <<kind, iteration, signoff, request, runs>>

Escalates ==
  /\ stage = "reviewing" /\ signoff.status = "rejected"
  /\ Recurring \/ iteration >= MAX_QA_ITERATIONS
  /\ seen' = Recorded
  /\ Returns /\ EmitsBoth(Event("QA_FAILED"), Event("QA_MAX_ITERATIONS"))
  /\ UNCHANGED <<signoff, request, signed, handed>>

Fixes ==
  /\ stage = "fixing" /\ request # "none"
  /\ Emits(Event("QA_FIXING_COMPLETE"))
  /\ stage' = "loop"
  /\ UNCHANGED <<kind, iteration, errors, disk, signed, runs>>

\* Fault: a fixer error is only reported, not told to the frontend.
FixerErrsSilently ==
  /\ stage = "fixing"
  /\ Returns /\ UNCHANGED frontend
  /\ UNCHANGED <<disk, signed>>

\* The session failed, or there is no fix request to read.
FixerErrs ==
  /\ stage = "fixing"
  /\ Returns /\ Emits(Event("QA_MAX_ITERATIONS"))
  /\ UNCHANGED <<disk, signed>>

\* The session failed, or the plan holds no verdict.
ReviewerErrs ==
  /\ stage = "reviewing"
  /\ errors + 1 < MAX_CONSECUTIVE_ERRORS
  /\ errors' = errors + 1
  /\ stage' = "loop"
  /\ UNCHANGED <<kind, iteration, disk, frontend, signed, runs>>

GivesUp ==
  /\ stage = "reviewing"
  /\ errors + 1 >= MAX_CONSECUTIVE_ERRORS
  /\ Returns /\ Emits(Event("QA_AGENT_ERROR"))
  /\ UNCHANGED <<disk, signed>>

------------------------------------------------------------------------------
\* A build whose last subtask was just completed.  If the same process wrote the
\* plan, its PLANNING_COMPLETE was a terminal event.
Init ==
  /\ stage = "boot" /\ kind = "build" /\ iteration = 0 /\ errors = 0
  /\ signoff = [status |-> "none", session |-> 0, issues |-> {}]
  /\ seen = [i \in Issues |-> 0] /\ request = "none"
  /\ machine = [state |-> "coding", reason |-> "none"]
  /\ terminalEventSeen \in BOOLEAN
  /\ signed = FALSE /\ runs = 1 /\ handed = [i \in Issues |-> 0]

User == RejectReview \/ Resume \/ Stop

\* Steps of the process; what its agents sign they may sign or not.
Process ==
  \/ SkipsQa \/ StartsReview \/ StartsAnswering \/ Answered \/ NotAnswered
  \/ NextIteration \/ NoIterationLeft
  \/ Approves \/ Rejects \/ Escalates \/ Fixes \/ FixerErrs \/ ReviewerErrs \/ GivesUp

Next == User \/ Crash \/ ReviewerSignsOff \/ FixerSignsOff \/ Process

Spec == Init /\ [][Next]_vars

\* An agent session ends and the process goes on.
FairSpec == Spec /\ WF_vars(Process)

------------------------------------------------------------------------------
(* Properties.                                                             *)

\* Every variable holds a value of its type.
TypeOK ==
  /\ stage \in Stage /\ kind \in Kind /\ iteration \in Nat /\ errors \in Nat
  /\ signoff \in [status : Status, session : Nat, issues : SUBSET Issues]
  /\ seen \in [Issues -> Nat] /\ request \in {"none", "human", "qa", "answered"}
  /\ machine \in Machine /\ terminalEventSeen \in BOOLEAN
  /\ signed \in BOOLEAN /\ runs \in Nat /\ handed \in [Issues -> Nat]

\* A task is shown as completed only while the plan carries an approval and no
\* feedback of the user is left unanswered.
CompletedIsSigned ==
  machine = Completed_ => signoff.status = "approved" /\ request # "human"

\* No issue is handed to the fixer as often as the recurring threshold: by then
\* it is escalated, over all runs on the task and whoever recorded it.
RecurringIsEscalated == \A i \in Issues : handed[i] < RECURRING_ISSUE_THRESHOLD

\* The feedback of the user is kept until a fixer worked on it: killing,
\* crashing and restarting the process in between does not lose it.
FeedbackKept ==
  [][request = "human" /\ request' # "human" => stage = "answering"]_vars

\* A process that entered the review loop leaves the task out of the states in
\* which a process is expected to work on it, however it ends; only the exit of
\* one that also wrote the plan may go unheard, and leave the task as it was.
LoopSettles ==
  [][(stage \in {"loop", "reviewing", "fixing"} /\ stage' = "idle")
     => \/ machine'.state \notin ActiveStates
        \/ terminalEventSeen /\ machine' = machine]_vars

Contract == INSTANCE ReviewContract WITH
  working   <- stage # "idle",
  completed <- machine = Completed_,
  approved  <- signoff.status = "approved",
  feedback  <- request = "human"

\* The loop, whichever of its many ways it takes, does what ReviewContract
\* says: it completes with an approval and no feedback left, keeps feedback
\* until it was worked on, and leaves a task at rest its verdict.
ImplementsContract == Contract!Spec

\* Every process ends: neither rejections nor errors of the agents go on for
\* ever.
ProcessEnds == stage # "idle" ~> stage = "idle"

\* "Test error status when agent doesn't update signoff": a task becomes
\* completed only by a verdict of the session that just ended.
ApprovalIsFresh ==
  [][machine # Completed_ /\ machine' = Completed_ => signed]_vars

==============================================================================
