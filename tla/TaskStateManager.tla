--------------------------- MODULE TaskStateManager ---------------------------
(***************************************************************************)
(* One task of the Electron frontend in direct mode (no worktree):         *)
(*   - its XState actor and the tracking state of TaskStateManager         *)
(*     (main/task-state-manager.ts);                                       *)
(*   - the handlers that drive it: the user's (ipc-handlers/task/          *)
(*     execution-handlers.ts) and the backend's (ipc-handlers/             *)
(*     agent-events-handlers.ts, agent/agent-process.ts);                  *)
(*   - implementation_plan.json, shared with the backend (PlanFile);       *)
(*   - the Python runs of the task: what each prints on its pipe           *)
(*     (__TASK_EVENT__ and __EXEC_PHASE__ lines), what it writes to the    *)
(*     plan, and how it ends.                                              *)
(*                                                                         *)
(* A handler runs to its next await without interruption, so it is one     *)
(* step.  Runs, user and frontend interleave.  What a run printed may be   *)
(* read after its exit was reported and after it was killed.               *)
(***************************************************************************)
EXTENDS PlanFile, Sequences

CONSTANTS
  MaxRuns,      \* bound: processes started for the task
  MaxUser,      \* bound: steps of the user
  MaxReload,    \* bound: refreshes and restarts of the application
  MaxSeq,       \* bound: event sequence number at which a run stops rejecting
  MaxPipe,      \* bound: unread lines of a run
  ReviewModes,  \* the values of requireReviewBeforeCoding to consider
  SwapModes     \* the values of autoSwap to consider

ASSUME BoundsAssumption ==
  /\ {MaxRuns, MaxUser, MaxReload, MaxSeq} \subseteq Nat
  /\ MaxPipe \in Nat /\ MaxPipe >= 3
  /\ ReviewModes \subseteq BOOLEAN /\ SwapModes \subseteq BOOLEAN

VARIABLES
  actor,          \* actors and lastStateByTask: the machine, or NoActor
  lastSeq,        \* lastSequenceByTask
  terminalSeen,   \* terminalEventSeen
  plan,           \* implementation_plan.json
  hasSpec,        \* spec.md exists
  requireReview,  \* task_metadata.json: requireReviewBeforeCoding
  autoSwap,       \* a rate-limited run may be restarted on another profile
  starting,       \* a start between its UI event and the spawn of its process
  run,            \* the runs, in the order they were spawned
  tracked,        \* the run in AgentState.processes, 0 for none
  killed,         \* runs marked by markSpawnAsKilled
  users, reloads  \* steps of the user, reloads so far

manager  == <<actor, lastSeq, terminalSeen>>
settings == <<requireReview, autoSwap>>
disk     == <<plan, hasSpec, settings>>
procs    == <<starting, run, tracked, killed>>
budget   == <<users, reloads>>
vars     == <<manager, disk, procs, budget>>

NoActor == [state |-> "none", reason |-> "none"]

Kind  == {"spec", "build", "qa"}
Stage == {"boot", "planning", "specced", "written", "buildboot", "buildplan",
          "coding", "qaboot", "feedback", "answering", "review", "fixing",
          "killed", "ended", "reaped"}

PhaseLine(p)       == [type |-> "PHASE", phase |-> p, flag |-> FALSE, seq |-> 0]
EventLine(e, f, n) == [type |-> e, phase |-> "none", flag |-> f, seq |-> n]

Line == [type : TaskEventType \union {"PHASE"},
         phase : ExecutionPhase \union {"none"}, flag : BOOLEAN, seq : Nat]

Run == [kind : Kind, stage : Stage, code : {"none", "ok", "fail"},
        seq : Nat, pipe : Seq(Line), phase : ExecutionPhase]

Runs     == 1 .. Len(run)
Alive(r) == run[r].stage \notin {"ended", "reaped"}

\* A run whose exit was handled: its emitter, exit code and currentPhase are
\* of no use any more, only what is left on its pipe.
Reaped(r) == [run[r] EXCEPT !.stage = "reaped", !.code = "none", !.seq = 0,
                            !.phase = "idle"]

\* A run goes on until SIGTERM reached it; then its exit is all it has to come.
Works(r) == Alive(r) /\ run[r].stage # "killed"

TERMINAL_EVENTS ==
  {"QA_PASSED", "PLANNING_COMPLETE", "PLANNING_FAILED", "CODING_FAILED",
   "QA_MAX_ITERATIONS", "QA_AGENT_ERROR", "ALL_SUBTASKS_DONE"}

------------------------------------------------------------------------------
(* TaskStateManager.                                                       *)

\* getOrCreateActor: a new actor starts where the plan file says, and
\* persists that at once.
Actor(a, p)       == IF a = NoActor THEN Restored(p) ELSE a
CreatedPlan(a, p) == IF a = NoActor THEN StampMachine(p, Restored(p)) ELSE p

\* Fault: the machine is persisted before the event is given to it.
SendStampedTooEarly(e) ==
  /\ actor' = Step(Actor(actor, plan), e)
  /\ plan'  = StampMachine(plan, Actor(actor, plan))

\* actor.send: the subscriber persists a machine whose state changed.
Send(e) ==
  LET before == Actor(actor, plan)
      after  == Step(before, e)
      p      == CreatedPlan(actor, plan)
  IN  /\ actor' = after
      /\ plan'  = IF after.state # before.state THEN StampMachine(p, after) ELSE p

Event(type)         == [type |-> type, flag |-> FALSE]
FlagEvent(type, f)  == [type |-> type, flag |-> f]

\* Fault: every failure code counts as a crash, whatever the run announced.
ProcessExitedAlways(p, unexpected) ==
  /\ actor' = Step(Actor(actor, p), FlagEvent("PROCESS_EXITED", unexpected))
  /\ plan'  = StampMachine(p, actor')

\* handleProcessExited, after the exit handler persisted what it did on p.
ProcessExited(p, unexpected) ==
  IF terminalSeen
  THEN UNCHANGED actor /\ plan' = p
  ELSE LET before == Actor(actor, p)
           after  == Step(before, FlagEvent("PROCESS_EXITED", unexpected))
           q      == CreatedPlan(actor, p)
       IN  /\ actor' = after
           /\ plan'  = IF after.state # before.state
                       THEN StampMachine(q, after) ELSE q

PrepareForRestart == lastSeq' = NoSeq /\ terminalSeen' = FALSE

\* Fault: progress is persisted whatever the machine says.
ProgressedAlways(phase) == PersistPhase(plan, phase)

\* execution-progress: a settled machine's status is not overwritten.
Progressed(phase) ==
  IF actor.state \in XSTATE_SETTLED_STATES THEN plan ELSE PersistPhase(plan, phase)

------------------------------------------------------------------------------
(* AgentProcessManager, as the task sees it.                               *)

\* markSpawnAsKilled and SIGTERM: the exit of a killed run is silent, so that
\* its code, its emitter and its currentPhase are of no use any more.
KilledRuns == IF tracked = 0 THEN killed ELSE killed \union {tracked}
AfterKill  ==
  [r \in Runs |->
     IF r # tracked THEN run[r]
     ELSE [Reaped(r) EXCEPT !.stage = IF Alive(r) THEN "killed" ELSE run[r].stage]]

\* Fault: the killed process stays tracked.
KillKeepsTracking ==
  killed' = KilledRuns /\ run' = AfterKill /\ UNCHANGED tracked

\* killProcess
Kill == killed' = KilledRuns /\ run' = AfterKill /\ tracked' = 0

\* spawnProcess, once its asynchronous setup is over.
Spawn ==
  /\ starting \in Kind
  /\ Len(run) < MaxRuns
  /\ killed'   = KilledRuns
  /\ run'      = Append(AfterKill,
                    [kind  |-> starting,
                     stage |-> CASE starting = "spec"  -> "boot"
                                 [] starting = "build" -> "buildboot"
                                 [] starting = "qa"    -> "qaboot",
                     code  |-> "none", seq |-> 0, pipe |-> << >>,
                     phase |-> "planning"])
  /\ tracked'  = Len(run')
  /\ starting' = "no"
  /\ plan'     = Progressed("planning")
  /\ UNCHANGED <<manager, hasSpec, settings, budget>>

\* The start fails its checks (profile manager, authentication, Python).
StartFails ==
  /\ starting # "no"
  /\ starting' = "no"
  /\ UNCHANGED <<manager, disk, run, tracked, killed, budget>>

\* After resetStuckSubtasks: spec_runner.py when there is no spec.md.
ChooseRunner ==
  /\ starting = "start"
  /\ starting' = IF hasSpec THEN "build" ELSE "spec"
  /\ UNCHANGED <<manager, disk, run, tracked, killed, budget>>

------------------------------------------------------------------------------
(* Lines of a run reaching the frontend.                                   *)

Head1(r)    == Head(run[r].pipe)
Rest(r)     == [run EXCEPT ![r].pipe = Tail(@)]
HasLine(r)  == run[r].pipe # << >>

\* currentPhase of a run is used when its exit is handled.
Heeded(r) == run[r].stage # "reaped" /\ r \notin killed

HandleProgress(r) ==
  /\ HasLine(r) /\ Head1(r).type = "PHASE"
  /\ run'  = [run EXCEPT ![r].pipe = Tail(@),
                        ![r].phase = IF Heeded(r) THEN Head1(r).phase ELSE @]
  /\ plan' = Progressed(Head1(r).phase)
  /\ UNCHANGED <<manager, hasSpec, settings, starting, tracked, killed, budget>>

\* The sequence number is read back from the plan file when it is not known.
KnownSeq         == IF lastSeq = NoSeq THEN plan.seq ELSE lastSeq
IsNewSequence(n) == n >= KnownSeq

HandleTaskEvent(r) ==
  /\ HasLine(r) /\ Head1(r).type # "PHASE"
  /\ IsNewSequence(Head1(r).seq)
  /\ LET line   == Head1(r)
         before == Actor(actor, plan)
         after  == Step(before, FlagEvent(line.type, line.flag))
         p      == CreatedPlan(actor, plan)
     IN  /\ actor' = after
         /\ plan'  = PersistLastEvent(IF after.state # before.state
                                      THEN StampMachine(p, after) ELSE p, line.seq)
         /\ lastSeq' = line.seq
         /\ terminalSeen' = (terminalSeen \/ line.type \in TERMINAL_EVENTS)
  /\ run' = Rest(r)
  /\ UNCHANGED <<hasSpec, settings, starting, tracked, killed, budget>>

DropTaskEvent(r) ==
  /\ HasLine(r) /\ Head1(r).type # "PHASE"
  /\ ~IsNewSequence(Head1(r).seq)
  /\ lastSeq' = KnownSeq
  /\ run' = Rest(r)
  /\ UNCHANGED <<actor, terminalSeen, disk, starting, tracked, killed, budget>>

\* The child's exit handler: a killed spawn is silent, yet untracks the task.
HandleKilledExit(r) ==
  /\ run[r].stage = "ended" /\ r \in killed
  /\ run'     = [run EXCEPT ![r] = Reaped(r)]
  /\ tracked' = 0
  /\ killed'  = killed \ {r}
  /\ UNCHANGED <<manager, disk, starting, budget>>

HandleExit(r) ==
  /\ run[r].stage = "ended" /\ r \notin killed /\ run[r].code = "ok"
  /\ run'     = [run EXCEPT ![r] = Reaped(r)]
  /\ tracked' = 0
  /\ ProcessExited(plan, FALSE)
  /\ UNCHANGED <<lastSeq, terminalSeen, hasSpec, settings, starting, killed, budget>>

\* restartTask starts what storeTaskContext kept: the last run that was no QA.
Restartable ==
  LET kept == {s \in Runs : run[s].kind # "qa"}
  IN  {run[s].kind : s \in {s \in kept : \A o \in kept : o <= s}}

\* handled: a rate limit or an authentication failure was found in the output.
HandleFailedExit(r) ==
  /\ run[r].stage = "ended" /\ r \notin killed /\ run[r].code = "fail"
  /\ run'     = [run EXCEPT ![r] = Reaped(r)]
  /\ tracked' = 0
  /\ \E handled \in BOOLEAN :
       /\ ProcessExited(IF ~handled /\ run[r].phase \notin {"complete", "failed"}
                        THEN Progressed("failed") ELSE plan, TRUE)
       /\ starting' \in {starting} \union
            (IF handled /\ autoSwap /\ starting = "no" THEN Restartable ELSE {})
  /\ UNCHANGED <<lastSeq, terminalSeen, hasSpec, settings, killed, budget>>

\* The file watcher saw a plan without xstateState; the reason is not kept.
Restamp ==
  /\ actor # NoActor /\ plan.exists /\ plan.xstate = "none"
  /\ plan' = StampMachine(plan, [actor EXCEPT !.reason = "none"])
  /\ UNCHANGED <<manager, hasSpec, settings, procs, budget>>

\* A load of the task list corrects a stale status on disk.
CorrectStaleTaskStatus ==
  /\ IsStale(plan)
  /\ plan' = CorrectStale(plan)
  /\ UNCHANGED <<manager, hasSpec, settings, procs, budget>>

------------------------------------------------------------------------------
(* The user.                                                               *)

\* Bounds: with profile swaps, reloads take the place of steps of the user.
UserStep ==
  /\ users + (IF autoSwap THEN MaxReload ELSE 0) < MaxUser
  /\ users' = users + 1 /\ UNCHANGED reloads

Reload == autoSwap /\ reloads < MaxReload /\ reloads' = reloads + 1 /\ UNCHANGED users

\* The event TASK_START sends, from the actor or else from the task on disk.
StartEvent ==
  LET task    == TaskOf(plan)
      current == actor.state
      planReview == current = "plan_review" \/
                    (current = "none" /\ task.status = "human_review"
                                      /\ task.reason = "plan_review")
      failed  == current = "error" \/ (current = "none" /\ task.status = "error")
      stopped == current = "human_review" \/
                 (current = "none" /\ task.status = "human_review")
  IN  IF planReview THEN Event("PLAN_APPROVED")
      ELSE IF stopped \/ (failed /\ HasSubtasks(plan)) THEN Event("USER_RESUMED")
      ELSE Event("PLANNING_STARTED")

TaskStart ==
  /\ starting = "no" /\ UserStep
  /\ Send(StartEvent) /\ PrepareForRestart
  /\ starting' = "start"
  /\ UNCHANGED <<hasSpec, settings, run, tracked, killed>>

TaskStop ==
  /\ UserStep
  /\ Kill
  /\ Send(FlagEvent("USER_STOPPED", HasSubtasks(plan))) /\ PrepareForRestart
  /\ UNCHANGED <<hasSpec, settings, starting>>

\* TASK_REVIEW; the review panel is shown for a task in human_review.
InReview == TaskOf(plan).status = "human_review"

ReviewApprove ==
  /\ InReview /\ UserStep
  /\ Send(Event("MARK_DONE"))
  /\ UNCHANGED <<lastSeq, terminalSeen, hasSpec, settings, procs>>

ReviewReject ==
  /\ InReview /\ starting = "no" /\ UserStep
  /\ Send(Event("USER_RESUMED")) /\ PrepareForRestart
  /\ starting' = "qa"
  /\ UNCHANGED <<hasSpec, settings, run, tracked, killed>>

\* TASK_UPDATE_STATUS to in_progress.
ResumeEvent ==
  IF actor.state = "plan_review" \/
     (actor = NoActor /\ TaskOf(plan).reason = "plan_review")
  THEN Event("PLAN_APPROVED") ELSE Event("USER_RESUMED")

MoveToInProgress ==
  /\ UserStep
  /\ Send(ResumeEvent)
  /\ IF tracked = 0
     THEN starting = "no" /\ starting' = "start" /\ PrepareForRestart
     ELSE UNCHANGED <<starting, lastSeq, terminalSeen>>
  /\ UNCHANGED <<hasSpec, settings, run, tracked, killed>>

\* ... to another status, which also stops the task.
MoveToDone    == Send(Event("MARK_DONE"))
MoveToBacklog == Send(FlagEvent("USER_STOPPED", FALSE))
MoveToReview  == hasSpec /\ UNCHANGED <<actor, plan>>
MoveByFile    == \E s \in {"queue", "ai_review"} :
                   plan' = PersistStatus(plan, s) /\ UNCHANGED actor

MoveAway ==
  /\ UserStep
  /\ MoveToDone \/ MoveToBacklog \/ MoveToReview \/ MoveByFile
  /\ Kill
  /\ UNCHANGED <<lastSeq, terminalSeen, hasSpec, settings, starting>>

\* TASK_LIST with forceRefresh: clearAllTasks.
Refresh ==
  /\ Reload
  /\ actor' = NoActor /\ terminalSeen' = FALSE
  /\ UNCHANGED <<lastSeq, disk, procs>>

\* The application quits, killing its processes, and is started again.
AppRestart ==
  /\ Reload
  /\ actor' = NoActor /\ PrepareForRestart
  /\ run' = [r \in Runs |-> [Reaped(r) EXCEPT !.pipe = << >>]]
  /\ tracked' = 0 /\ killed' = {} /\ starting' = "no"
  /\ UNCHANGED disk

------------------------------------------------------------------------------
(* The Python side of run r.                                               *)

\* A fresh emitter continues after the last event the plan file knows.
EmitterSeq == plan.seq + 1

Prints(r, lines, stage) ==
  /\ Works(r) /\ Len(run[r].pipe) + Len(lines) <= MaxPipe
  /\ run' = [run EXCEPT ![r].pipe = @ \o lines, ![r].stage = stage]

PrintsAndEnds(r, lines, code) ==
  /\ Works(r) /\ Len(run[r].pipe) + Len(lines) <= MaxPipe
  /\ run' = [run EXCEPT ![r].pipe = @ \o lines, ![r].stage = "ended",
                        ![r].code = code, ![r].seq = 0]

SpecStarts(r) ==
  /\ run[r].stage = "boot"
  /\ Prints(r, <<EventLine("PLANNING_STARTED", FALSE, EmitterSeq)>>, "planning")
  /\ UNCHANGED disk

WritesSpec(r) ==
  /\ run[r].stage = "planning"
  /\ Prints(r, << >>, "specced")
  /\ hasSpec' = TRUE
  /\ UNCHANGED <<plan, settings>>

WritesPlan(r) ==
  /\ \/ run[r].stage = "specced"   /\ Prints(r, << >>, "written")
     \/ run[r].stage = "buildplan" /\ Prints(r, <<PhaseLine("coding")>>, "coding")
  /\ plan' = PlannerOverwrites(plan)
  /\ UNCHANGED <<hasSpec, settings>>

\* With review required the checkpoint cannot be passed on a pipe: exit 1.
\* Otherwise spec_runner.py becomes run.py.
SpecCompletes(r) ==
  /\ run[r].stage = "written"
  /\ LET line == EventLine("PLANNING_COMPLETE", requireReview, EmitterSeq)
     IN  IF requireReview THEN PrintsAndEnds(r, <<line>>, "fail")
                          ELSE Prints(r, <<line>>, "buildboot")
  /\ UNCHANGED disk

SpecFails(r) ==
  /\ run[r].stage \in {"planning", "specced", "written"}
  /\ PrintsAndEnds(r, <<EventLine("PLANNING_FAILED", FALSE, EmitterSeq)>>, "fail")
  /\ UNCHANGED disk

BuildStarts(r) ==
  /\ run[r].stage = "buildboot"
  /\ CASE plan.subtasks = "none" -> Prints(r, <<PhaseLine("planning")>>, "buildplan")
       [] plan.subtasks = "todo" -> Prints(r, <<PhaseLine("coding")>>, "coding")
       [] plan.subtasks = "done" -> Prints(r, << >>, "qaboot")
  /\ UNCHANGED disk

\* An agent session failed; the coder goes on with the next one.
CoderErrs(r) ==
  /\ run[r].stage = "coding"
  /\ Prints(r, <<PhaseLine("failed")>>, "coding")
  /\ UNCHANGED disk

CoderCompletes(r) ==
  /\ run[r].stage = "coding"
  /\ Prints(r, << >>, "qaboot")
  /\ plan' = CompleteSubtasks(plan)
  /\ UNCHANGED <<hasSpec, settings>>

\* The coder gives up, or the build was already approved by QA: exit 0.
BuildStops(r) ==
  /\ run[r].stage = "coding" \/ (run[r].stage = "qaboot" /\ run[r].kind # "qa")
  /\ PrintsAndEnds(r, << >>, "ok")
  /\ UNCHANGED disk

\* One emitter numbers the events of a whole QA loop.  The QA process started
\* by a rejected review answers the feedback first.
QaStarts(r) ==
  /\ run[r].stage = "qaboot" /\ plan.subtasks = "done"
  /\ Works(r) /\ Len(run[r].pipe) + 2 <= MaxPipe
  /\ run' = [run EXCEPT ![r].stage = IF run[r].kind = "qa" THEN "feedback" ELSE "review",
               ![r].seq = EmitterSeq + 1,
               ![r].pipe = @ \o <<PhaseLine("qa_review"),
                                  EventLine("QA_STARTED", FALSE, EmitterSeq)>>]
  /\ UNCHANGED disk

QaTakesFeedback(r) ==
  /\ run[r].stage = "feedback"
  /\ Works(r) /\ Len(run[r].pipe) + 2 <= MaxPipe
  /\ run' = [run EXCEPT ![r].stage = "answering", ![r].seq = @ + 1,
               ![r].pipe = @ \o <<PhaseLine("qa_fixing"),
                                  EventLine("QA_FIXING_STARTED", FALSE, run[r].seq)>>]
  /\ UNCHANGED disk

\* QA_FIXING_FAILED is no event of the machine.
QaFeedbackFails(r) ==
  /\ run[r].stage = "answering"
  /\ PrintsAndEnds(r, << >>, "fail")
  /\ UNCHANGED disk

\* A QA process started on a build that is not complete.
QaRefuses(r) ==
  /\ run[r].stage = "qaboot" /\ run[r].kind = "qa" /\ plan.subtasks # "done"
  /\ PrintsAndEnds(r, << >>, "fail")
  /\ UNCHANGED disk

QaEnds(r, lines, approved) ==
  PrintsAndEnds(r, lines, IF approved \/ run[r].kind # "qa" THEN "ok" ELSE "fail")

QaApproves(r) ==
  /\ run[r].stage = "review"
  /\ QaEnds(r, <<PhaseLine("complete"), EventLine("QA_PASSED", FALSE, run[r].seq)>>, TRUE)
  /\ UNCHANGED disk

QaRejects(r) ==
  /\ run[r].stage = "review" /\ run[r].seq + 2 <= MaxSeq
  /\ Works(r) /\ Len(run[r].pipe) + 3 <= MaxPipe
  /\ run' = [run EXCEPT ![r].stage = "fixing", ![r].seq = @ + 2,
               ![r].pipe = @ \o <<EventLine("QA_FAILED", FALSE, run[r].seq),
                                  PhaseLine("qa_fixing"),
                                  EventLine("QA_FIXING_STARTED", FALSE, run[r].seq + 1)>>]
  /\ UNCHANGED disk

QaFixes(r) ==
  /\ run[r].stage \in {"fixing", "answering"}
  /\ Works(r) /\ Len(run[r].pipe) + 2 <= MaxPipe
  /\ run' = [run EXCEPT ![r].stage = "review", ![r].seq = @ + 1,
               ![r].pipe = @ \o <<EventLine("QA_FIXING_COMPLETE", FALSE, run[r].seq),
                                  PhaseLine("qa_review")>>]
  /\ UNCHANGED disk

\* Recurring issues end the loop at once, the last iteration falls out of it.
QaGivesUp(r) ==
  /\ \/ /\ run[r].stage = "review"
        /\ \E last \in {<< >>, <<PhaseLine("failed")>>} :
             QaEnds(r, <<EventLine("QA_FAILED", FALSE, run[r].seq),
                         EventLine("QA_MAX_ITERATIONS", FALSE, run[r].seq + 1)>> \o last, FALSE)
     \/ /\ run[r].stage \in {"fixing", "review"}
        /\ QaEnds(r, <<PhaseLine("failed"),
                       EventLine("QA_MAX_ITERATIONS", FALSE, run[r].seq)>>, FALSE)
  /\ UNCHANGED disk

\* Every iteration says so, one after a failed session of the reviewer too
\* (bound: with all that was printed before it read).
QaIterates(r) ==
  /\ run[r].stage = "review" /\ run[r].pipe = << >>
  /\ Prints(r, <<PhaseLine("qa_review")>>, "review")
  /\ UNCHANGED disk

QaAgentErrs(r) ==
  /\ run[r].stage = "review"
  /\ QaEnds(r, <<EventLine("QA_AGENT_ERROR", FALSE, run[r].seq)>>, FALSE)
  /\ UNCHANGED disk

\* A crash, or the end of a killed process.
Crash(r) ==
  /\ Alive(r)
  /\ run' = [run EXCEPT ![r].stage = "ended", ![r].seq = 0,
                        ![r].code = IF run[r].stage = "killed" THEN @ ELSE "fail"]
  /\ UNCHANGED disk

Backend(r) ==
  /\ \/ SpecStarts(r) \/ WritesSpec(r) \/ WritesPlan(r) \/ SpecCompletes(r)
     \/ SpecFails(r) \/ BuildStarts(r) \/ CoderErrs(r) \/ CoderCompletes(r)
     \/ BuildStops(r) \/ QaStarts(r) \/ QaTakesFeedback(r)
     \/ QaFeedbackFails(r) \/ QaRefuses(r) \/ QaApproves(r) \/ QaRejects(r)
     \/ QaFixes(r) \/ QaIterates(r) \/ QaGivesUp(r) \/ QaAgentErrs(r) \/ Crash(r)
  /\ UNCHANGED <<manager, starting, tracked, killed, budget>>

------------------------------------------------------------------------------
Init ==
  /\ actor = NoActor /\ lastSeq = NoSeq /\ terminalSeen = FALSE
  /\ plan = NoPlan /\ hasSpec = FALSE /\ requireReview \in ReviewModes /\ autoSwap \in SwapModes
  /\ starting = "no" /\ run = << >> /\ tracked = 0 /\ killed = {}
  /\ users = 0 /\ reloads = 0

Frontend(r) == \/ HandleProgress(r) \/ HandleTaskEvent(r) \/ DropTaskEvent(r)
               \/ HandleKilledExit(r) \/ HandleExit(r) \/ HandleFailedExit(r)

User == \/ TaskStart \/ TaskStop \/ ReviewApprove \/ ReviewReject
        \/ MoveToInProgress \/ MoveAway

Next ==
  \/ User
  \/ Refresh \/ AppRestart
  \/ ChooseRunner \/ Spawn \/ StartFails
  \/ Restamp \/ CorrectStaleTaskStatus
  \/ \E r \in Runs : Frontend(r) \/ Backend(r)

Spec == Init /\ [][Next]_vars

------------------------------------------------------------------------------
(* Properties.                                                             *)

\* Every variable holds a value of its type: in particular everything the
\* frontend writes to the plan file is a status, reason, XState state and phase
\* that its readers know.
TypeOK ==
  /\ actor \in Machine \union {NoActor}
  /\ lastSeq \in Nat \union {NoSeq} /\ terminalSeen \in BOOLEAN
  /\ plan \in Plan /\ hasSpec \in BOOLEAN /\ requireReview \in BOOLEAN /\ autoSwap \in BOOLEAN
  /\ starting \in Kind \union {"no", "start"}
  /\ run \in Seq(Run) /\ tracked \in 0 .. Len(run) /\ killed \subseteq Runs
  /\ users \in Nat /\ reloads \in Nat

\* The plan file never disagrees with the live actor about the XState state,
\* except while it says "human_review" for a build whose subtasks are all done
\* (correctStaleTaskStatus writes it behind the actor's back): a state change
\* and its persistence are one step, whoever else writes the file.
XStateOnDisk ==
  actor # NoActor /\ plan.xstate \notin {"none", actor.state} =>
    plan.xstate = "human_review" /\ plan.subtasks = "done"

\* A task settled in plan_review, human_review or done is restored in that
\* state from the file alone, so that a refresh or a crash of the application
\* loses nothing, whatever progress, exits and corrections were written on top
\* of it since; moving it by hand to a column without machine state excepted.
SettledSurvives ==
  /\ actor.state \in {"plan_review", "human_review", "done"}
  /\ plan.xstate = actor.state
  /\ plan.status \notin {"queue", "ai_review"}
  => Restored(plan).state = actor.state

\* The process a stop would kill is one that still can be: its exit was not
\* handled and nobody marked it as killed.
TrackedLive ==
  tracked # 0 => run[tracked].stage # "reaped" /\ tracked \notin killed

\* Only the user moves a task out of plan review: no event that was still in a
\* pipe, no exit code and no progress of a process does, but for a crash of a
\* process from which no terminal event was seen.
ReviewGate ==
  [][/\ actor.state = "plan_review"
     /\ actor'.state # "plan_review" /\ actor' # NoActor
     => users' # users \/ (~terminalSeen /\ actor'.state = "error")]_vars

\* While the application runs, a task the user marked done stays done on disk,
\* unless a process nobody stopped is about to write a new plan: late lines, late
\* exits, starts that go on, swaps and corrections do not undo it, and neither
\* does the planner of a killed process.
DoneIsFinal ==
  [][plan.status = "done" /\ actor # NoActor /\ plan'.status # "done"
     => users' # users \/ \E r \in Runs : /\ run[r].stage \in {"specced", "buildplan"}
                                           /\ r \notin killed]_vars

\* "should go to error on unexpected process exit during coding": the exit of
\* the tracked process with a failure code leaves a task that was in coding in
\* error.
CodingCrashIsError ==
  [][/\ actor.state = "coding"
     /\ \E r \in Runs : /\ r = tracked /\ run[r].stage = "ended"
                        /\ run[r].code = "fail" /\ reloads' = reloads
                        /\ run'[r].stage = "reaped"
     => actor'.state = "error"]_vars

\* After prepareForRestart "events from the new process aren't dropped as
\* duplicates": the next event of the tracked process is always a new one.
NewProcessHeard ==
  tracked # 0 /\ HasLine(tracked) /\ Head1(tracked).type # "PHASE" =>
    IsNewSequence(Head1(tracked).seq)

==============================================================================
