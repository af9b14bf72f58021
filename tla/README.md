# TLA+ verification of Auto Claude's task core

Auto Claude is an Electron application (`src/apps/frontend`) that drives a Python
backend (`src/apps/backend`). A *task* is a spec directory with an
`implementation_plan.json`; the backend plans, codes and validates it with
language-model agents, in child processes the frontend starts, watches, kills and
restarts. This project models the part in which tasks can go wrong without anybody
noticing: the state of a task, kept in four places at once (an XState machine, two
tracking maps, the plan file, and the processes), the loops that code and validate it,
and what surrounds a task on its way from the board to the project: the queue it waits
in, the number it gets, the token its agents use, and the merge of its work.

## Inventory

| Component | State it keeps | Operations | Correct when |
|---|---|---|---|
| Task machine (`shared/state-machines/task-machine.ts`) | state, `reviewReason` | 20 events, 3 guards | every event leads to a known state; only QA completes a task |
| Plan file (`plan-file-utils.ts`, `project-store.ts`, `implementation_plan/plan.py`, `tools/subtask.py`) | status, review reason, XState state, phase, `lastEvent`, subtasks, `qa_signoff` | five frontend writers, two backend writers, the readers | a task is restored as what it was |
| `TaskStateManager` (`task-state-manager.ts`) | actors, last sequence, terminal events seen | task event, exit, UI event, restart, refresh | late and duplicated messages do not move a settled task |
| Handlers (`agent-events-handlers.ts`, `execution-handlers.ts`) | none of their own | progress, event, exit; start, stop, review, move | each pairs the machine's move with the process's |
| Agent processes (`agent-process.ts`, `agent-state.ts`, `platform/index.ts`) | tracked entries, kill marks, spawn counter | spawn, kill, exit | a stop reaches the child; marks do not leak |
| `AgentManager` and `OperationRegistry` | execution contexts with swap count and generation, timers | start, restart, cleanup, proactive swap | restarts are bounded and spare stopped tasks |
| Backend runs (`spec_runner.py`, `build_commands.py`, `coder.py`, `qa_commands.py`, `task_event.py`) | the run's stage, the emitter's sequence | print events and phases, write spec and plan | what they print matches what they wrote |
| Coder loop (`agents/coder.py`, `session.py`, `services/recovery.py`, `agents/utils.py`, `core/workspace/setup.py`) | the plan's subtasks, attempts, stuck marks, their copies in project and worktree, error counts | plan, pick, validate, run a session, judge, retry, pause, copy | phases stay in order; attempts are limited; a kill loses little; it ends |
| QA loop (`qa/loop.py` and its helpers) | iteration, consecutive errors, sign-off, history, fix request | review, fix, escalate, answer feedback | ends; approves only with an approval; loses no feedback |
| Spec numbering (`utils/spec-number-lock.ts`, `core/workspace/models.py`, `crud-handlers.ts` and three more) | lock file with a pid, spec directories | lock, wait, break a stale lock, scan, create, release | one holder; no number twice; every request is answered |
| Profiles' tokens (`usage-monitor.ts`, `token-refresh.ts`, `credential-utils.ts`, `claude-profile-manager.ts`) | active profile, stored tokens, marks of failed profiles, calls under way | check, fetch, refresh, mark, swap, login, switch | a token is not lost; a mark is true; a dead profile is noticed |
| Board queue (`KanbanBoard.tsx`, `task-store.ts`, `useIpc.ts`) | columns of the tasks, requests without an answer, the pass of `processQueue` | queue, promote, start, move, answer | the limit holds; no slot stays free beside a waiting task |
| Worktree and merge (`worktree-handlers.ts`, `core/workspace.py`, `core/worktree.py`, `worktree-cleanup.ts`, `WorkspaceMessages.tsx`) | worktrees, branches, the project's branch and `MERGE_HEAD`, requests, flags | create, merge or stage, time out, clean up, discard, mark as done | no commit is lost; a branch is deleted only when merged |

They interact by a pipe (lines `__TASK_EVENT__` and `__EXEC_PHASE__` on the child's
output), by exit codes and signals, by the plan file that both sides rewrite without a
common lock, by callbacks (XState subscribers, timers, `exit` listeners) and by user
actions over IPC. What is hard is the order: output read after the exit was reported or
after a kill, a process that goes from planning to coding without a new spawn, awaits in
the middle of a spawn, timers of 500 ms, 1 s and 5 s, a refresh that throws the actors
away, and agents that may do to the files anything their tools allow. Every such place
is listed with its line under `hazards` in `PROJECT.json`.

## Modules

| Module | Models | Uses |
|---|---|---|
| `TaskMachine` | the machine as a transition function `Step(m, e)`; `On` is its table, row by row | |
| `PlanFile` | the plan's fields; each writer and reader as an operator | `TaskMachine` |
| `TaskStateManager` | one task: manager, handlers, user, plan, and the runs with their pipes | `PlanFile` |
| `AgentLifecycle` | the processes of several tasks: spawn, kill, exit, restart, cleanup, swap | |
| `Coder` | the coding loop over several processes of a task, in the project or a worktree | |
| `QaLoop` | the QA loop over several runs on a task, with the machine as its receiver | `TaskMachine`, `ReviewContract` |
| `ReviewContract` | what a user may rely on while a task is validated; `QaLoop` implements it | |
| `SpecNumberLock` | who gets which spec number, through the lock file or past it | |
| `ProfileTokens` | the tokens of the profiles under concurrent checks, fetches, logins and swaps | |
| `TaskQueue` | the board's queue and the limit of parallel tasks | |
| `WorktreeMerge` | the way of several tasks' commits into one project | |
| `MCCoder`, `MCAgents`, `MCParts` | plans for the model checker; one run for two and one for four components | the modules they name |
| `TaskMachine_proofs`, `TaskStateManager_proofs`, `AgentLifecycle_proofs`, `QaLoop_proofs`, `Coder_proofs`, `SpecNumberLock_proofs`, `ProfileTokens_proofs` | theorems | the module named |
| `Board_proofs` | theorems about the queue and the merge | `TaskQueue`, `WorktreeMerge` |

### TaskStateManager

One variable per map of the code: `actor` (`actors`), `lastSeq`
(`lastSequenceByTask`), `terminalSeen` (`terminalEventSeen`), `tracked` and `killed`
(`AgentState`), `plan` (the file). A handler of the frontend is one action because
JavaScript runs it to its next await. `run[r]` is a process: its stage, the lines it
printed that were not read yet (`pipe`), its exit code, its emitter's next sequence
number. `starting` is a start between the user's event and the spawn.

- `Send(e)` is `actor.send`: the machine moves, and the subscriber persists it in the
  same step when its state changed. `getOrCreateActor` restores a machine from the file
  (`Restored`) and persists that at once (`CreatedPlan`).
- `HandleTaskEvent` / `DropTaskEvent` split on `isNewSequence`; `HandleProgress` is the
  progress handler with its settled-state guard; `HandleKilledExit`, `HandleExit` and
  `HandleFailedExit` are the three ways through the exit handler of a child.
- The user's actions are the IPC handlers: `TaskStart`, `TaskStop`, `ReviewApprove`,
  `ReviewReject`, `MoveToInProgress`, `MoveAway`; `Refresh` and `AppRestart` lose the
  manager's memory.
- The Python actions follow `orchestrator.py`, `coder.py`, `build_commands.py` and
  `loop.py` in the order of their prints and writes. `Crash` is possible in every stage,
  for a killed process too.

Abstractions: Unix, direct mode (no worktree copy of the plan). Subtasks are none, to do
or all done. A file write is one step, since the frontend writes synchronously and the
backend atomically; a write between the backend's read and write is not told from one
before it. Whether a rate-limited run is restarted on another profile is `autoSwap`. Moving a
task by file and killing its process are one step although an await separates them. Only
a run started by a rejected review answers feedback here; left-over requests are
`QaLoop`'s subject. The child's `error` event is only in `AgentLifecycle`.

### AgentLifecycle

`spawnProcess` is two actions, as it awaits in the middle: `SpawnProcess` kills what is
tracked and adds an entry without a child; `SpawnReturns` tests the kill mark and either
discards the child or completes the entry; `SpawnFails` is the throw. `ChildEnds` is the
operating system, the handlers follow. `RestartTimer` and `CleanupTimer` are the timers
of `restartTask` and of the exit listener; the one second of the latter is kept behind
the half second of the restart decided at the same exit, as real time does.
`overlapped` is a history variable: the tasks for which a spawn began before an earlier
one was over. It delimits `NoOrphan` and `KilledEnds`: a start on top of a live process
does break both properties, through the handler of the old child that deletes the new
entry (`agent-process.ts:897`) and the stale mark test (`agent-process.ts:737`).

### QaLoop

`stage` is the position in `run_qa_validation_loop`. `signoff`, `seen` and `request` are
what outlives a process: `qa_signoff`, `qa_iteration_history` and `QA_FIX_REQUEST.md`
(with its author, which the code cannot tell). `machine` is moved by each emitted event
with `TaskMachine`'s `Step`. The tool `update_qa_status` is in the hands of the reviewer
(`ReviewerSignsOff`: never, once, or after `in_review`) and of the fixer
(`FixerSignsOff`), either of whom may write any status; the verdict is
what the file says (`Approves`, `Rejects`, `Escalates`), as in the code. The fixer signs
during its session, and only after that the request counts as answered (`Answered`, in
which the file may fail to be removed, or `NotAnswered`), so a stop, a crash or an error
may come between the two. `Exits` is what the frontend makes of an exit code other than 0:
nothing, if a terminal event came from the same process (`terminalEventSeen`); a process
that planned and coded before it validates has sent one. `signed` and `handed` are
history variables: this session signed off, and how often an issue was given to the
fixer. Similarity of issues is identity.

`ReviewContract` is the abstract specification: a task is at work or at rest, it rests as
completed only with an approval and no feedback left, a task at rest keeps its approval,
and feedback comes from the user alone and goes only when the work on it ends. That an
approval comes or goes while feedback still waits is allowed: the fixer's sign-off does
it. The mapping is `Contract` in `QaLoop`:
`working` is that a process is there, `completed` the machine's state, `approved` the
sign-off in the file, `feedback` a request the user wrote.

### Coder

`stage` is the position in `run_autonomous_agent`: planning, picking a subtask, in a
session, judging it (`post_session_processing` and the recovery action), or in one of the
two waits. `plan`, `attempts` and `stuck` are `implementation_plan.json`,
`attempt_history.json` and its stuck list in the directory the process works in. `isolated`
says whether that is a worktree: then every `Start` replaces the worktree's spec directory
by the project's one (`source`), as `setup_workspace` does, and the loop copies it back at
the three places it does in the code, so a `Killed` in between loses what came after. Agents are
arbitrary: the planner writes any plan or none, a session marks its subtask as it likes
and ends with any result. `AttemptsAge` is the two-hour window. Commits are left out; that
a good one exists to roll back to is open.

### SpecNumberLock

`at[c]` is the position of a request for a number, `kind[c]` who asks: a handler with the
lock, one of the four handlers without it, or the command line. The lock file is created
in one step and gets its pid in another, a waiter reads it, finds the holder dead and
removes it in steps of their own, as both programs do. The application runs from one
await to the next without another of its handlers (`Busy`), commands do not.
`ApplicationDies` and `CommandDies` come at any step. `broken` is a history variable.

### ProfileTokens

`call[c]` is an asynchronous call: a check of the active profile, a fetch for another one
or a refresh by the Claude CLI, with what it read before its awaits (`checked`, `token`).
The server takes the tokens in `accepted`; a refresh revokes the one it is asked with
(`Serve`) before anybody stores the new one (`Refreshed`, `PersistenceFails`,
`RequestFails`). `misled`, `unnoticed` and `lost` are history variables that say why a
mark or a stored token may be wrong: a refusal of a token another refresh had exchanged or
the CLI is about to replace (`CliWillStore`), a login the application has not seen, an
answer nobody got, a read of the credential store that failed (`CredentialUnread`,
`InactiveUnread`, `ProfilesListed`). A pair of access and refresh token is one number;
`norefresh` are the profiles whose credentials have no refresh token: they are neither
refreshed before nor after a 401. `ClientRefused` is `invalid_client`, a permanent refusal
for which no profile is marked.

### TaskQueue

The store follows the main process, so `status` changes when an answer or a message
comes (`MoveAnswered`, `StartShown`, `RestoredShown`, `Settles`), and each of them runs the
listener that calls `processQueue`. A pass (`pass`) runs to its next await and is one at a
time; `handleQueueAll` (`queueing`) moves task after task. `oversold` and `passedOver` are
history variables for the two properties' exceptions.

### WorktreeMerge

A commit is a pair of its task and a number. `merge[t]` is the request of a task: in the
process (`checking`, `trying`, `merging`, `exited`) or back in the handler (`cleaning`,
`saving`). `Stages`, `Merges` and `Aborts` are what git does to the project's branch and to
`MERGE_HEAD`, which all tasks share: with a merge staged, every other one fails, and the
`git merge --abort` that follows discards the staged one. `RejectReview` is the other way
to lose it: `TASK_REVIEW` resets and cleans the project when the user rejects. `misjudged`
says that the conflict `merge-tree` reports need not be one for `git merge`: a git without
`merge-tree --write-tree` (before 2.38), which always exits with an error, or a working
tree in which the conflict is gone. The machine's side of a merge, the status, is
`TaskStateManager`'s.

### MCAgents and MCParts

Two and four components that share no variable: `part` says which of them moves, the others
stay as they began. So each is checked as if alone, with its own properties and fairness.

## Runs

| Run | Expect | Shows |
|---|---|---|
| `session` | pass | no interleaving of two runs with two user actions, or with one and a refresh or restart, makes the file and the machine disagree (`XStateOnDisk`), un-settles a task on disk (`SettledSurvives`; `DoneIsFinal`, but for the planner of a process nobody stopped), or lets anything but the user or a crash leave plan review (`ReviewGate`); the tracked process can still be killed (`TrackedLive`) |
| `tracking` | pass | the maps of `AgentState` stay right (`TrackedNotKilled`, `KilledPending`, `NoOrphan`), a killed spawn ends (`KilledEnds`), at most two swaps are counted (`TypeOK`); tokens: `TokenKept`, `MarkIsTrue`, `SwapLeavesActive`, `DeadIsReported` |
| `loop` | pass | `CompletedIsSigned`, `RecurringIsEscalated`, `FeedbackKept`, `LoopSettles`, `ProcessEnds`, and that the loop implements `ReviewContract` (`ImplementsContract`) |
| `parts` | pass | coder: `InOrder`, `AttemptsBounded`, `OneSessionBehind`, `StuckIsFinal`, `CompletedKept`, `LoopEnds`; numbering: `OneHolder`, `NumbersUnique`, `RequestEnds`; queue: `CapacityKept`, `NoneForgotten`; merge: `WorkKept`, `MergedIsCommitted`; and a type invariant of each |
| `crash`, `restart`, `orphan`, `swap`, `sigkill`, `fresh`, `retries`, `staged` | violation | the eight disagreements below |

Each property of a passing run has a mutant in `PROJECT.json`: an operator next to the
one it replaces, marked `Fault:`, that breaks the code as a plausible slip would and that
the run refutes.

### Bounds

- `MaxRuns` 2: a process and its successor, which is what late lines, late exits and
  shared plan writes need. `MaxUser` 2 (3 in `restart`): a start and something done to it.
  `MaxReload` 1: one loss of memory, at any point, in place of one step of the user and
  together with profile swaps. All properties of `session` are proved for any bounds.
- `MaxPipe` 3: the longest burst one step prints is three lines, so a run can be a whole
  burst ahead of its reader. `MaxSeq` 3: a run whose
  emitter starts at 0, as after a planner's rewrite, rejects once before the loop must
  end; further rejections repeat the same pair of stages. `QaIterates` repeats its line
  only with an empty pipe.
- `MaxSpawns` 2 and one proactive swap: a spawn and the one that overlaps or follows it.
  The inductive invariant was also checked with three spawns.
- QA: three runs, two issues, `MAX_QA_ITERATIONS` 3 (50 in the code), two consecutive
  errors and a threshold of 2 (3 each in the code): the iteration limit, the
  error limit and the threshold are each reached before and after a restart. The theorems
  hold for all values.
- Coder: two phases of one subtask, the second after the first; three attempts (5 in the
  code), one concurrency error, two planning failures, two processes, one reset of each
  subtask, one pause, one aging: each limit is reached, before and after a kill.
  `MaxResets` and `MaxPauses` are what `LoopEnds` assumes: the code resets and pauses without
  a limit. `retries` has the code's five attempts.
- Numbering: four mixes of three requests, one check of the lock, number 1 in use in the
  project and 2 in a worktree, one restart of the application.
- Tokens: two profiles, two calls at once, one retry, two events from outside, each of
  which may be a failed read; every profile with or without credentials and a refresh token.
- Queue: three tasks, two slots, two failures until a pass gives up (10 in the code), two
  requests of the user, two refusals.
- Merge: two tasks, two commits, three requests of the user. That is a task merged and
  another in its way, and something done with either; the theorems hold for all values.
- Deadlock is not checked: a task that is done, or a user out of steps, rightly stops.

### Fairness

Four specifications state any. `AgentLifecycle!FairSpec`: the awaited environment
arrives or fails, a signalled child that heeds SIGTERM ends, the event loop fires a timer
and delivers an exit. There is none on the user, on restarts, or on a child ending by
itself. `Stubborn` says whether children may ignore SIGTERM; `KilledEnds` is checked
without such children, `SignalledEnds` with them. `QaLoop!FairSpec`: weak fairness of the
process as a whole, that is, an agent session ends (with whatever result) and Python goes
on. It favours no outcome. `MCParts!PartsSpec`: the same for the coder's process and for each
request for a number (a sleep ends, a file operation returns). `MCAgents!AgentsSpec`: that of
`AgentLifecycle`, and for tokens weak fairness
of each call (the server answers or the request fails), and strong fairness of the start
of a check, since the timer starts checks for ever and only the model's few call slots can
be taken up by something else. The queue and the merge have no liveness property.

## Disagreements found

1. `crash`: `PLANNING_COMPLETE` counts as terminal, so a crash of the same process during
   coding is ignored and the task stays in coding (`task-state-manager.ts:80`).
2. `restart`: events of a new process can be dropped as duplicates
   (`task-state-manager.ts:437`), because late lines of the old one count, or because the
   planner removed `lastEvent` from the plan.
3. `orphan`: a spawn killed during setup by a newer spawn of its task runs on
   (`agent-process.ts:737`).
4. `swap`: a proactive swap restarts a task the user stopped (`operation-registry.ts:335`).
5. `sigkill`: the SIGKILL fallback never fires on Unix (`platform/index.ts:492`).
6. `fresh`: an approval of an earlier session completes a task again
   (`qa/reviewer.py:347`).
7. `retries`: `MAX_SUBTASK_RETRIES` does not limit the attempts at a subtask, since the
   recovery action `retry` erases them (`agents/session.py:80`; `agents/base.py:19` calls it
   "Maximum attempts before marking subtask as stuck").
8. `staged`: a merge that is staged in the project is dropped without its task being told,
   which is still shown with "This task's changes have been staged in your main project"
   (`WorkspaceMessages.tsx:243`) and the button that deletes its worktree: when the user
   rejects a review, its own or another task's, which resets and cleans the project
   (`execution-handlers.ts:428`), or when another merge fails, which `git merge --abort`
   follows (`core/worktree.py:870`). Deleting the worktree then loses the work.

Met on the way, without a run of their own:

- *Agent manager.* Cleaning up after the second swap deletes the context before a slow
  restarted start stores it (`agent-manager.ts:79`, `92`).
- *Tokens.* After a concurrent refresh a profile can be marked for re-authentication that needs
  none, until its next refresh (`MarkIsTrue` excepts it by `misled`); so can one whose credentials
  could not be read once (`usage-monitor.ts:903`, `679`, `426`). A dead profile without a
  refresh token is never marked, only counted as failed (`token-refresh.ts:511`), and with swaps
  off it stays active; nor does `invalid_client` mark one. The same happens when the
  Claude CLI refreshes next to the application, with a token that is not the refused one. The swap at a threshold does not look
  at `authFailedProfiles` (`usage-monitor.ts:988`, against the comment on "Swap loop
  protection" at 214), so two profiles can be swapped in turn.
- *Queue.* Nothing serves the queue when the board is loaded, the limit is raised or a
  task is queued by hand; `NoneForgotten` says so by `passedOver`.
- *QA.* The fixer may take an approval back, or give one, while the user's feedback still
  counts as unanswered, and a stop or a crash leaves it so (`models.py:238`, `qa/loop.py:230`).
  A crash during validation of a process that also planned leaves the task in
  `qa_review` or `qa_fixing` (disagreement 1; `LoopSettles` excepts it by
  `terminalEventSeen`). `QA_FIXING_FAILED` is no event of the machine (`qa/loop.py:194`); `record_iteration`
  replaces a plan it cannot read (`qa/report.py:63`); an old `QA_FIX_REQUEST.md` is taken for
  the user's (`qa/loop.py:141`).
- *Coder.* A request to resume is removed from one of the two directories only
  (`coder.py:277`).
- *Merge.* The resolution by an agent is never reached: it needs lines with `CONFLICT`, which
  `--no-messages` suppresses (`core/workspace.py:1050`). With a git before 2.38, or when the
  conflict that was found is gone, a full merge
  of diverged branches is only staged, and the branch is deleted (`misjudged`). A request to stage that
  times out is answered as a success, as "staged" was printed at its beginning
  (`worktree-handlers.ts:2108`). A task stays flagged as staged when new commits come, and
  "Delete Worktree & Mark Done" then deletes them (`overtaken` in `WorkKept`).
- *Done.* Marking a task done does not cancel a start that is under way (a second start
  while a first process crashes, say): its planner replaces the plan by one without a status,
  which lasts until the file watcher stamps it again (`Restamp`; `DoneIsFinal` excepts it).
- *Refresh.* A late failed exit after a refresh turns a task that is done into an error
  (`agent-events-handlers.ts:238`).

## Proofs

`tlapm` checks every theorem; nothing is assumed beyond the named assumptions of the
modules (`BoundsAssumption`, `LifecycleAssumption`, `QaAssumption`, `CoderAssumption`, `NumbersAssumption`,
`TokensAssumption`, `QueueAssumption`, `MergeAssumption`). Every property a passing run checks
is proved but the five of liveness.

- `TaskMachine_proofs`: `StepTyped` (the machine stays in its states and reasons) and
  `OnlyQaPassedCompletes`, both by going through the rows of `On`. `QaLoop_proofs` uses
  them.
- `TaskStateManager_proofs`: every property of the run `session`, for any number of runs and
  of steps of the user, so that none of them depends on the bounds of the run. `IInv` has a
  part for the actor and the file (`Agree`) and one for the processes (`RunInv`). `SettledSurvives`
  is not inductive, as it only says what is restored: `SettledAgrees` says which status and
  reason the file keeps of a settled task, and `Fitting` that a machine in human_review never
  has the reason plan_review, which would be restored as plan review. `ReviewGate` needs that
  a run prints nothing but the backend's events (`Spoken`): plan review heeds none of them.
  `DoneIsFinal` needs that only a final machine is done on disk (`DoneAgrees`) and that a run
  marked as killed does nothing more (`KilledRests`). Each writer of the file is shown to
  keep `Agree`, then each action to be made of such writes.
- `AgentLifecycle_proofs`: `LifecycleTyped`, `NeverTracksKilled`, `MarksArePending`,
  `NeverOrphans`, for any set of tasks and any number of spawns and swaps. `NoOrphan` is
  not inductive: that the entry leads to the child says nothing while there is no child.
  `IInv` adds `EntryOwned` (an entry belongs to a spawn still to exit, so a kill marks
  nothing that is over), `SingleSpawn` (no overlap means one spawn that is not over) and
  `Attended` (that spawn is led to by its entry, or its mark is set and it is in setup,
  so the mark test of `SpawnReturns` finds it). One lemma per kind of step.
- `QaLoop_proofs`: `LoopTyped`, `CompletedWithApproval`, `RecurringNeverFixed`,
  `FeedbackIsKept`, for any set of issues and any limits (threshold at least 2). `IInv`
  adds `CompletedIsIdle` (a completed task has no process, so nothing can change the
  sign-off under it), `AnsweredFirst` (inside the loop no feedback is unanswered) and
  `HandedIsSeen` (the history counts at least what was handed to the fixer). From
  the same invariant follow `LoopAlwaysSettles` and `ContractImplemented`, the refinement of
  `ReviewContract`: each action maps to one of the contract's or to none.
- `Coder_proofs`: all of the coder's safety properties, for any plan, any phases and any limits. `IInv`
  says of the project's copy of the plan what it says of the worktree's, since a start
  brings it back (`InOrder` for both, `Saved`), and where the session's subtask stands
  (`SessionIsDue`, `Untouched`, `Counted`).
- `SpecNumberLock_proofs`: `OneHolder` by `LockInv` (who holds the lock left its pid there or
  will, unless it was broken, and only commands break one), `NumbersUnique` by
  `NumbersInv` (what a holder scanned is still all there is).
- `ProfileTokens_proofs`: `TokensTyped`, `TokenIsKept`, `MarksAreTrue`, `SwapsLeaveActive`, for
  any number of profiles, calls, retries and events. `TokenKept` needs that the answer a call
  is about to store was exchanged, stored or given out by nobody else (`AnswersUnused`);
  `MarkIsTrue` needs that a refused token stays refused (`RefusedIsDead`) and that the CLI
  will not store another one for a profile that is marked (`MarkLasts`); `SwapLeavesActive`
  that one check runs at a time (`OneCheck`) and still has the profile it observed
  (`Observed`). The attempt to prove `MarkIsTrue` showed that it did not hold beyond the two
  events of the run: a refresh by the CLI that began before the profile was marked
  makes the mark false when it stores its token. A run of one profile, two calls and five
  events confirmed it, and `misled` now includes it.
- `Board_proofs`, the queue: for any number of tasks and slots. `CapacityKept` needs `OneAtATime`
  (without overselling, a pass at work is the only one who asks), and the cardinalities of
  the sets of tasks a pass goes through.
- `Board_proofs`, the merge: for any number of tasks. `WorkKept` needs `MergedIsKept` (of a
  request that came back, and of a flagged task, all that is on the branch is in the
  project or excepted) since the branch is deleted steps or requests after the merge;
  `MergedIsCommitted` needs `RequestCarries`.

Five theorems are the safety half of the liveness properties, for every value of the
constants: what a process, a request or a mark still has before it, and that its own steps
use that up while nobody else's give it back. A liveness property then only needs that the
next step is taken, which is what fairness says.

- `StepsOfAProcess` (`ProcessEnds`): a validation process takes at most
  `3 * MAX_QA_ITERATIONS + 3` steps, and each leaves it fewer; rejections, errors and
  escalations included.
- `AttemptsOfAProcess` (`LoopEnds`): a step of the coding loop ends it, uses up an attempt, or
  brings it nearer to the next one (`Position`). It sharpens `LoopEnds`: only resets by the
  recovery action `retry`, and attempts that leave the two-hour window, can keep the loop going;
  pauses, invalid plans and other errors cannot.
- `RequestsFinish` (`RequestEnds`): a step of a request for a number brings it nearer to its end
  (`Distance`), or removes for good one of the lock files that may ever come, two for each
  request. So a broken or abandoned lock makes a request wait only finitely often.
- `StepsOfACall` (`DeadIsReported`): a check takes at most `4 * MAX_REFRESH_RETRIES + 7` steps
  of its own, however requests and writes fail, so `isChecking` is given back and the timer can
  start the next one.
- `MarkedSpawnsEnd` (`KilledEnds`): no spawn goes back to an earlier stage; outside overlap a
  marked one was signalled, or is found killed when `spawnProcess` returns; its mark goes
  only with the child it terminates or the exit it silences. It also says what is behind
  disagreement 3: only the overlap of two spawns makes the mark test miss. It needs, beside
  `IInv`, that nobody signals a spawn in setup (`SetupUnsignalled`).

Only model-checked: that those steps are in the end taken, that is liveness under fairness
(`KilledEnds`, `ProcessEnds`, `LoopEnds`, `RequestEnds`, `DeadIsReported`), which `tlapm` does not
prove, and the disagreements, which are counterexamples.

## Not modelled

The repository holds far more than the core of a task. `PROJECT.json` lists each
component with the reason it is left out; in short:

- *No state of their own to interleave*: security hooks (parsing of commands), project
  analysis, context, prompts, task log, formatting, platform lookups.
- *Calls to a service outside the repository*, of which only the outcome matters and is a
  choice in the models: language-model sessions, memory, Linear, GitHub and GitLab runners,
  pull request reviews.
- *Subsystems apart from tasks*: terminals, plugins, skills, updates, changelog. Their hard
  parts are protocols with programs that are not part of the source.
- *Taken as given*: atomic writes, file watching, XState and Electron's IPC, git; they are marked external
  where a model needs them.
- *Of modelled components*: `TASK_RECOVER_STUCK` and `TASK_RESUME_PAUSED`; the worktree's copy
  of the plan in `TaskStateManager` (`Coder` has it); API profiles, usage figures and the
  pause after a 429; changes of the limit and archived tasks in the queue; uncommitted
  changes and the deletion of a task in `WorktreeMerge`.
