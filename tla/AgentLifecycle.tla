---------------------------- MODULE AgentLifecycle ----------------------------
(***************************************************************************)
(* The agent processes of the frontend (main/agent/): how spawnProcess,    *)
(* killProcess and the exit handler of a child (agent-process.ts) keep the *)
(* tracking maps of AgentState (agent-state.ts), and how AgentManager      *)
(* (agent-manager.ts) restarts a task on another profile and cleans up     *)
(* after it.                                                               *)
(*                                                                         *)
(* A step is what runs between two awaits.  spawnProcess is two of them:   *)
(* SpawnProcess tracks an entry without a child, SpawnReturns is what      *)
(* happens when the awaited environment is there.  In between, and between *)
(* a signal and the exit it causes, anything may happen.                   *)
(*                                                                         *)
(* Spawn ids are the indices of spawn, so spawnCounter is Len(spawn).  The *)
(* process group is that of Unix: SIGTERM, then after five seconds the     *)
(* forced kill of killProcessGracefully (platform/index.ts).               *)
(***************************************************************************)
EXTENDS Integers, Sequences, FiniteSets

CONSTANTS
  Tasks,
  MaxSpawns,      \* bound: spawns of all tasks
  MaxProactive,   \* bound: proactive profile swaps
  Stubborn        \* whether a child may ignore SIGTERM: a set of Booleans

ASSUME LifecycleAssumption ==
  MaxSpawns \in Nat /\ MaxProactive \in Nat /\ Stubborn \subseteq BOOLEAN

MaxSwaps == 2     \* restartTask: "Prevent infinite swap loops"

VARIABLES
  processes,       \* AgentState.processes: the tracked entry of a task
  killedSpawnIds,  \* AgentState.killedSpawnIds
  spawn,           \* the spawns so far: setup, child process, exit
  starting,        \* starts awaiting their checks, per task and kind
  context,         \* AgentManager.taskExecutionContext
  restarts,        \* pending 500 ms timers of restartTask
  cleanups,        \* pending 1000 ms timers of the exit listener
  proactive,       \* proactive swaps so far
  overlapped       \* history: tasks spawned again before a spawn was over

tracking == <<processes, killedSpawnIds, spawn>>
timers   == <<context, restarts, cleanups>>
vars     == <<tracking, starting, timers, proactive, overlapped>>

Kind      == {"task", "qa"}   \* startSpecCreation / startTaskExecution, startQAProcess
Spawns    == 1 .. Len(spawn)
NoChild   == 0
NoProcess == [spawnId |-> 0, process |-> NoChild]
NoContext == [swapCount |-> 0, generation |-> 0]
NoGen     == 0                \* generationAtExit === undefined

\* setup: before spawn() returned; discarded: terminated without listeners;
\* ended: exited, the exit not handled yet; failed: there never was a child.
Stage == {"setup", "running", "discarded", "ended", "gone", "failed"}

SpawnRecord == [task : Tasks, stage : Stage, signalled : BOOLEAN,
                stubborn : BOOLEAN, timer : BOOLEAN, ok : BOOLEAN]

Over(s)   == spawn[s].stage \in {"gone", "failed"}
IsLive(s) == spawn[s].stage \in {"running", "discarded"}

------------------------------------------------------------------------------
(* Killing.                                                                *)

\* killProcessGracefully: SIGTERM now, a timer for the forced kill.
Signalled(sp, c) ==
  IF c = NoChild THEN sp
  ELSE [sp EXCEPT ![c].signalled = TRUE, ![c].timer = TRUE]

\* killProcess marks the entry's spawn and signals the entry's child.
KilledBy(t) == IF processes[t] = NoProcess THEN {} ELSE {processes[t].spawnId}
AfterKill(t) == Signalled(spawn, processes[t].process)
Untrack(t)  == [processes EXCEPT ![t] = NoProcess]

\* Fault: the entry of a killed process stays, to be removed at its exit.
KillKeepsEntry(t) ==
  /\ killedSpawnIds' = killedSpawnIds \union KilledBy(t)
  /\ spawn' = AfterKill(t)
  /\ UNCHANGED processes

KillProcess(t) ==
  /\ killedSpawnIds' = killedSpawnIds \union KilledBy(t)
  /\ spawn' = AfterKill(t)
  /\ processes' = Untrack(t)

\* The timer of the forced kill: SIGKILL unless child.killed, which Node sets
\* when a signal was sent.
ForceKill(s) ==
  /\ spawn[s].timer /\ IsLive(s)
  /\ spawn' = [spawn EXCEPT ![s].timer = FALSE,
                 ![s].stage = IF spawn[s].signalled THEN @ ELSE "ended"]
  /\ UNCHANGED <<processes, killedSpawnIds, starting, timers, proactive, overlapped>>

------------------------------------------------------------------------------
(* Starting.                                                               *)

\* The user starts a task, or its QA; one start of a kind at a time.
StartTask(t, k) ==
  /\ starting[t][k] = 0
  /\ starting' = [starting EXCEPT ![t][k] = 1]
  /\ UNCHANGED <<tracking, timers, proactive, overlapped>>

\* Profile manager, authentication, Python environment, script: 'error' events.
PreflightFails(t, k) ==
  /\ starting[t][k] > 0
  /\ starting' = [starting EXCEPT ![t][k] = @ - 1]
  /\ UNCHANGED <<tracking, timers, proactive, overlapped>>

\* storeTaskContext; the task is registered for proactive swaps as well.
StoreTaskContext(t) ==
  [context EXCEPT ![t].generation = @ + 1]

\* From the last check of a start to the first await of spawnProcess.
SpawnProcess(t, k) ==
  /\ starting[t][k] > 0 /\ Len(spawn) < MaxSpawns
  /\ starting' = [starting EXCEPT ![t][k] = @ - 1]
  /\ context'  = IF k = "task" THEN StoreTaskContext(t) ELSE context
  /\ killedSpawnIds' = killedSpawnIds \union KilledBy(t)
  /\ spawn' = Append(AfterKill(t),
                [task |-> t, stage |-> "setup", signalled |-> FALSE,
                 stubborn |-> FALSE, timer |-> FALSE, ok |-> FALSE])
  /\ processes' = [processes EXCEPT ![t] = [spawnId |-> Len(spawn'), process |-> NoChild]]
  /\ overlapped' = IF \E s \in Spawns : spawn[s].task = t /\ ~Over(s)
                   THEN overlapped \union {t} ELSE overlapped
  /\ UNCHANGED <<restarts, cleanups, proactive>>

\* Fault: killed during setup is only what the entry still says.
EntrySpawnId(s) == processes[spawn[s].task].spawnId

\* The spawn id whose mark decides whether a new child is terminated.
CurrentSpawnId(s) ==
  LET entry == processes[spawn[s].task]
  IN  IF entry = NoProcess THEN s ELSE entry.spawnId

\* Fault: the entry is not told of the child.
WithoutChild(s) == processes

\* updateProcess
WithChild(s) ==
  LET t == spawn[s].task
  IN  IF processes[t] = NoProcess THEN processes
      ELSE [processes EXCEPT ![t].process = s]

\* spawn() gave a child: killed during setup, or listened to from now on.
SpawnReturns(s) ==
  /\ spawn[s].stage = "setup"
  /\ \E b \in Stubborn :
       IF CurrentSpawnId(s) \in killedSpawnIds
       THEN /\ spawn' = [spawn EXCEPT ![s].stage = "discarded", ![s].stubborn = b,
                           ![s].signalled = TRUE, ![s].timer = TRUE]
            /\ processes' = Untrack(spawn[s].task)
            /\ killedSpawnIds' = killedSpawnIds \ {CurrentSpawnId(s)}
       ELSE /\ spawn' = [spawn EXCEPT ![s].stage = "running", ![s].stubborn = b]
            /\ processes' = WithChild(s)
            /\ UNCHANGED killedSpawnIds
  /\ UNCHANGED <<starting, timers, proactive, overlapped>>

\* spawn() threw, or the child's 'error' event followed it at once.
SpawnFails(s) ==
  /\ spawn[s].stage = "setup"
  /\ spawn' = [spawn EXCEPT ![s].stage = "failed"]
  /\ processes' = Untrack(spawn[s].task)
  /\ killedSpawnIds' \in
       {killedSpawnIds, killedSpawnIds \ {CurrentSpawnId(s)}}
  /\ UNCHANGED <<starting, timers, proactive, overlapped>>

------------------------------------------------------------------------------
(* Ending.                                                                 *)

\* A child ends by itself, or of a signal it does not ignore; nobody listens
\* to a discarded one.
ChildEnds(s) ==
  /\ IsLive(s)
  /\ spawn[s].signalled => ~spawn[s].stubborn
  /\ \E ok \in BOOLEAN :
       spawn' = [spawn EXCEPT ![s].ok = ok, ![s].timer = FALSE,
                   ![s].stage = IF @ = "discarded" THEN "gone" ELSE "ended"]
  /\ UNCHANGED <<processes, killedSpawnIds, starting, timers, proactive, overlapped>>

\* Fault: one swap too many.
MayRestartOnceMore(t) == context[t] # NoContext /\ context[t].swapCount <= MaxSwaps

\* restartTask gives up without a context or after MaxSwaps swaps.
MayRestart(t) == context[t] # NoContext /\ context[t].swapCount < MaxSwaps

Restart(t) == [task |-> t, swap |-> context[t].swapCount + 1]
Swapped(t) == [context EXCEPT ![t].swapCount = @ + 1]

\* The exit listener of AgentManager, told after a restart was decided.
Cleanup(s, generation, swap) ==
  [task |-> spawn[s].task, exit |-> s, generation |-> generation,
   ok |-> spawn[s].ok, swap |-> swap]

Exited(s, killed) ==
  /\ spawn' = [spawn EXCEPT ![s].stage = "gone"]
  /\ processes' = Untrack(spawn[s].task)
  /\ killedSpawnIds' = killed
  /\ UNCHANGED <<starting, proactive, overlapped>>

\* Fault: no clearKilledSpawn.
HandleKilledExitKeepsMark(s) ==
  /\ spawn[s].stage = "ended" /\ s \in killedSpawnIds
  /\ Exited(s, killedSpawnIds)
  /\ UNCHANGED timers

\* The exit of a killed spawn is silent.
HandleKilledExit(s) ==
  /\ spawn[s].stage = "ended" /\ s \in killedSpawnIds
  /\ Exited(s, killedSpawnIds \ {s})
  /\ UNCHANGED timers

HandleExit(s) ==
  /\ spawn[s].stage = "ended" /\ s \notin killedSpawnIds
  /\ Exited(s, killedSpawnIds)
  /\ cleanups' = cleanups \union {Cleanup(s, context[spawn[s].task].generation, 0)}
  /\ UNCHANGED <<context, restarts>>

\* handleProcessFailure found a rate limit or an authentication failure, and
\* another profile.
HandleLimitedExit(s) ==
  LET t == spawn[s].task
  IN  /\ spawn[s].stage = "ended" /\ s \notin killedSpawnIds /\ ~spawn[s].ok
      /\ MayRestart(t)
      /\ Exited(s, killedSpawnIds)
      /\ context'  = Swapped(t)
      /\ restarts' = restarts \union {Restart(t)}
      /\ cleanups' = cleanups \union {Cleanup(s, context[t].generation, Restart(t).swap)}

\* 500 ms after restartTask: startTaskExecution, or startSpecCreation.
RestartTimer(timer) ==
  /\ restarts' = restarts \ {timer}
  /\ starting' = [starting EXCEPT ![timer.task]["task"] = @ + 1]
  /\ UNCHANGED <<tracking, context, cleanups, proactive, overlapped>>

\* 1000 ms after an exit, so after the restart decided at that exit.
CleanupTimer(timer) ==
  LET c == context[timer.task]
      stale == timer.generation # NoGen /\ timer.generation # c.generation
  IN  /\ [task |-> timer.task, swap |-> timer.swap] \notin restarts
      /\ cleanups' = cleanups \ {timer}
      /\ context'  = IF ~stale /\ (timer.ok \/ c.swapCount >= MaxSwaps)
                     THEN [context EXCEPT ![timer.task] = NoContext] ELSE context
      /\ UNCHANGED <<tracking, restarts, starting, proactive, overlapped>>

------------------------------------------------------------------------------
(* Stopping and swapping.                                                  *)

StopTask(t) ==
  /\ KillProcess(t)
  /\ UNCHANGED <<starting, timers, proactive, overlapped>>

\* UsageMonitor restarts every registered operation: a task is registered as
\* long as it has a context.
ProactiveSwap(t) ==
  /\ proactive < MaxProactive /\ proactive' = proactive + 1
  /\ MayRestart(t)
  /\ KillProcess(t)
  /\ context'  = Swapped(t)
  /\ restarts' = restarts \union {Restart(t)}
  /\ UNCHANGED <<starting, cleanups, overlapped>>

------------------------------------------------------------------------------
Init ==
  /\ processes = [t \in Tasks |-> NoProcess] /\ killedSpawnIds = {} /\ spawn = << >>
  /\ starting = [t \in Tasks |-> [k \in Kind |-> 0]]
  /\ context = [t \in Tasks |-> NoContext] /\ restarts = {} /\ cleanups = {}
  /\ proactive = 0 /\ overlapped = {}

Child(s) == \/ SpawnReturns(s) \/ SpawnFails(s) \/ ChildEnds(s) \/ ForceKill(s)
            \/ HandleKilledExit(s) \/ HandleExit(s) \/ HandleLimitedExit(s)

Task(t) == \/ \E k \in Kind : StartTask(t, k) \/ PreflightFails(t, k) \/ SpawnProcess(t, k)
           \/ StopTask(t) \/ ProactiveSwap(t)

Next == \/ \E t \in Tasks : Task(t)
        \/ \E s \in Spawns : Child(s)
        \/ \E timer \in restarts : RestartTimer(timer)
        \/ \E timer \in cleanups : CleanupTimer(timer)

Spec == Init /\ [][Next]_vars

\* The awaited environment arrives, a child that heeds SIGTERM ends of it, the
\* event loop fires the timers and delivers the exit of every child.
Fairness ==
  \A s \in 1 .. MaxSpawns :
    /\ WF_vars(s \in Spawns /\ (SpawnReturns(s) \/ SpawnFails(s)))
    /\ WF_vars(s \in Spawns /\ spawn[s].signalled /\ ChildEnds(s))
    /\ WF_vars(s \in Spawns /\ ForceKill(s))
    /\ WF_vars(s \in Spawns /\ (HandleKilledExit(s) \/ HandleExit(s) \/ HandleLimitedExit(s)))

FairSpec == Spec /\ Fairness

------------------------------------------------------------------------------
(* Properties.                                                             *)

\* Every variable holds a value of its type.
Entry   == [spawnId : Nat, process : Nat]
Context == [swapCount : 0 .. MaxSwaps, generation : Nat]
TypeOK ==
  /\ spawn \in Seq(SpawnRecord)
  /\ processes \in [Tasks -> Entry] /\ killedSpawnIds \subseteq Spawns
  /\ \A t \in Tasks : processes[t].spawnId \in 0 .. Len(spawn)
                   /\ processes[t].process \in 0 .. Len(spawn)
  /\ starting \in [Tasks -> [Kind -> Nat]]
  /\ context \in [Tasks -> Context]
  /\ restarts \subseteq [task : Tasks, swap : Nat]
  /\ cleanups \subseteq [task : Tasks, exit : Nat, generation : Nat, ok : BOOLEAN, swap : Nat]
  /\ proactive \in Nat /\ overlapped \subseteq Tasks

\* A tracked entry is never the entry of a spawn marked as killed, so a start
\* is never mistaken for the killed one it replaced.
TrackedNotKilled ==
  \A t \in Tasks : processes[t] # NoProcess => processes[t].spawnId \notin killedSpawnIds

\* killedSpawnIds does not leak: a mark is there only while the exit it is to
\* silence can still come, or the spawn failed.
KilledPending ==
  \A s \in killedSpawnIds : spawn[s].stage \in {"setup", "running", "ended", "failed"}

\* As long as no spawn of a task began before an earlier one was over, every
\* live child of the task that was not told to end is the tracked one: a stop
\* reaches it.
NoOrphan ==
  \A s \in Spawns :
    LET t == spawn[s].task
    IN  t \notin overlapped /\ IsLive(s) /\ ~spawn[s].signalled =>
          processes[t] = [spawnId |-> s, process |-> s]

\* A spawn that was marked as killed comes to its end, be it still in setup
\* when it is killed, unless spawns of its task overlapped.
KilledEnds ==
  \A s \in 1 .. MaxSpawns :
    s \in killedSpawnIds ~>
      s \in Spawns /\ (Over(s) \/ spawn[s].task \in overlapped)

\* A spawn "killed during async setup" is terminated when it returns "to
\* prevent orphaned processes".
KilledIsSignalled ==
  \A s \in killedSpawnIds : spawn[s].stage = "running" => spawn[s].signalled

\* A proactive swap restarts "all operations running" on the profile, not a
\* task whose process was stopped or failed: an operation is unregistered "when
\* it completes or is cancelled".
SwapSparesStopped ==
  [][\A t \in Tasks :
       proactive' # proactive /\ context'[t] # context[t] =>
         \/ processes[t] # NoProcess \/ starting[t]["task"] > 0
         \/ \E timer \in restarts : timer.task = t]_vars

\* "SIGTERM then SIGKILL as fallback": a signalled child is gone in the end.
SignalledEnds ==
  \A s \in 1 .. MaxSpawns :
    (s \in Spawns /\ spawn[s].signalled) ~> (s \in Spawns /\ ~IsLive(s))

==============================================================================
