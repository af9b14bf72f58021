------------------------ MODULE AgentLifecycle_proofs -------------------------
(***************************************************************************)
(* Proofs about AgentLifecycle, for any number of tasks, spawns and swaps. *)
(*                                                                         *)
(* The invariants of the module are not inductive.  IInv strengthens them: *)
(*   EntryOwned   an entry is that of a spawn of its task whose exit was   *)
(*                not handled yet, so what a stop marks is still to exit;  *)
(*   SingleSpawn  without overlap a task has one spawn that is not over;   *)
(*   Attended     that spawn is the one of the task's entry, or was marked *)
(*                as killed while it was still in setup.                   *)
(* The last two are what makes "a stop reaches the child" survive the      *)
(* await between addProcess and updateProcess in spawnProcess.             *)
(*                                                                         *)
(* The last part is about the end of a marked spawn: it never goes back,   *)
(* and without overlap it is signalled or terminated as it returns.        *)
(***************************************************************************)
EXTENDS AgentLifecycle, TLAPS

\* What KillProcess marks can still exit.
EntryOwned ==
  \A t \in Tasks : processes[t] # NoProcess =>
    /\ processes[t].spawnId \in Spawns /\ spawn[processes[t].spawnId].task = t
    /\ spawn[processes[t].spawnId].stage \in {"setup", "running", "ended"}

\* Spawns of a task that do not overlap follow one another.
SingleSpawn ==
  \A r, s \in Spawns :
    /\ spawn[r].task = spawn[s].task /\ spawn[s].task \notin overlapped
    /\ ~Over(r) /\ ~Over(s)
    => r = s

\* The entry of its task leads to spawn s, or its mark does.
Attends(s) ==
  LET t == spawn[s].task
  IN  /\ spawn[s].stage = "setup" =>
           \/ processes[t] = [spawnId |-> s, process |-> NoChild]
           \/ processes[t] = NoProcess /\ s \in killedSpawnIds
      /\ spawn[s].stage = "running" => processes[t] = [spawnId |-> s, process |-> s]
      /\ spawn[s].stage # "discarded"

Attended ==
  \A s \in Spawns :
    spawn[s].task \notin overlapped /\ ~spawn[s].signalled => Attends(s)

IInv == /\ TypeOK /\ EntryOwned /\ TrackedNotKilled /\ KilledPending
        /\ SingleSpawn /\ Attended

\* Changing one element of a sequence.
LEMMA ExceptSeq ==
  ASSUME NEW R, NEW q \in Seq(R), NEW i \in 1 .. Len(q), NEW e \in R
  PROVE  /\ [q EXCEPT ![i] = e] \in Seq(R)
         /\ Len([q EXCEPT ![i] = e]) = Len(q)
         /\ \A j \in 1 .. Len(q) : [q EXCEPT ![i] = e][j] = IF j = i THEN e ELSE q[j]
OBVIOUS

\* Only the record of spawn s changes, and it stays a spawn of the same task.
Changes(s) ==
  /\ spawn' \in Seq(SpawnRecord) /\ Len(spawn') = Len(spawn)
  /\ \A r \in Spawns : r # s => spawn'[r] = spawn[r]
  /\ spawn'[s].task = spawn[s].task

\* Replacing the record of a spawn of the same task.
LEMMA BecomesRecord ==
  ASSUME TypeOK, NEW s \in Spawns, NEW e \in SpawnRecord, e.task = spawn[s].task,
         spawn' = [spawn EXCEPT ![s] = e]
  PROVE  Changes(s) /\ spawn'[s] = e
<1>1. spawn \in Seq(SpawnRecord) BY DEF TypeOK
<1>. QED BY <1>1, ExceptSeq DEF Changes, Spawns

\* What SpawnReturns makes of the spawn.
LEMMA ReturnsChanges ==
  ASSUME TypeOK, NEW s \in Spawns, SpawnReturns(s)
  PROVE  /\ Changes(s)
         /\ IF CurrentSpawnId(s) \in killedSpawnIds
            THEN spawn'[s].stage = "discarded" /\ spawn'[s].signalled
            ELSE spawn'[s].stage = "running" /\ spawn'[s].signalled = spawn[s].signalled
<1>1. spawn[s] \in SpawnRecord BY DEF TypeOK, Spawns
<1>2. CASE CurrentSpawnId(s) \in killedSpawnIds
  <2>0. PICK b \in BOOLEAN : spawn' = [spawn EXCEPT ![s].stage = "discarded", ![s].stubborn = b,
                                        ![s].signalled = TRUE, ![s].timer = TRUE]
    BY <1>2, LifecycleAssumption DEF SpawnReturns
  <2>. DEFINE e == [spawn[s] EXCEPT !.stage = "discarded", !.stubborn = b, !.signalled = TRUE, !.timer = TRUE]
  <2>1. spawn' = [spawn EXCEPT ![s] = e] BY <2>0
  <2>2. e \in SpawnRecord /\ e.task = spawn[s].task BY <1>1 DEF SpawnRecord, Stage
  <2>3. Changes(s) /\ spawn'[s] = e BY <2>1, <2>2, BecomesRecord
  <2>. QED BY <2>2, <2>3, <1>1, <1>2 DEF SpawnRecord
<1>3. CASE CurrentSpawnId(s) \notin killedSpawnIds
  <2>1. PICK b \in BOOLEAN : spawn' = [spawn EXCEPT ![s] =
           [spawn[s] EXCEPT !.stage = "running", !.stubborn = b]]
    BY <1>3, LifecycleAssumption DEF SpawnReturns
  <2>. DEFINE e == [spawn[s] EXCEPT !.stage = "running", !.stubborn = b]
  <2>2. e \in SpawnRecord /\ e.task = spawn[s].task BY <1>1 DEF SpawnRecord, Stage
  <2>3. Changes(s) /\ spawn'[s] = e BY <2>1, <2>2, BecomesRecord
  <2>. QED BY <2>2, <2>3, <1>1, <1>3 DEF SpawnRecord
<1>. QED BY <1>2, <1>3

\* What the end of a child, or its forced kill, makes of the spawn.
LEMMA EndsChanges ==
  ASSUME TypeOK, NEW s \in Spawns, ChildEnds(s) \/ ForceKill(s)
  PROVE  /\ Changes(s) /\ spawn'[s].signalled = spawn[s].signalled
         /\ \/ spawn'[s].stage = spawn[s].stage
            \/ spawn[s].stage = "running" /\ spawn'[s].stage = "ended"
            \/ spawn[s].stage = "discarded" /\ spawn'[s].stage \in {"ended", "gone"}
<1>1. spawn[s] \in SpawnRecord BY DEF TypeOK, Spawns
<1>2. CASE ChildEnds(s)
  <2>0. PICK b \in BOOLEAN : spawn' = [spawn EXCEPT ![s].ok = b, ![s].timer = FALSE,
                                        ![s].stage = IF @ = "discarded" THEN "gone" ELSE "ended"]
    BY <1>2 DEF ChildEnds
  <2>. DEFINE e == [spawn[s] EXCEPT !.ok = b, !.timer = FALSE,
                      !.stage = IF spawn[s].stage = "discarded" THEN "gone" ELSE "ended"]
  <2>1. spawn' = [spawn EXCEPT ![s] = e] BY <2>0
  <2>2. e \in SpawnRecord /\ e.task = spawn[s].task BY <1>1 DEF SpawnRecord, Stage
  <2>3. Changes(s) /\ spawn'[s] = e BY <2>1, <2>2, BecomesRecord
  <2>. QED BY <2>2, <2>3, <1>1, <1>2 DEF SpawnRecord, ChildEnds, IsLive
<1>3. CASE ForceKill(s)
  <2>. DEFINE e == [spawn[s] EXCEPT !.timer = FALSE,
                      !.stage = IF spawn[s].signalled THEN spawn[s].stage ELSE "ended"]
  <2>1. spawn' = [spawn EXCEPT ![s] = e] BY <1>3 DEF ForceKill
  <2>2. e \in SpawnRecord /\ e.task = spawn[s].task BY <1>1 DEF SpawnRecord, Stage
  <2>3. Changes(s) /\ spawn'[s] = e BY <2>1, <2>2, BecomesRecord
  <2>. QED BY <2>2, <2>3, <1>1, <1>3 DEF SpawnRecord, ForceKill, IsLive
<1>. QED BY <1>2, <1>3

\* A step that only moves the spawn to another stage.
LEMMA StageChanges ==
  ASSUME TypeOK, NEW s \in Spawns, NEW st \in Stage,
         spawn' = [spawn EXCEPT ![s].stage = st]
  PROVE  Changes(s) /\ spawn'[s].stage = st
<1>1. spawn[s] \in SpawnRecord BY DEF TypeOK, Spawns
<1>. DEFINE e == [spawn[s] EXCEPT !.stage = st]
<1>2. e \in SpawnRecord /\ e.task = spawn[s].task /\ e.stage = st BY <1>1 DEF SpawnRecord
<1>3. spawn' = [spawn EXCEPT ![s] = e] OBVIOUS
<1>. QED BY <1>2, <1>3, BecomesRecord

\* A signal changes nothing but that the entry's child was told to end.
LEMMA AfterKillFacts ==
  ASSUME TypeOK, NEW t \in Tasks
  PROVE  /\ AfterKill(t) \in Seq(SpawnRecord) /\ Len(AfterKill(t)) = Len(spawn)
         /\ \A s \in Spawns : /\ AfterKill(t)[s].task = spawn[s].task
                              /\ AfterKill(t)[s].stage = spawn[s].stage
                              /\ AfterKill(t)[s].signalled =
                                   (spawn[s].signalled \/ s = processes[t].process)
<1>. DEFINE c == processes[t].process
            e == [spawn[c] EXCEPT !.signalled = TRUE, !.timer = TRUE]
<1>1. \A s \in Spawns : spawn[s] \in SpawnRecord BY DEF TypeOK, Spawns
<1>2. CASE c = NoChild BY <1>1, <1>2 DEF TypeOK, AfterKill, Signalled, NoChild, Spawns, SpawnRecord
<1>3. CASE c # NoChild
  <2>1. c \in Spawns BY <1>3 DEF TypeOK, Spawns, NoChild
  <2>2. e \in SpawnRecord /\ e.task = spawn[c].task /\ e.stage = spawn[c].stage
                       /\ e.signalled = TRUE
    BY <1>1, <2>1 DEF SpawnRecord
  <2>3. AfterKill(t) = [spawn EXCEPT ![c] = e] BY <1>3 DEF AfterKill, Signalled
  <2>4. spawn \in Seq(SpawnRecord) BY DEF TypeOK
  <2>. HIDE DEF c, e
  <2>5. /\ AfterKill(t) \in Seq(SpawnRecord) /\ Len(AfterKill(t)) = Len(spawn)
        /\ \A s \in Spawns : AfterKill(t)[s] = IF s = c THEN e ELSE spawn[s]
    BY <2>1, <2>2, <2>3, <2>4, ExceptSeq DEF Spawns
  <2>6. \A s \in Spawns : spawn[s].signalled \in BOOLEAN BY <1>1 DEF SpawnRecord
  <2>7. c = processes[t].process BY DEF c
  <2>. QED BY <2>2, <2>5, <2>6, <2>7
<1>. QED BY <1>2, <1>3

------------------------------------------------------------------------------
(* Types.                                                                  *)

\* The part of TypeOK about the tracking maps, for a given list of spawns.
TrackingTyped ==
  /\ spawn \in Seq(SpawnRecord)
  /\ processes \in [Tasks -> Entry] /\ killedSpawnIds \subseteq Spawns
  /\ \A t \in Tasks : /\ processes[t].spawnId \in 0 .. Len(spawn)
                      /\ processes[t].process \in 0 .. Len(spawn)

RestTyped ==
  /\ starting \in [Tasks -> [Kind -> Nat]]
  /\ context \in [Tasks -> Context]
  /\ restarts \subseteq [task : Tasks, swap : Nat]
  /\ cleanups \subseteq [task : Tasks, exit : Nat, generation : Nat, ok : BOOLEAN, swap : Nat]
  /\ proactive \in Nat /\ overlapped \subseteq Tasks

\* TypeOK is about the tracking and about the rest.
LEMMA TypeParts == TypeOK <=> TrackingTyped /\ RestTyped
BY DEF TypeOK, TrackingTyped, RestTyped

\* The records of the spawns are typed.
LEMMA SpawnTyped ==
  ASSUME TrackingTyped
  PROVE  /\ Len(spawn) \in Nat
         /\ \A s \in Spawns : /\ spawn[s] \in SpawnRecord /\ spawn[s].task \in Tasks
                              /\ spawn[s].stage \in Stage /\ spawn[s].signalled \in BOOLEAN
<1>1. spawn \in Seq(SpawnRecord) BY DEF TrackingTyped
<1>2. Len(spawn) \in Nat /\ \A s \in Spawns : spawn[s] \in SpawnRecord BY <1>1 DEF Spawns
<1>. QED BY <1>2 DEF SpawnRecord

\* Untracking a task removes its entry and no other.
LEMMA UntrackTyped ==
  ASSUME TrackingTyped, NEW t \in Tasks
  PROVE  /\ Untrack(t) \in [Tasks -> Entry]
         /\ \A u \in Tasks : Untrack(t)[u] = IF u = t THEN NoProcess ELSE processes[u]
         /\ NoProcess.spawnId = 0 /\ NoProcess.process = 0
BY DEF TrackingTyped, Untrack, NoProcess, NoChild, Entry

\* The maps stay typed when a task is untracked, or nothing is, and the spawns
\* and marks stay typed.
LEMMA UntrackTracking ==
  ASSUME TrackingTyped, NEW t \in Tasks, processes' \in {processes, Untrack(t)},
         spawn' \in Seq(SpawnRecord), Len(spawn') = Len(spawn),
         killedSpawnIds' \subseteq Spawns
  PROVE  TrackingTyped'
<1>1. Len(spawn) \in Nat BY SpawnTyped
<1>2. processes \in [Tasks -> Entry]
      /\ \A u \in Tasks : /\ processes[u].spawnId \in 0 .. Len(spawn)
                          /\ processes[u].process \in 0 .. Len(spawn)
  BY DEF TrackingTyped
<1>3. processes' \in [Tasks -> Entry]
      /\ \A u \in Tasks : /\ processes'[u].spawnId \in 0 .. Len(spawn)
                          /\ processes'[u].process \in 0 .. Len(spawn)
  <2>1. CASE processes' = processes BY <1>2, <2>1
  <2>2. CASE processes' = Untrack(t)
    <3>1. \A u \in Tasks : Untrack(t)[u] = IF u = t THEN NoProcess ELSE processes[u]
      BY UntrackTyped
    <3>2. Untrack(t) \in [Tasks -> Entry] /\ NoProcess.spawnId = 0 /\ NoProcess.process = 0
      BY UntrackTyped
    <3>. QED BY <1>1, <1>2, <2>2, <3>1, <3>2
  <2>. QED BY <2>1, <2>2
<1>. QED BY <1>3 DEF TrackingTyped, Spawns

\* killProcess keeps the tracking typed.
LEMMA KillTracking ==
  ASSUME TrackingTyped, RestTyped, EntryOwned, NEW t \in Tasks, KillProcess(t)
  PROVE  TrackingTyped'
<1>1. KilledBy(t) \subseteq Spawns BY DEF KilledBy, EntryOwned
<1>2. /\ spawn' \in Seq(SpawnRecord) /\ Len(spawn') = Len(spawn)
      /\ processes' = Untrack(t)
  BY AfterKillFacts, TypeParts DEF KillProcess
<1>3. killedSpawnIds' \subseteq Spawns BY <1>1 DEF TrackingTyped, KillProcess
<1>. QED BY <1>2, <1>3, UntrackTracking

\* The synchronous part of spawnProcess keeps the tracking typed.
LEMMA SpawnTracking ==
  ASSUME TrackingTyped, RestTyped, EntryOwned, NEW t \in Tasks, NEW k \in Kind, SpawnProcess(t, k)
  PROVE  TrackingTyped'
<1>. DEFINE e == [task |-> t, stage |-> "setup", signalled |-> FALSE,
                  stubborn |-> FALSE, timer |-> FALSE, ok |-> FALSE]
<1>1. KilledBy(t) \subseteq Spawns BY DEF KilledBy, EntryOwned
<1>2. e \in SpawnRecord BY DEF SpawnRecord, Stage
<1>3. spawn' = Append(AfterKill(t), e) BY DEF SpawnProcess
<1>4. spawn' \in Seq(SpawnRecord) /\ Len(spawn') = Len(spawn) + 1 /\ Len(spawn) \in Nat
  <2>. HIDE DEF e
  <2>. QED BY <1>2, <1>3, SpawnTyped, TypeParts, AfterKillFacts
<1>5. processes' = [processes EXCEPT ![t] = [spawnId |-> Len(spawn'), process |-> NoChild]]
  BY DEF SpawnProcess
<1>6. processes' \in [Tasks -> Entry]
      /\ \A u \in Tasks : /\ processes'[u].spawnId \in 0 .. Len(spawn')
                          /\ processes'[u].process \in 0 .. Len(spawn')
  BY <1>4, <1>5 DEF TrackingTyped, Entry, NoChild
<1>7. killedSpawnIds' = killedSpawnIds \union KilledBy(t) BY DEF SpawnProcess
<1>8. killedSpawnIds' \subseteq 1 .. Len(spawn')
  <2>1. killedSpawnIds \subseteq Spawns BY DEF TrackingTyped
  <2>2. 1 .. Len(spawn) \subseteq 1 .. Len(spawn') BY <1>4
  <2>. QED BY <1>1, <1>7, <2>1, <2>2 DEF Spawns
<1>. QED BY <1>4, <1>6, <1>8 DEF TrackingTyped, Spawns

\* The rest of spawnProcess keeps the tracking typed.
LEMMA ReturnsTracking ==
  ASSUME TrackingTyped, RestTyped, NEW s \in Spawns, SpawnReturns(s)
  PROVE  TrackingTyped'
<1>1. spawn[s].task \in Tasks BY SpawnTyped
<1>2. spawn' \in Seq(SpawnRecord) /\ Len(spawn') = Len(spawn)
  BY ReturnsChanges, TypeParts DEF Changes
<1>3. killedSpawnIds' \subseteq Spawns BY DEF SpawnReturns, TrackingTyped
<1>4. CASE processes' \in {processes, Untrack(spawn[s].task)}
  BY <1>1, <1>2, <1>3, <1>4, UntrackTracking
<1>5. CASE processes' = [processes EXCEPT ![spawn[s].task].process = s]
  <2>1. processes \in [Tasks -> Entry]
        /\ \A u \in Tasks : /\ processes[u].spawnId \in 0 .. Len(spawn)
                            /\ processes[u].process \in 0 .. Len(spawn)
    BY DEF TrackingTyped
  <2>2. s \in 1 .. Len(spawn) /\ Len(spawn) \in Nat BY SpawnTyped DEF Spawns
  <2>3. processes' \in [Tasks -> Entry]
        /\ \A u \in Tasks : /\ processes'[u].spawnId \in 0 .. Len(spawn)
                            /\ processes'[u].process \in 0 .. Len(spawn)
    BY <1>1, <1>5, <2>1, <2>2 DEF Entry
  <2>. QED BY <1>2, <1>3, <2>3 DEF TrackingTyped, Spawns
<1>. QED BY <1>4, <1>5 DEF SpawnReturns, WithChild

\* Steps that leave the tracking alone keep it typed.
LEMMA UnchangedTracking ==
  ASSUME TrackingTyped, UNCHANGED tracking PROVE TrackingTyped'
BY DEF TrackingTyped, tracking, Spawns

\* restartTask keeps the swap count within MaxSwaps.
LEMMA SwapTyped ==
  ASSUME RestTyped, NEW t \in Tasks, MayRestart(t)
  PROVE  /\ Swapped(t) \in [Tasks -> Context]
         /\ Restart(t) \in [task : Tasks, swap : Nat]
<1>1. context[t] \in Context /\ context \in [Tasks -> Context] BY DEF RestTyped
<1>2. context[t].swapCount + 1 \in 0 .. MaxSwaps /\ context[t].swapCount + 1 \in Nat
  BY <1>1 DEF MayRestart, MaxSwaps, Context
<1>3. [context[t] EXCEPT !.swapCount = @ + 1] \in Context BY <1>1, <1>2 DEF Context
<1>. QED BY <1>1, <1>2, <1>3 DEF Swapped, Restart

\* The exit listener's timers are typed.
LEMMA CleanupTyped ==
  ASSUME TypeOK, NEW s \in Spawns, NEW g \in Nat, NEW n \in Nat
  PROVE  Cleanup(s, g, n)
           \in [task : Tasks, exit : Nat, generation : Nat, ok : BOOLEAN, swap : Nat]
<1>1. spawn[s] \in SpawnRecord /\ s \in Nat BY TypeParts, SpawnTyped DEF Spawns
<1>. QED BY <1>1 DEF Cleanup, SpawnRecord

\* Every step keeps the types.
LEMMA TypeStep ==
  ASSUME TypeOK, EntryOwned, [Next]_vars
  PROVE  TypeOK'
<1>1. TrackingTyped /\ RestTyped BY TypeParts
<1>2. ASSUME NEW t \in Tasks, NEW k \in Kind, StartTask(t, k) \/ PreflightFails(t, k)
      PROVE  TypeOK'
  <2>1. TrackingTyped' BY <1>1, <1>2, UnchangedTracking DEF StartTask, PreflightFails
  <2>2. RestTyped'
    <3>1. starting \in [Tasks -> [Kind -> Nat]] BY <1>1 DEF RestTyped
    <3>2. starting' \in [Tasks -> [Kind -> Nat]] BY <1>2, <3>1 DEF StartTask, PreflightFails
    <3>. QED BY <1>1, <1>2, <3>2 DEF RestTyped, StartTask, PreflightFails, timers
  <2>. QED BY <2>1, <2>2 DEF TypeOK, TrackingTyped, RestTyped
<1>3. ASSUME NEW t \in Tasks, NEW k \in Kind, SpawnProcess(t, k)
      PROVE  TypeOK'
  <2>1. TrackingTyped' BY <1>1, <1>3, SpawnTracking
  <2>2. starting' \in [Tasks -> [Kind -> Nat]]
    <3>1. starting \in [Tasks -> [Kind -> Nat]] BY <1>1 DEF RestTyped
    <3>. QED BY <1>3, <3>1 DEF SpawnProcess
  <2>3. context' \in [Tasks -> Context]
    <3>1. context \in [Tasks -> Context] /\ context[t] \in Context BY <1>1 DEF RestTyped
    <3>2. [context[t] EXCEPT !.generation = @ + 1] \in Context BY <3>1 DEF Context
    <3>3. context' = context \/ context' = [context EXCEPT ![t] = [context[t] EXCEPT !.generation = @ + 1]]
      BY <1>3 DEF SpawnProcess, StoreTaskContext
    <3>. QED BY <3>1, <3>2, <3>3
  <2>4. overlapped' \subseteq Tasks BY <1>1, <1>3 DEF RestTyped, SpawnProcess
  <2>5. RestTyped' BY <1>1, <1>3, <2>2, <2>3, <2>4 DEF RestTyped, SpawnProcess
  <2>. QED BY <2>1, <2>5 DEF TypeOK, TrackingTyped, RestTyped
<1>4. ASSUME NEW t \in Tasks, StopTask(t) \/ ProactiveSwap(t)
      PROVE  TypeOK'
  <2>1. TrackingTyped' BY <1>1, <1>4, KillTracking DEF StopTask, ProactiveSwap
  <2>2. CASE StopTask(t) BY <1>1, <2>1, <2>2 DEF StopTask, timers, RestTyped, TypeOK, TrackingTyped
  <2>3. CASE ProactiveSwap(t)
    <3>1. /\ context' \in [Tasks -> Context]
          /\ restarts' \subseteq [task : Tasks, swap : Nat]
      BY <1>1, <2>3, SwapTyped DEF ProactiveSwap, RestTyped
    <3>2. RestTyped' BY <1>1, <2>3, <3>1 DEF ProactiveSwap, RestTyped
    <3>. QED BY <2>1, <3>2 DEF TypeOK, TrackingTyped, RestTyped
  <2>. QED BY <1>4, <2>2, <2>3
<1>5. ASSUME NEW s \in Spawns, SpawnReturns(s)
      PROVE  TypeOK'
  <2>1. TrackingTyped' BY <1>1, <1>5, ReturnsTracking
  <2>2. RestTyped' BY <1>1, <1>5 DEF SpawnReturns, RestTyped, timers
  <2>. QED BY <2>1, <2>2 DEF TypeOK, TrackingTyped, RestTyped
<1>6. ASSUME NEW s \in Spawns, SpawnFails(s) \/ ChildEnds(s) \/ ForceKill(s)
      PROVE  TypeOK'
  <2>1. /\ spawn' \in Seq(SpawnRecord) /\ Len(spawn') = Len(spawn)
        /\ processes' \in {processes, Untrack(spawn[s].task)}
        /\ killedSpawnIds' \subseteq killedSpawnIds
    BY <1>6, StageChanges, EndsChanges DEF SpawnFails, ChildEnds, ForceKill, Changes, Stage
  <2>2. TrackingTyped'
    <3>1. spawn[s].task \in Tasks /\ killedSpawnIds \subseteq Spawns
      BY <1>1, SpawnTyped DEF TrackingTyped
    <3>. QED BY <1>1, <2>1, <3>1, UntrackTracking
  <2>3. RestTyped' BY <1>1, <1>6 DEF SpawnFails, ChildEnds, ForceKill, RestTyped, timers
  <2>. QED BY <2>2, <2>3 DEF TypeOK, TrackingTyped, RestTyped
<1>7. ASSUME NEW s \in Spawns, HandleKilledExit(s) \/ HandleExit(s) \/ HandleLimitedExit(s)
      PROVE  TypeOK'
  <2>1. spawn[s].task \in Tasks /\ killedSpawnIds \subseteq Spawns
    BY <1>1, SpawnTyped DEF TrackingTyped
  <2>2. /\ spawn' = [spawn EXCEPT ![s].stage = "gone"]
        /\ processes' = Untrack(spawn[s].task)
        /\ killedSpawnIds' \subseteq killedSpawnIds
        /\ UNCHANGED <<starting, proactive, overlapped>>
    BY <1>7 DEF HandleKilledExit, HandleExit, HandleLimitedExit, Exited
  <2>3. spawn' \in Seq(SpawnRecord) /\ Len(spawn') = Len(spawn)
    BY <2>2, StageChanges DEF Changes, Stage
  <2>4. TrackingTyped' BY <1>1, <2>1, <2>2, <2>3, UntrackTracking
  <2>5. context[spawn[s].task].generation \in Nat BY <1>1, <2>1 DEF RestTyped, Context
  <2>6. /\ context' \in [Tasks -> Context]
        /\ restarts' \subseteq [task : Tasks, swap : Nat]
        /\ cleanups' \subseteq [task : Tasks, exit : Nat, generation : Nat, ok : BOOLEAN, swap : Nat]
    <3>1. CASE HandleKilledExit(s) BY <1>1, <3>1 DEF HandleKilledExit, RestTyped, timers
    <3>2. CASE HandleExit(s)
      <4>1. Cleanup(s, context[spawn[s].task].generation, 0)
              \in [task : Tasks, exit : Nat, generation : Nat, ok : BOOLEAN, swap : Nat]
        BY <2>5, CleanupTyped
      <4>2. /\ cleanups' = cleanups \union {Cleanup(s, context[spawn[s].task].generation, 0)}
            /\ UNCHANGED <<context, restarts>>
        BY <3>2 DEF HandleExit
      <4>. QED BY <1>1, <4>1, <4>2 DEF RestTyped
    <3>3. CASE HandleLimitedExit(s)
      <4>1. MayRestart(spawn[s].task) BY <3>3 DEF HandleLimitedExit
      <4>2. Restart(spawn[s].task) \in [task : Tasks, swap : Nat]
            /\ Swapped(spawn[s].task) \in [Tasks -> Context]
        BY <1>1, <2>1, <4>1, SwapTyped
      <4>3. Restart(spawn[s].task).swap \in Nat BY <4>2
      <4>4. Cleanup(s, context[spawn[s].task].generation, Restart(spawn[s].task).swap)
              \in [task : Tasks, exit : Nat, generation : Nat, ok : BOOLEAN, swap : Nat]
        BY <2>5, <4>3, CleanupTyped
      <4>5. /\ context' = Swapped(spawn[s].task)
            /\ restarts' = restarts \union {Restart(spawn[s].task)}
            /\ cleanups' = cleanups \union
                 {Cleanup(s, context[spawn[s].task].generation, Restart(spawn[s].task).swap)}
        BY <3>3 DEF HandleLimitedExit
      <4>. QED BY <1>1, <4>2, <4>4, <4>5 DEF RestTyped
    <3>. QED BY <1>7, <3>1, <3>2, <3>3
  <2>7. RestTyped' BY <1>1, <2>2, <2>6 DEF RestTyped
  <2>. QED BY <2>4, <2>7 DEF TypeOK, TrackingTyped, RestTyped
<1>8. ASSUME NEW timer \in restarts, RestartTimer(timer)
      PROVE  TypeOK'
  <2>1. TrackingTyped' BY <1>1, <1>8, UnchangedTracking DEF RestartTimer
  <2>2. timer.task \in Tasks /\ "task" \in Kind BY <1>1 DEF RestTyped, Kind
  <2>3. starting' \in [Tasks -> [Kind -> Nat]]
    <3>1. starting \in [Tasks -> [Kind -> Nat]] BY <1>1 DEF RestTyped
    <3>. QED BY <1>8, <2>2, <3>1 DEF RestartTimer
  <2>4. RestTyped' BY <1>1, <1>8, <2>3 DEF RestartTimer, RestTyped
  <2>. QED BY <2>1, <2>4 DEF TypeOK, TrackingTyped, RestTyped
<1>9. ASSUME NEW timer \in cleanups, CleanupTimer(timer)
      PROVE  TypeOK'
  <2>1. TrackingTyped' BY <1>1, <1>9, UnchangedTracking DEF CleanupTimer
  <2>2. NoContext \in Context BY DEF NoContext, Context, MaxSwaps
  <2>3. context' \in {context, [context EXCEPT ![timer.task] = NoContext]}
    BY <1>9 DEF CleanupTimer
  <2>4. context' \in [Tasks -> Context] BY <1>1, <2>2, <2>3 DEF RestTyped
  <2>5. RestTyped' BY <1>1, <1>9, <2>4 DEF CleanupTimer, RestTyped
  <2>. QED BY <2>1, <2>5 DEF TypeOK, TrackingTyped, RestTyped
<1>10. CASE UNCHANGED vars
  <2>1. TrackingTyped' BY <1>1, <1>10, UnchangedTracking DEF vars
  <2>2. RestTyped' BY <1>1, <1>10 DEF vars, timers, RestTyped
  <2>. QED BY <2>1, <2>2 DEF TypeOK, TrackingTyped, RestTyped
<1>. QED BY <1>2, <1>3, <1>4, <1>5, <1>6, <1>7, <1>8, <1>9, <1>10 DEF Next, Task, Child

------------------------------------------------------------------------------
(* The tracking maps and the children.                                     *)

Tracked == EntryOwned /\ TrackedNotKilled /\ KilledPending /\ SingleSpawn /\ Attended

\* killProcess: what it marks is still to exit, what it untracks it signals or marks.
LEMMA KillTracked ==
  ASSUME IInv, NEW t \in Tasks, KillProcess(t), UNCHANGED overlapped
  PROVE  Tracked'
<1>1. TypeOK /\ TrackingTyped BY TypeParts DEF IInv
<1>2. /\ Spawns' = Spawns
      /\ \A s \in Spawns : /\ spawn'[s].task = spawn[s].task
                           /\ spawn'[s].stage = spawn[s].stage
                           /\ spawn'[s].signalled = (spawn[s].signalled \/ s = processes[t].process)
  BY <1>1, AfterKillFacts DEF KillProcess, Spawns
<1>3. \A u \in Tasks : processes'[u] = IF u = t THEN NoProcess ELSE processes[u]
  BY <1>1, UntrackTyped DEF KillProcess
<1>4. killedSpawnIds' = killedSpawnIds \union KilledBy(t) BY DEF KillProcess
<1>5. \A s \in Spawns : spawn[s].task \in Tasks /\ s \in Nat \ {0} BY <1>1, SpawnTyped DEF Spawns
<1>6. EntryOwned' BY <1>2, <1>3 DEF IInv, EntryOwned
<1>7. TrackedNotKilled'
  <2>1. ASSUME NEW u \in Tasks, u # t, processes[u] # NoProcess
        PROVE  processes[u].spawnId \notin KilledBy(t)
    BY <2>1 DEF KilledBy, IInv, EntryOwned
  <2>. QED BY <1>3, <1>4, <2>1 DEF IInv, TrackedNotKilled
<1>8. KilledPending'
  <2>1. \A s \in KilledBy(t) : s \in Spawns /\ spawn[s].stage \in {"setup", "running", "ended"}
    BY DEF KilledBy, IInv, EntryOwned
  <2>2. killedSpawnIds \subseteq Spawns BY <1>1 DEF TrackingTyped
  <2>. QED BY <1>2, <1>4, <2>1, <2>2 DEF IInv, KilledPending
<1>9. SingleSpawn' BY <1>2 DEF IInv, SingleSpawn, Over
<1>10. Attended'
  <2>1. SUFFICES ASSUME NEW s \in Spawns, spawn[s].task \notin overlapped, ~spawn'[s].signalled
        PROVE  Attends(s)'
    BY <1>2 DEF Attended
  <2>2. Attends(s) /\ s # processes[t].process BY <1>2, <2>1 DEF IInv, Attended
  <2>3. CASE spawn[s].task # t
    <3>1. processes'[spawn[s].task] = processes[spawn[s].task] BY <1>3, <1>5, <2>3
    <3>. QED BY <1>2, <1>4, <2>2, <3>1 DEF Attends
  <2>4. CASE spawn[s].task = t
    <3>1. spawn[s].stage = "setup" => s \in killedSpawnIds'
      BY <1>4, <1>5, <2>2, <2>4 DEF Attends, KilledBy, NoProcess
    <3>2. spawn[s].stage # "running" BY <2>2, <2>4 DEF Attends
    <3>. QED BY <1>2, <1>3, <1>5, <2>2, <2>4, <3>1, <3>2 DEF Attends
  <2>. QED BY <2>3, <2>4
<1>. QED BY <1>6, <1>7, <1>8, <1>9, <1>10 DEF Tracked

\* A spawn gets an id nobody marked, and overlaps only if it is said to.
LEMMA SpawnTracked ==
  ASSUME IInv, NEW t \in Tasks, NEW k \in Kind, SpawnProcess(t, k)
  PROVE  Tracked'
<1>. DEFINE n == Len(spawn) + 1
            e == [task |-> t, stage |-> "setup", signalled |-> FALSE,
                  stubborn |-> FALSE, timer |-> FALSE, ok |-> FALSE]
<1>1. TypeOK /\ TrackingTyped BY TypeParts DEF IInv
<1>2. n \in Nat \ {0} /\ n \notin Spawns /\ Len(spawn) \in Nat BY <1>1, SpawnTyped DEF Spawns
<1>3. spawn' = Append(AfterKill(t), e) BY DEF SpawnProcess
<1>4. /\ Spawns' = Spawns \union {n} /\ Len(spawn') = n
      /\ spawn'[n].task = t /\ spawn'[n].stage = "setup" /\ ~spawn'[n].signalled
      /\ \A s \in Spawns : spawn'[s] = AfterKill(t)[s]
  <2>1. /\ Len(spawn') = n /\ spawn'[n] = e
        /\ \A s \in 1 .. Len(spawn) : spawn'[s] = AfterKill(t)[s]
    <3>. HIDE DEF e
    <3>. QED BY <1>1, <1>2, <1>3, AfterKillFacts
  <2>2. 1 .. n = (1 .. Len(spawn)) \union {n} BY <1>2
  <2>. QED BY <2>1, <2>2 DEF Spawns
<1>. HIDE DEF n, e
<1>5. \A s \in Spawns : /\ spawn'[s].task = spawn[s].task
                        /\ spawn'[s].stage = spawn[s].stage
                        /\ spawn'[s].signalled = (spawn[s].signalled \/ s = processes[t].process)
  BY <1>1, <1>4, AfterKillFacts
<1>6. \A u \in Tasks : processes'[u] = IF u = t THEN [spawnId |-> n, process |-> NoChild]
                                       ELSE processes[u]
  BY <1>1, <1>4 DEF SpawnProcess, TrackingTyped
<1>7. killedSpawnIds' = killedSpawnIds \union KilledBy(t) BY DEF SpawnProcess
<1>8. killedSpawnIds \subseteq Spawns /\ KilledBy(t) \subseteq Spawns
  BY <1>1 DEF TrackingTyped, IInv, EntryOwned, KilledBy
<1>9. \A s \in Spawns : spawn[s].task \in Tasks BY <1>1, SpawnTyped
<1>10. EntryOwned' BY <1>4, <1>5, <1>6 DEF IInv, EntryOwned
<1>11. TrackedNotKilled'
  <2>1. ASSUME NEW u \in Tasks, u # t, processes[u] # NoProcess
        PROVE  processes[u].spawnId \notin KilledBy(t)
    BY <2>1 DEF KilledBy, IInv, EntryOwned
  <2>. QED BY <1>2, <1>6, <1>7, <1>8, <2>1 DEF IInv, TrackedNotKilled
<1>12. KilledPending'
  <2>1. \A s \in KilledBy(t) : spawn[s].stage \in {"setup", "running", "ended"}
    BY DEF KilledBy, IInv, EntryOwned
  <2>. QED BY <1>5, <1>7, <1>8, <2>1 DEF IInv, KilledPending
<1>13. /\ overlapped \subseteq overlapped'
       /\ t \notin overlapped' => \A s \in Spawns : spawn[s].task = t => Over(s)
  BY DEF SpawnProcess
<1>14. SingleSpawn'
  <2>1. SUFFICES ASSUME NEW r \in Spawns \union {n}, NEW s \in Spawns \union {n},
                        spawn'[r].task = spawn'[s].task, spawn'[s].task \notin overlapped',
                        spawn'[r].stage \notin {"gone", "failed"},
                        spawn'[s].stage \notin {"gone", "failed"}
                 PROVE  r = s
    BY <1>4 DEF SingleSpawn, Over
  <2>2. CASE r = n \/ s = n BY <1>2, <1>4, <1>5, <1>13, <2>1, <2>2 DEF Over
  <2>3. CASE r \in Spawns /\ s \in Spawns BY <1>5, <1>13, <2>1, <2>3 DEF IInv, SingleSpawn, Over
  <2>. QED BY <2>2, <2>3
<1>15. Attended'
  <2>1. SUFFICES ASSUME NEW s \in Spawns \union {n},
                        spawn'[s].task \notin overlapped', ~spawn'[s].signalled
        PROVE  Attends(s)'
    BY <1>4 DEF Attended
  <2>2. CASE s = n BY <1>4, <1>6, <2>2 DEF Attends
  <2>3. CASE s \in Spawns /\ spawn[s].task = t
    BY <1>5, <1>13, <2>1, <2>3 DEF Over, Attends
  <2>4. CASE s \in Spawns /\ spawn[s].task # t
    <3>1. Attends(s) BY <1>5, <1>13, <2>1, <2>4 DEF IInv, Attended
    <3>2. processes'[spawn[s].task] = processes[spawn[s].task] BY <1>6, <1>9, <2>4
    <3>. QED BY <1>5, <1>7, <2>4, <3>1, <3>2 DEF Attends
  <2>. QED BY <2>2, <2>3, <2>4
<1>. QED BY <1>10, <1>11, <1>12, <1>14, <1>15 DEF Tracked

\* A spawn leaves the tracking for good: it fails, its exit is handled, or it
\* is terminated as soon as it is there.
LEMMA UntrackTracked ==
  ASSUME IInv, NEW s \in Spawns, ~Over(s), Changes(s),
         processes' = Untrack(spawn[s].task), UNCHANGED overlapped,
         killedSpawnIds' \subseteq killedSpawnIds, killedSpawnIds \ {s} \subseteq killedSpawnIds',
         \/ spawn'[s].stage = "failed"
         \/ spawn'[s].stage = "gone" /\ s \notin killedSpawnIds'
         \/ spawn'[s].stage = "discarded" /\ spawn'[s].signalled /\ s \notin killedSpawnIds'
  PROVE  Tracked'
<1>. DEFINE t == spawn[s].task
<1>1. TypeOK /\ TrackingTyped BY TypeParts DEF IInv
<1>2. /\ Spawns' = Spawns
      /\ \A r \in Spawns : spawn'[r].task = spawn[r].task /\ (r # s => spawn'[r] = spawn[r])
  BY DEF Changes, Spawns
<1>3. t \in Tasks /\ \A r \in Spawns : spawn[r].task \in Tasks BY <1>1, SpawnTyped
<1>4. \A u \in Tasks : processes'[u] = IF u = t THEN NoProcess ELSE processes[u]
  BY <1>1, <1>3, UntrackTyped
<1>5. EntryOwned'
  <2>1. ASSUME NEW u \in Tasks, u # t, processes[u] # NoProcess
        PROVE  /\ processes[u].spawnId \in Spawns /\ processes[u].spawnId # s
               /\ spawn[processes[u].spawnId].task = u
               /\ spawn[processes[u].spawnId].stage \in {"setup", "running", "ended"}
    BY <2>1 DEF IInv, EntryOwned
  <2>. QED BY <1>2, <1>4, <2>1 DEF EntryOwned
<1>6. TrackedNotKilled' BY <1>4 DEF IInv, TrackedNotKilled
<1>7. KilledPending'
  <2>1. killedSpawnIds \subseteq Spawns BY <1>1 DEF TrackingTyped
  <2>. QED BY <1>2, <2>1 DEF IInv, KilledPending
<1>8. SingleSpawn' BY <1>2 DEF IInv, SingleSpawn, Over
<1>9. Attended'
  <2>1. SUFFICES ASSUME NEW r \in Spawns, spawn[r].task \notin overlapped, ~spawn'[r].signalled
        PROVE  Attends(r)'
    BY <1>2 DEF Attended
  <2>2. CASE r = s BY <2>1, <2>2 DEF Attends
  <2>3. CASE r # s /\ spawn[r].task = t
    BY <1>2, <2>1, <2>3 DEF IInv, SingleSpawn, Over, Attends
  <2>4. CASE r # s /\ spawn[r].task # t
    <3>1. Attends(r) BY <1>2, <2>1, <2>4 DEF IInv, Attended
    <3>2. processes'[spawn[r].task] = processes[spawn[r].task] BY <1>3, <1>4, <2>4
    <3>. QED BY <1>2, <2>4, <3>1, <3>2 DEF Attends
  <2>. QED BY <2>2, <2>3, <2>4
<1>. QED BY <1>5, <1>6, <1>7, <1>8, <1>9 DEF Tracked

\* Only a spawn whose entry is gone, itself marked, is found killed in setup.
LEMMA KilledInSetup ==
  ASSUME IInv, NEW s \in Spawns, CurrentSpawnId(s) \in killedSpawnIds
  PROVE  processes[spawn[s].task] = NoProcess /\ CurrentSpawnId(s) = s
<1>1. spawn[s].task \in Tasks BY TypeParts, SpawnTyped DEF IInv
<1>. QED BY <1>1 DEF IInv, TrackedNotKilled, CurrentSpawnId

\* A new child is entered in the map, or terminated if it was killed in setup.
LEMMA ReturnsTracked ==
  ASSUME IInv, NEW s \in Spawns, SpawnReturns(s)
  PROVE  Tracked'
<1>. DEFINE t == spawn[s].task
<1>1. TypeOK /\ TrackingTyped BY TypeParts DEF IInv
<1>2. Changes(s) /\ spawn[s].stage = "setup" /\ UNCHANGED overlapped
  BY <1>1, ReturnsChanges DEF SpawnReturns
<1>3. CASE CurrentSpawnId(s) \in killedSpawnIds
  <2>1. /\ spawn'[s].stage = "discarded" /\ spawn'[s].signalled
        /\ processes' = Untrack(t) /\ killedSpawnIds' = killedSpawnIds \ {s}
    BY <1>1, <1>3, ReturnsChanges, KilledInSetup DEF SpawnReturns
  <2>. QED BY <1>2, <2>1, UntrackTracked DEF Over
<1>4. CASE CurrentSpawnId(s) \notin killedSpawnIds
  <2>1. /\ spawn'[s].stage = "running" /\ spawn'[s].signalled = spawn[s].signalled
        /\ processes' = WithChild(s) /\ killedSpawnIds' = killedSpawnIds
    BY <1>1, <1>4, ReturnsChanges DEF SpawnReturns
  <2>2. /\ Spawns' = Spawns
        /\ \A r \in Spawns : spawn'[r].task = spawn[r].task /\ (r # s => spawn'[r] = spawn[r])
    BY <1>2 DEF Changes, Spawns
  <2>3. t \in Tasks /\ s \in Nat \ {0} /\ \A r \in Spawns : spawn[r].task \in Tasks
    BY <1>1, SpawnTyped DEF Spawns
  <2>4. \A u \in Tasks :
          IF u = t /\ processes[t] # NoProcess
          THEN processes'[u] = [spawnId |-> processes[t].spawnId, process |-> s]
          ELSE processes'[u] = processes[u]
    <3>1. processes \in [Tasks -> Entry] BY <1>1 DEF TrackingTyped
    <3>. QED BY <2>1, <2>3, <3>1 DEF WithChild, Entry
  <2>5. EntryOwned'
    <3>1. \A u \in Tasks : /\ processes'[u] # NoProcess => processes[u] # NoProcess
                           /\ processes'[u].spawnId = processes[u].spawnId
      BY <2>4
    <3>. QED BY <2>1, <2>2, <3>1 DEF IInv, EntryOwned
  <2>6. TrackedNotKilled' BY <2>1, <2>4 DEF IInv, TrackedNotKilled
  <2>7. KilledPending'
    <3>1. killedSpawnIds \subseteq Spawns BY <1>1 DEF TrackingTyped
    <3>. QED BY <2>1, <2>2, <3>1 DEF IInv, KilledPending
  <2>8. SingleSpawn' BY <1>2, <2>2 DEF IInv, SingleSpawn, Over
  <2>9. Attended'
    <3>1. SUFFICES ASSUME NEW r \in Spawns, spawn[r].task \notin overlapped, ~spawn'[r].signalled
          PROVE  Attends(r)'
      BY <1>2, <2>2 DEF Attended
    <3>2. Attends(r) BY <2>1, <2>2, <3>1 DEF IInv, Attended
    <3>3. CASE r = s
      <4>1. processes[t] = [spawnId |-> s, process |-> NoChild]
        BY <1>2, <1>4, <3>2, <3>3 DEF Attends, CurrentSpawnId
      <4>2. processes[t] # NoProcess BY <2>3, <4>1 DEF NoProcess
      <4>. QED BY <2>1, <2>2, <2>3, <2>4, <3>3, <4>1, <4>2 DEF Attends
    <3>4. CASE r # s /\ spawn[r].task = t
      BY <1>2, <2>2, <3>1, <3>4 DEF IInv, SingleSpawn, Over, Attends
    <3>5. CASE r # s /\ spawn[r].task # t
      <4>1. processes'[spawn[r].task] = processes[spawn[r].task] BY <2>3, <2>4, <3>5
      <4>. QED BY <2>1, <2>2, <3>2, <3>5, <4>1 DEF Attends
    <3>. QED BY <3>3, <3>4, <3>5
  <2>. QED BY <2>5, <2>6, <2>7, <2>8, <2>9 DEF Tracked
<1>. QED BY <1>3, <1>4

\* A spawn that failed leaves the tracking.
LEMMA FailsTracked ==
  ASSUME IInv, NEW s \in Spawns, SpawnFails(s)
  PROVE  Tracked'
<1>1. Changes(s) /\ spawn'[s].stage = "failed"
  BY StageChanges DEF SpawnFails, Stage, IInv
<1>2. /\ killedSpawnIds' \subseteq killedSpawnIds
      /\ killedSpawnIds \ {s} \subseteq killedSpawnIds'
  BY KilledInSetup DEF SpawnFails
<1>. QED BY <1>1, <1>2, UntrackTracked DEF SpawnFails, Over

\* A handled exit leaves the tracking.
LEMMA ExitTracked ==
  ASSUME IInv, NEW s \in Spawns,
         HandleKilledExit(s) \/ HandleExit(s) \/ HandleLimitedExit(s)
  PROVE  Tracked'
<1>1. /\ spawn' = [spawn EXCEPT ![s].stage = "gone"]
      /\ spawn[s].stage = "ended"
      /\ processes' = Untrack(spawn[s].task) /\ UNCHANGED overlapped
      /\ killedSpawnIds' = killedSpawnIds \ {s}
  BY DEF HandleKilledExit, HandleExit, HandleLimitedExit, Exited
<1>2. Changes(s) /\ spawn'[s].stage = "gone"
  BY <1>1, StageChanges DEF Stage, IInv
<1>. QED BY <1>1, <1>2, UntrackTracked DEF Over

\* A child that ends changes no map.
LEMMA EndsTracked ==
  ASSUME IInv, NEW s \in Spawns, ChildEnds(s) \/ ForceKill(s)
  PROVE  Tracked'
<1>1. TypeOK /\ TrackingTyped BY TypeParts DEF IInv
<1>2. /\ Changes(s) /\ spawn'[s].signalled = spawn[s].signalled
      /\ \/ spawn'[s].stage = spawn[s].stage
         \/ spawn[s].stage = "running" /\ spawn'[s].stage = "ended"
         \/ spawn[s].stage = "discarded" /\ spawn'[s].stage \in {"ended", "gone"}
  BY <1>1, EndsChanges
<1>3. UNCHANGED <<processes, killedSpawnIds, overlapped>> BY DEF ChildEnds, ForceKill
<1>4. /\ Spawns' = Spawns
      /\ \A r \in Spawns : spawn'[r].task = spawn[r].task /\ (r # s => spawn'[r] = spawn[r])
  BY <1>2 DEF Changes, Spawns
<1>5. EntryOwned' BY <1>2, <1>3, <1>4 DEF IInv, EntryOwned
<1>6. TrackedNotKilled' BY <1>3 DEF IInv, TrackedNotKilled
<1>7. KilledPending'
  <2>1. killedSpawnIds \subseteq Spawns BY <1>1 DEF TrackingTyped
  <2>. QED BY <1>2, <1>3, <1>4, <2>1 DEF IInv, KilledPending
<1>8. SingleSpawn'
  <2>1. \A r \in Spawns : Over(r) => Over(r)' BY <1>2, <1>4 DEF Over
  <2>. QED BY <1>3, <1>4, <2>1 DEF IInv, SingleSpawn
<1>9. Attended'
  <2>1. SUFFICES ASSUME NEW r \in Spawns, spawn[r].task \notin overlapped, ~spawn'[r].signalled
        PROVE  Attends(r)'
    BY <1>3, <1>4 DEF Attended
  <2>2. Attends(r) BY <1>2, <1>4, <2>1 DEF IInv, Attended
  <2>. QED BY <1>2, <1>3, <1>4, <2>2 DEF Attends
<1>. QED BY <1>5, <1>6, <1>7, <1>8, <1>9 DEF Tracked

\* Every step keeps IInv.
LEMMA IInvStep ==
  ASSUME IInv, [Next]_vars
  PROVE  IInv'
<1>1. TypeOK' BY TypeStep DEF IInv
<1>2. Tracked'
  <2>1. ASSUME UNCHANGED tracking, UNCHANGED overlapped PROVE Tracked'
    BY <2>1 DEF IInv, Tracked, tracking, EntryOwned, TrackedNotKilled, KilledPending,
                SingleSpawn, Attended, Attends, Over, Spawns
  <2>2. ASSUME NEW t \in Tasks, NEW k \in Kind, StartTask(t, k) \/ PreflightFails(t, k)
        PROVE  Tracked'
    BY <2>1, <2>2 DEF StartTask, PreflightFails
  <2>3. ASSUME NEW t \in Tasks, NEW k \in Kind, SpawnProcess(t, k) PROVE Tracked'
    BY <2>3, SpawnTracked
  <2>4. ASSUME NEW t \in Tasks, StopTask(t) \/ ProactiveSwap(t) PROVE Tracked'
    BY <2>4, KillTracked DEF StopTask, ProactiveSwap
  <2>5. ASSUME NEW s \in Spawns, Child(s) PROVE Tracked'
    BY <2>5, ReturnsTracked, FailsTracked, EndsTracked, ExitTracked DEF Child
  <2>6. ASSUME NEW timer \in restarts, RestartTimer(timer) PROVE Tracked'
    BY <2>1, <2>6 DEF RestartTimer
  <2>7. ASSUME NEW timer \in cleanups, CleanupTimer(timer) PROVE Tracked'
    BY <2>1, <2>7 DEF CleanupTimer
  <2>8. CASE UNCHANGED vars BY <2>1, <2>8 DEF vars
  <2>. QED BY <2>2, <2>3, <2>4, <2>5, <2>6, <2>7, <2>8 DEF Next, Task
<1>. QED BY <1>1, <1>2 DEF IInv, Tracked

\* IInv holds initially.
LEMMA IInvInit ==
  ASSUME Init
  PROVE  IInv
<1>1. spawn = << >> /\ Spawns = {} BY DEF Init, Spawns
<1>2. TypeOK
  <2>1. NoProcess \in Entry /\ NoProcess.spawnId = 0 /\ NoProcess.process = 0 /\ NoContext \in Context
    BY DEF NoProcess, Entry, NoContext, Context, NoChild, MaxSwaps
  <2>. QED BY <1>1, <2>1 DEF Init, TypeOK
<1>. QED BY <1>1, <1>2 DEF Init, IInv, EntryOwned, TrackedNotKilled, KilledPending, SingleSpawn, Attended

\* IInv is an invariant.
LEMMA Inductive == Spec => []IInv
BY IInvInit, IInvStep, PTL DEF Spec

------------------------------------------------------------------------------
(* Theorems.                                                               *)

\* Every variable of the lifecycle always holds a value of its type.
THEOREM LifecycleTyped == Spec => []TypeOK
<1>1. IInv => TypeOK BY DEF IInv
<1>. QED BY <1>1, Inductive, PTL

\* An entry a stop would find is never that of a spawn already marked as killed.
THEOREM NeverTracksKilled == Spec => []TrackedNotKilled
<1>1. IInv => TrackedNotKilled BY DEF IInv
<1>. QED BY <1>1, Inductive, PTL

\* killedSpawnIds does not leak.
THEOREM MarksArePending == Spec => []KilledPending
<1>1. IInv => KilledPending BY DEF IInv
<1>. QED BY <1>1, Inductive, PTL

\* Without overlapping spawns of a task, every live child that was not told to
\* end is tracked.
THEOREM NeverOrphans == Spec => []NoOrphan
<1>1. IInv => NoOrphan
  <2>1. SUFFICES ASSUME IInv, NEW s \in Spawns, spawn[s].task \notin overlapped,
                        IsLive(s), ~spawn[s].signalled
                 PROVE  processes[spawn[s].task] = [spawnId |-> s, process |-> s]
    BY DEF NoOrphan
  <2>2. Attends(s) BY <2>1 DEF IInv, Attended
  <2>. QED BY <2>1, <2>2 DEF Attends, IsLive
<1>. QED BY <1>1, Inductive, PTL

------------------------------------------------------------------------------
(* How a marked spawn comes to its end.                                    *)

\* How far a spawn in a stage still is from its end.
StepsTo(stage) ==
  CASE stage = "setup" -> 3
    [] stage \in {"running", "discarded"} -> 2
    [] stage = "ended" -> 1
    [] OTHER -> 0

\* Nobody signals what is not there yet.
SetupUnsignalled ==
  /\ \A s \in Spawns : spawn[s].stage = "setup" => ~spawn[s].signalled
  /\ \A t \in Tasks : processes[t].process # NoChild =>
       spawn[processes[t].process].stage # "setup"

\* A marked spawn that overlaps no other was signalled, or is found killed as soon as
\* it returns, or has ended: the process is never left to itself.
KilledIsReached ==
  \A s \in killedSpawnIds : spawn[s].task \notin overlapped =>
    /\ spawn[s].stage = "setup" => processes[spawn[s].task] = NoProcess
    /\ spawn[s].stage = "running" => spawn[s].signalled

\* No spawn goes back, nothing takes a signal back, and a mark goes only with what it
\* is for: with the child that is terminated as it returns, or with the silenced exit.
Onward(s) ==
  /\ s \in Spawns' /\ spawn'[s].task = spawn[s].task
  /\ spawn[s].signalled => spawn'[s].signalled
  /\ spawn'[s].stage = spawn[s].stage \/ StepsTo(spawn'[s].stage) < StepsTo(spawn[s].stage)
  /\ s \in killedSpawnIds /\ s \notin killedSpawnIds' =>
       \/ spawn[s].stage = "setup" /\ spawn'[s].stage \in {"discarded", "failed"}
       \/ spawn[s].stage = "ended" /\ spawn'[s].stage = "gone"

\* All the steps of a spawn but the forced kill, which may find it signalled.
Advances(s) == \/ SpawnReturns(s) \/ SpawnFails(s) \/ ChildEnds(s)
               \/ HandleKilledExit(s) \/ HandleExit(s) \/ HandleLimitedExit(s)

MarksGoWithSpawns ==
  [][\A s \in Spawns :
       /\ Onward(s)
       /\ Advances(s) => StepsTo(spawn'[s].stage) < StepsTo(spawn[s].stage)
       /\ s \in killedSpawnIds /\ spawn[s].task \notin overlapped /\ SpawnReturns(s) =>
            spawn'[s].stage = "discarded" /\ spawn'[s].signalled]_vars

\* What a step makes of all spawns, of new ones and of the children that are tracked.
AllOnward ==
  /\ \A s \in Spawns : Onward(s)
  /\ \A s \in Spawns : spawn'[s].signalled =>
       spawn'[s].stage # "setup" \/ spawn[s].signalled \/ \E t \in Tasks : s = processes[t].process
  /\ \A s \in Spawns' \ Spawns : spawn'[s].stage = "setup" /\ ~spawn'[s].signalled
  /\ \A t \in Tasks : \/ processes'[t].process \in {NoChild, processes[t].process}
                      \/ /\ processes'[t].process \in Spawns
                         /\ spawn'[processes'[t].process].stage # "setup"

LEMMA UntouchedOnward ==
  ASSUME TypeOK, UNCHANGED tracking
  PROVE  AllOnward
BY DEF tracking, AllOnward, Onward, Spawns

\* killProcess signals the child of the entry and ends nothing.
LEMMA KillOnward ==
  ASSUME TypeOK, NEW t \in Tasks, KillProcess(t)
  PROVE  AllOnward
<1>1. TrackingTyped BY TypeParts
<1>2. /\ Spawns' = Spawns
      /\ \A s \in Spawns : /\ spawn'[s].task = spawn[s].task
                           /\ spawn'[s].stage = spawn[s].stage
                           /\ spawn'[s].signalled = (spawn[s].signalled \/ s = processes[t].process)
  BY AfterKillFacts DEF KillProcess, Spawns
<1>3. \A s \in Spawns : spawn[s].signalled \in BOOLEAN BY <1>1, SpawnTyped
<1>4. \A u \in Tasks : processes'[u] = IF u = t THEN NoProcess ELSE processes[u]
  BY <1>1, UntrackTyped DEF KillProcess
<1>5. \A s \in Spawns : Onward(s) BY <1>2, <1>3 DEF Onward, KillProcess
<1>6. \A u \in Tasks : processes'[u].process \in {NoChild, processes[u].process}
  BY <1>4 DEF NoProcess
<1>. QED BY <1>2, <1>5, <1>6 DEF AllOnward

\* spawnProcess begins another spawn beside those there are.
LEMMA SpawnOnward ==
  ASSUME TypeOK, NEW t \in Tasks, NEW k \in Kind, SpawnProcess(t, k)
  PROVE  AllOnward
<1>. DEFINE n == Len(spawn) + 1
            e == [task |-> t, stage |-> "setup", signalled |-> FALSE,
                  stubborn |-> FALSE, timer |-> FALSE, ok |-> FALSE]
<1>1. TrackingTyped BY TypeParts
<1>2. n \in Nat \ {0} /\ n \notin Spawns /\ Len(spawn) \in Nat BY <1>1, SpawnTyped DEF Spawns
<1>3. spawn' = Append(AfterKill(t), e) BY DEF SpawnProcess
<1>4. /\ Spawns' = Spawns \union {n}
      /\ spawn'[n].stage = "setup" /\ ~spawn'[n].signalled
      /\ \A s \in Spawns : spawn'[s] = AfterKill(t)[s]
  <2>1. /\ Len(spawn') = n /\ spawn'[n] = e
        /\ \A s \in 1 .. Len(spawn) : spawn'[s] = AfterKill(t)[s]
    <3>. HIDE DEF e
    <3>. QED BY <1>2, <1>3, AfterKillFacts
  <2>2. 1 .. n = (1 .. Len(spawn)) \union {n} BY <1>2
  <2>. QED BY <2>1, <2>2 DEF Spawns
<1>. HIDE DEF n, e
<1>5. \A s \in Spawns : /\ spawn'[s].task = spawn[s].task
                        /\ spawn'[s].stage = spawn[s].stage
                        /\ spawn'[s].signalled = (spawn[s].signalled \/ s = processes[t].process)
  BY <1>4, AfterKillFacts
<1>6. \A s \in Spawns : spawn[s].signalled \in BOOLEAN BY <1>1, SpawnTyped
<1>7. \A s \in Spawns : Onward(s) BY <1>4, <1>5, <1>6 DEF Onward, SpawnProcess
<1>8. \A u \in Tasks : processes'[u].process \in {NoChild, processes[u].process}
  <2>1. \A u \in Tasks : processes'[u] = IF u = t THEN [spawnId |-> Len(spawn'), process |-> NoChild]
                                         ELSE processes[u]
    BY <1>1 DEF SpawnProcess, TrackingTyped
  <2>. QED BY <2>1
<1>. QED BY <1>4, <1>5, <1>7, <1>8 DEF AllOnward

\* A step of one spawn that goes on, or loses its timer only.
LEMMA OneOnward ==
  ASSUME TypeOK, NEW s \in Spawns, Changes(s), spawn'[s].stage # "setup",
         spawn[s].signalled => spawn'[s].signalled,
         spawn'[s].stage = spawn[s].stage \/ StepsTo(spawn'[s].stage) < StepsTo(spawn[s].stage),
         killedSpawnIds \ {s} \subseteq killedSpawnIds',
         s \in killedSpawnIds /\ s \notin killedSpawnIds' =>
           \/ spawn[s].stage = "setup" /\ spawn'[s].stage \in {"discarded", "failed"}
           \/ spawn[s].stage = "ended" /\ spawn'[s].stage = "gone",
         \A t \in Tasks : processes'[t].process \in {NoChild, processes[t].process, s}
  PROVE  AllOnward
<1>1. /\ Spawns' = Spawns /\ spawn'[s].task = spawn[s].task
      /\ \A r \in Spawns : r # s => spawn'[r] = spawn[r]
  BY DEF Changes, Spawns
<1>2. \A r \in Spawns : Onward(r) BY <1>1 DEF Onward
<1>. QED BY <1>1, <1>2 DEF AllOnward

LEMMA ReturnsOnward ==
  ASSUME IInv, NEW s \in Spawns, SpawnReturns(s)
  PROVE  AllOnward /\ StepsTo(spawn'[s].stage) < StepsTo(spawn[s].stage)
<1>1. TypeOK /\ TrackingTyped BY TypeParts DEF IInv
<1>2. Changes(s) /\ spawn[s].stage = "setup" /\ spawn[s].task \in Tasks
      /\ spawn[s].signalled \in BOOLEAN
  BY <1>1, ReturnsChanges, SpawnTyped DEF SpawnReturns
<1>3. CASE CurrentSpawnId(s) \in killedSpawnIds
  <2>1. /\ spawn'[s].stage = "discarded" /\ spawn'[s].signalled
        /\ processes' = Untrack(spawn[s].task) /\ killedSpawnIds' = killedSpawnIds \ {s}
    BY <1>1, <1>3, ReturnsChanges, KilledInSetup DEF SpawnReturns
  <2>2. \A t \in Tasks : processes'[t].process \in {NoChild, processes[t].process, s}
    BY <1>1, <1>2, <2>1, UntrackTyped DEF NoChild
  <2>3. StepsTo(spawn'[s].stage) < StepsTo(spawn[s].stage) BY <1>2, <2>1 DEF StepsTo
  <2>. QED BY <1>1, <1>2, <2>1, <2>2, <2>3, OneOnward
<1>4. CASE CurrentSpawnId(s) \notin killedSpawnIds
  <2>1. /\ spawn'[s].stage = "running" /\ spawn'[s].signalled = spawn[s].signalled
        /\ processes' = WithChild(s) /\ killedSpawnIds' = killedSpawnIds
    BY <1>1, <1>4, ReturnsChanges DEF SpawnReturns
  <2>2. \A t \in Tasks : processes'[t].process \in {NoChild, processes[t].process, s}
    <3>1. processes \in [Tasks -> Entry] BY <1>1 DEF TrackingTyped
    <3>. QED BY <1>2, <2>1, <3>1 DEF WithChild, Entry
  <2>3. StepsTo(spawn'[s].stage) < StepsTo(spawn[s].stage) BY <1>2, <2>1 DEF StepsTo
  <2>. QED BY <1>1, <1>2, <2>1, <2>2, <2>3, OneOnward
<1>. QED BY <1>3, <1>4

LEMMA FailsOnward ==
  ASSUME IInv, NEW s \in Spawns, SpawnFails(s)
  PROVE  AllOnward /\ StepsTo(spawn'[s].stage) < StepsTo(spawn[s].stage)
<1>1. TypeOK /\ TrackingTyped BY TypeParts DEF IInv
<1>2. spawn[s].task \in Tasks /\ spawn[s] \in SpawnRecord BY <1>1, SpawnTyped
<1>3. /\ Changes(s) /\ spawn'[s].stage = "failed" /\ spawn[s].stage = "setup"
      /\ spawn' = [spawn EXCEPT ![s].stage = "failed"]
  BY <1>1, StageChanges DEF SpawnFails, Stage
<1>4. spawn'[s].signalled = spawn[s].signalled
  <2>1. spawn \in Seq(SpawnRecord) BY <1>1 DEF TrackingTyped
  <2>2. spawn'[s] = [spawn[s] EXCEPT !.stage = "failed"] BY <1>3, <2>1 DEF Spawns
  <2>. QED BY <1>2, <2>2 DEF SpawnRecord
<1>5. killedSpawnIds \ {s} \subseteq killedSpawnIds' BY KilledInSetup DEF SpawnFails
<1>6. \A t \in Tasks : processes'[t].process \in {NoChild, processes[t].process, s}
  BY <1>1, <1>2, UntrackTyped DEF SpawnFails, NoChild
<1>7. StepsTo(spawn'[s].stage) < StepsTo(spawn[s].stage) BY <1>3 DEF StepsTo
<1>. QED BY <1>1, <1>3, <1>4, <1>5, <1>6, <1>7, OneOnward

LEMMA EndsOnward ==
  ASSUME IInv, NEW s \in Spawns, ChildEnds(s) \/ ForceKill(s)
  PROVE  AllOnward /\ (ChildEnds(s) => StepsTo(spawn'[s].stage) < StepsTo(spawn[s].stage))
<1>1. TypeOK /\ TrackingTyped BY TypeParts DEF IInv
<1>2. /\ Changes(s) /\ spawn'[s].signalled = spawn[s].signalled
      /\ \/ spawn'[s].stage = spawn[s].stage
         \/ spawn[s].stage = "running" /\ spawn'[s].stage = "ended"
         \/ spawn[s].stage = "discarded" /\ spawn'[s].stage \in {"ended", "gone"}
  BY <1>1, EndsChanges
<1>3. UNCHANGED <<processes, killedSpawnIds>> /\ spawn[s].stage \in {"running", "discarded"}
  BY DEF ChildEnds, ForceKill, IsLive
<1>4. spawn'[s].stage = spawn[s].stage \/ StepsTo(spawn'[s].stage) < StepsTo(spawn[s].stage)
  BY <1>2 DEF StepsTo
<1>5. ASSUME ChildEnds(s) PROVE spawn'[s].stage # spawn[s].stage
  <2>1. spawn \in Seq(SpawnRecord) /\ spawn[s] \in SpawnRecord BY <1>1, SpawnTyped DEF TrackingTyped
  <2>2. PICK b \in BOOLEAN : spawn' = [spawn EXCEPT ![s].ok = b, ![s].timer = FALSE,
                                        ![s].stage = IF @ = "discarded" THEN "gone" ELSE "ended"]
    BY <1>5 DEF ChildEnds
  <2>3. spawn'[s].stage = IF spawn[s].stage = "discarded" THEN "gone" ELSE "ended"
    BY <2>1, <2>2 DEF Spawns, SpawnRecord
  <2>. QED BY <1>3, <2>3
<1>6. AllOnward BY <1>1, <1>2, <1>3, <1>4, OneOnward
<1>. QED BY <1>4, <1>5, <1>6

LEMMA ExitOnward ==
  ASSUME IInv, NEW s \in Spawns, HandleKilledExit(s) \/ HandleExit(s) \/ HandleLimitedExit(s)
  PROVE  AllOnward /\ StepsTo(spawn'[s].stage) < StepsTo(spawn[s].stage)
<1>1. TypeOK /\ TrackingTyped BY TypeParts DEF IInv
<1>2. spawn[s].task \in Tasks /\ spawn[s] \in SpawnRecord BY <1>1, SpawnTyped
<1>3. /\ spawn' = [spawn EXCEPT ![s].stage = "gone"] /\ spawn[s].stage = "ended"
      /\ processes' = Untrack(spawn[s].task) /\ killedSpawnIds' = killedSpawnIds \ {s}
  BY DEF HandleKilledExit, HandleExit, HandleLimitedExit, Exited
<1>4. Changes(s) /\ spawn'[s].stage = "gone" BY <1>1, <1>3, StageChanges DEF Stage
<1>5. spawn'[s].signalled = spawn[s].signalled
  <2>1. spawn \in Seq(SpawnRecord) BY <1>1 DEF TrackingTyped
  <2>2. spawn'[s] = [spawn[s] EXCEPT !.stage = "gone"] BY <1>3, <2>1 DEF Spawns
  <2>. QED BY <1>2, <2>2 DEF SpawnRecord
<1>6. \A t \in Tasks : processes'[t].process \in {NoChild, processes[t].process, s}
  BY <1>1, <1>2, <1>3, UntrackTyped DEF NoChild
<1>7. StepsTo(spawn'[s].stage) < StepsTo(spawn[s].stage) BY <1>3, <1>4 DEF StepsTo
<1>. QED BY <1>1, <1>3, <1>4, <1>5, <1>6, <1>7, OneOnward

LEMMA StepOnward ==
  ASSUME IInv, [Next]_vars
  PROVE  AllOnward
<1>1. ASSUME NEW t \in Tasks, NEW k \in Kind, StartTask(t, k) \/ PreflightFails(t, k) PROVE AllOnward
  BY <1>1, UntouchedOnward DEF StartTask, PreflightFails, IInv
<1>2. ASSUME NEW t \in Tasks, NEW k \in Kind, SpawnProcess(t, k) PROVE AllOnward
  BY <1>2, SpawnOnward DEF IInv
<1>3. ASSUME NEW t \in Tasks, StopTask(t) \/ ProactiveSwap(t) PROVE AllOnward
  BY <1>3, KillOnward DEF StopTask, ProactiveSwap, IInv
<1>4. ASSUME NEW s \in Spawns, Child(s) PROVE AllOnward
  BY <1>4, ReturnsOnward, FailsOnward, EndsOnward, ExitOnward DEF Child
<1>5. ASSUME NEW timer, RestartTimer(timer) \/ CleanupTimer(timer) PROVE AllOnward
  BY <1>5, UntouchedOnward DEF RestartTimer, CleanupTimer, IInv
<1>6. CASE UNCHANGED vars BY <1>6, UntouchedOnward DEF vars, IInv
<1>. QED BY <1>1, <1>2, <1>3, <1>4, <1>5, <1>6 DEF Next, Task

\* Nothing goes back to setup.
LEMMA SetupStep ==
  ASSUME IInv, SetupUnsignalled, [Next]_vars
  PROVE  SetupUnsignalled'
<1>1. AllOnward BY StepOnward
<1>2. \A s \in Spawns : spawn[s].stage \in Stage BY TypeParts, SpawnTyped DEF IInv
<1>3. \A s \in Spawns : spawn'[s].stage = "setup" => spawn[s].stage = "setup"
  <2>1. ASSUME NEW s \in Spawns, spawn'[s].stage = "setup", spawn[s].stage # "setup" PROVE FALSE
    <3>1. StepsTo("setup") < StepsTo(spawn[s].stage) BY <1>1, <2>1 DEF AllOnward, Onward
    <3>. QED BY <1>2, <2>1, <3>1 DEF StepsTo, Stage
  <2>. QED BY <2>1
<1>4. \A t \in Tasks : processes[t].process # NoChild => processes[t].process \in Spawns
  BY TypeParts DEF IInv, TrackingTyped, NoChild, Spawns
<1>5. ASSUME NEW s \in Spawns', spawn'[s].stage = "setup" PROVE ~spawn'[s].signalled
  <2>1. CASE s \notin Spawns BY <1>1, <1>5, <2>1 DEF AllOnward
  <2>2. CASE s \in Spawns
    <3>1. s # NoChild BY <2>2 DEF Spawns, NoChild
    <3>2. \A t \in Tasks : s # processes[t].process
      BY <1>3, <1>5, <2>2, <3>1 DEF SetupUnsignalled
    <3>3. ~spawn[s].signalled BY <1>3, <1>5, <2>2 DEF SetupUnsignalled
    <3>. QED BY <1>1, <1>5, <2>2, <3>2, <3>3 DEF AllOnward
  <2>. QED BY <2>1, <2>2
<1>6. ASSUME NEW t \in Tasks, processes'[t].process # NoChild
      PROVE  spawn'[processes'[t].process].stage # "setup"
  <2>1. CASE processes'[t].process = processes[t].process
    BY <1>3, <1>4, <1>6, <2>1 DEF SetupUnsignalled
  <2>2. CASE processes'[t].process # processes[t].process
    BY <1>1, <1>6, <2>2 DEF AllOnward
  <2>. QED BY <2>1, <2>2
<1>. QED BY <1>5, <1>6 DEF SetupUnsignalled

LEMMA SetupInvariant == Spec => [](IInv /\ SetupUnsignalled)
<1>1. Init => SetupUnsignalled
  BY DEF Init, SetupUnsignalled, Spawns, NoProcess, NoChild
<1>. QED BY <1>1, IInvInit, IInvStep, SetupStep, PTL DEF Spec

\* Who is marked without overlap has no entry, or was signalled.
LEMMA MarkedIsReached ==
  ASSUME IInv, SetupUnsignalled
  PROVE  KilledIsReached
<1>1. SUFFICES ASSUME NEW s \in killedSpawnIds, spawn[s].task \notin overlapped
               PROVE  /\ spawn[s].stage = "setup" => processes[spawn[s].task] = NoProcess
                      /\ spawn[s].stage = "running" => spawn[s].signalled
  BY DEF KilledIsReached
<1>2. s \in Spawns /\ s # 0 /\ spawn[s].task \in Tasks
  BY TypeParts, SpawnTyped DEF IInv, TrackingTyped, Spawns
<1>3. processes[spawn[s].task].spawnId = s => processes[spawn[s].task] = NoProcess
  BY <1>2 DEF IInv, TrackedNotKilled
<1>4. ~spawn[s].signalled => Attends(s) BY <1>1, <1>2 DEF IInv, Attended
<1>5. ASSUME spawn[s].stage = "setup" PROVE processes[spawn[s].task] = NoProcess
  BY <1>2, <1>3, <1>4, <1>5 DEF SetupUnsignalled, Attends
<1>6. ASSUME spawn[s].stage = "running" PROVE spawn[s].signalled
  BY <1>2, <1>3, <1>4, <1>6 DEF Attends, NoProcess
<1>. QED BY <1>5, <1>6

\* A spawn that stopTask or a swap marked is reached by its signal, or terminated when
\* spawnProcess returns, if its task's spawns do not overlap; and its mark stays until then.
THEOREM MarkedSpawnsEnd == Spec => []KilledIsReached /\ MarksGoWithSpawns
<1>1. IInv /\ SetupUnsignalled => KilledIsReached BY MarkedIsReached
<1>2. IInv /\ SetupUnsignalled /\ [Next]_vars =>
        [\A s \in Spawns :
           /\ Onward(s)
           /\ Advances(s) => StepsTo(spawn'[s].stage) < StepsTo(spawn[s].stage)
           /\ s \in killedSpawnIds /\ spawn[s].task \notin overlapped /\ SpawnReturns(s) =>
                spawn'[s].stage = "discarded" /\ spawn'[s].signalled]_vars
  <2>1. SUFFICES ASSUME IInv, SetupUnsignalled, [Next]_vars, NEW s \in Spawns
                 PROVE  /\ Onward(s)
                        /\ Advances(s) => StepsTo(spawn'[s].stage) < StepsTo(spawn[s].stage)
                        /\ s \in killedSpawnIds /\ spawn[s].task \notin overlapped /\ SpawnReturns(s) =>
                             spawn'[s].stage = "discarded" /\ spawn'[s].signalled
    OBVIOUS
  <2>2. Onward(s) BY <2>1, StepOnward DEF AllOnward
  <2>3. Advances(s) => StepsTo(spawn'[s].stage) < StepsTo(spawn[s].stage)
    BY <2>1, ReturnsOnward, FailsOnward, EndsOnward, ExitOnward DEF Advances
  <2>4. ASSUME s \in killedSpawnIds, spawn[s].task \notin overlapped, SpawnReturns(s)
        PROVE  spawn'[s].stage = "discarded" /\ spawn'[s].signalled
    <3>1. processes[spawn[s].task] = NoProcess
      BY <2>1, <2>4, MarkedIsReached DEF KilledIsReached, SpawnReturns
    <3>2. CurrentSpawnId(s) \in killedSpawnIds BY <2>4, <3>1 DEF CurrentSpawnId
    <3>. QED BY <2>1, <2>4, <3>2, ReturnsChanges DEF IInv
  <2>. QED BY <2>2, <2>3, <2>4
<1>. QED BY <1>1, <1>2, SetupInvariant, PTL DEF Spec, MarksGoWithSpawns

==============================================================================
