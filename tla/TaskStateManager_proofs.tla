----------------------- MODULE TaskStateManager_proofs ------------------------
(***************************************************************************)
(* Proofs about TaskStateManager, for any bounds and any settings.         *)
(*                                                                         *)
(* An action touches two parts of the state, and the inductive invariant   *)
(* has one conjunct for each:                                              *)
(*   PlanInv  the actor and the plan file: XStateOnDisk, and which status    *)
(*            and reason the file keeps of a settled task (SettledSurvives *)
(*            only says what is restored from them);                       *)
(*   RunInv   the processes: TrackedLive, and that a run prints nothing     *)
(*            but phases and the events the backend knows.                 *)
(* Every action is shown to do one of a few things to each part: PlanStep  *)
(* and RunStep.                                                            *)
(***************************************************************************)
EXTENDS TaskStateManager, TaskMachine_proofs

------------------------------------------------------------------------------
(* The actor and the plan file.                                            *)

\* A machine in human_review does not wait for the review of a plan.
Fitting == {m \in Machine : m.state = "human_review" => m.reason # "plan_review"}

\* The plan file p may disagree with actor a only after correctStaleTaskStatus.
XStateAgrees(a, p) ==
  a # NoActor /\ p.xstate \notin {"none", a.state} =>
    p.xstate = "human_review" /\ p.subtasks = "done"

\* The plan file p of a task whose actor a settled.
SettledAgrees(a, p) ==
  /\ a.state \in {"plan_review", "human_review", "done"}
  /\ p.xstate = a.state
  /\ p.status \notin {"queue", "ai_review"}
  => /\ p.status = LegacyStatus(a.state)
     /\ a.state = "plan_review" => p.reason = "plan_review"
     /\ a.state = "human_review" => p.reason # "plan_review"

\* Only a machine in its final state is done on disk.
DoneAgrees(a, p) == a # NoActor /\ p.status = "done" => a.state = "done"

Agree(a, p) ==
  /\ a \in Fitting \union {NoActor} /\ p \in Plan
  /\ XStateAgrees(a, p) /\ SettledAgrees(a, p) /\ DoneAgrees(a, p)

PlanInv == Agree(actor, plan)

\* What a restored task starts as.
LEMMA RestoredFits ==
  ASSUME NEW p \in Plan
  PROVE  Restored(p) \in Fitting
<1>. DEFINE t == TaskOf(p)
<1>1. PhaseOf(p) \in ExecutionPhase \union {"none"}
  BY DEF PhaseOf, InferPhase, XSTATE_TO_PHASE, Plan, ExecutionPhase, TaskStatus, TASK_STATE_NAMES
<1>2. t.status \in TaskStatus /\ t.reason \in ReviewReason /\ t.phase \in ExecutionPhase \union {"none"}
  BY <1>1 DEF TaskOf, Plan, TaskStatus, ReviewReason
<1>. HIDE DEF t
<1>3. SnapshotOf(t) \in Fitting
  BY <1>2 DEF SnapshotOf, Fitting, Machine, TaskStatus, TASK_STATE_NAMES, ReviewReason
<1>. QED BY <1>3 DEF Restored, t

\* Rows that lead to human_review say why, and it is not the review of a plan.
HumanReviewFits(t) == t.state = "human_review" => t.sets /\ t.reason # "plan_review"

LEMMA OnFits ==
  ASSUME NEW s \in TASK_STATE_NAMES, NEW x \in DOMAIN On[s], NEW f \in BOOLEAN
  PROVE  HumanReviewFits(On[s][x][f])
<1>0. /\ \A t \in TASK_STATE_NAMES \ {"human_review"} : \A g \in BOOLEAN :
           HumanReviewFits(Always(To(t))[g]) /\ HumanReviewFits(Always(Clear(t))[g])
           /\ HumanReviewFits(CrashFrom(t)[g])
      /\ \A g \in BOOLEAN : HumanReviewFits(Failed[g]) /\ HumanReviewFits(Completed[g])
           /\ HumanReviewFits(StopFrom[g])
           /\ HumanReviewFits(Always(Set("human_review", "qa_rejected"))[g])
           /\ HumanReviewFits(If(Set("plan_review", "plan_review"), Clear("coding"))[g])
           /\ HumanReviewFits(If(Set("human_review", "stopped"), Clear("backlog"))[g])
  BY DEF HumanReviewFits, Always, If, To, Set, Clear, Failed, Completed, StopFrom, CrashFrom
<1>1. CASE s = "backlog"      BY <1>0, <1>1 DEF On, TASK_STATE_NAMES
<1>2. CASE s = "planning"     BY <1>0, <1>2 DEF On, TASK_STATE_NAMES
<1>3. CASE s = "plan_review"  BY <1>0, <1>3 DEF On, TASK_STATE_NAMES
<1>4. CASE s = "coding"       BY <1>0, <1>4 DEF On, TASK_STATE_NAMES
<1>5. CASE s = "qa_review"    BY <1>0, <1>5 DEF On, TASK_STATE_NAMES
<1>6. CASE s = "qa_fixing"    BY <1>0, <1>6 DEF On, TASK_STATE_NAMES
<1>7. CASE s = "human_review" BY <1>0, <1>7 DEF On, TASK_STATE_NAMES
<1>8. CASE s = "error"        BY <1>0, <1>8 DEF On, TASK_STATE_NAMES
<1>9. CASE s = "creating_pr"  BY <1>0, <1>9 DEF On, TASK_STATE_NAMES
<1>10. CASE s = "pr_created"  BY <1>0, <1>10 DEF On, TASK_STATE_NAMES
<1>11. CASE s = "done"        BY <1>0, <1>11 DEF On, TASK_STATE_NAMES
<1>. QED BY <1>1, <1>2, <1>3, <1>4, <1>5, <1>6, <1>7, <1>8, <1>9, <1>10, <1>11
         DEF TASK_STATE_NAMES

LEMMA StepFits ==
  ASSUME NEW m \in Fitting, NEW e \in TaskEvent
  PROVE  Step(m, e) \in Fitting
<1>1. m \in Machine /\ (m.state = "human_review" => m.reason # "plan_review") BY DEF Fitting
<1>2. Step(m, e) \in Machine BY <1>1, StepTyped
<1>3. CASE e.type \in DOMAIN On[m.state]
  <2>. DEFINE t == On[m.state][e.type][e.flag]
  <2>1. m.state \in TASK_STATE_NAMES /\ e.flag \in BOOLEAN BY <1>1 DEF Machine, TaskEvent
  <2>2. HumanReviewFits(t) BY <2>1, <1>3, OnFits
  <2>3. Step(m, e) = [state |-> t.state, reason |-> IF t.sets THEN t.reason ELSE m.reason]
    BY <1>3 DEF Step
  <2>. HIDE DEF t
  <2>. QED BY <1>2, <2>2, <2>3 DEF HumanReviewFits, Fitting
<1>4. CASE e.type \notin DOMAIN On[m.state] BY <1>4 DEF Step
<1>. QED BY <1>3, <1>4

\* What the subscriber persists.
LEMMA Stamped ==
  ASSUME NEW p \in Plan, NEW m \in Fitting
  PROVE  LET q == StampMachine(p, m)
         IN  /\ q \in Plan /\ q.xstate = m.state /\ q.status = LegacyStatus(m.state)
             /\ m.state = "plan_review" => q.reason = "plan_review"
             /\ m.state = "human_review" => q.reason # "plan_review"
<1>. DEFINE q == StampMachine(p, m)
<1>1. m.state \in TASK_STATE_NAMES /\ m.reason \in ReviewReason
      /\ (m.state = "human_review" => m.reason # "plan_review")
  BY DEF Fitting, Machine
<1>2. LegacyStatus(m.state) \in TaskStatus
  BY <1>1 DEF LegacyStatus, TASK_STATE_NAMES, TaskStatus
<1>3. /\ LegacyReason(m.state, m.reason) \in ReviewReason
      /\ m.state = "plan_review" => LegacyReason(m.state, m.reason) = "plan_review"
      /\ m.state = "human_review" => LegacyReason(m.state, m.reason) # "plan_review"
  BY <1>1 DEF LegacyReason, TASK_STATE_NAMES, ReviewReason
<1>4. XSTATE_TO_PHASE[m.state] \in ExecutionPhase
  BY <1>1 DEF XSTATE_TO_PHASE, TASK_STATE_NAMES, ExecutionPhase
<1>5. q = [p EXCEPT !.exists = TRUE, !.status = LegacyStatus(m.state),
             !.reason = LegacyReason(m.state, m.reason), !.xstate = m.state,
             !.phase = XSTATE_TO_PHASE[m.state]]
  BY DEF StampMachine, PersistStatusAndReason
<1>. HIDE DEF q
<1>6. q \in Plan /\ q.xstate = m.state /\ q.status = LegacyStatus(m.state)
      /\ q.reason = LegacyReason(m.state, m.reason)
  BY <1>1, <1>2, <1>3, <1>4, <1>5 DEF Plan
<1>. QED BY <1>3, <1>6 DEF q

\* Both invariants say of the actor and the file what Agree says.
LEMMA PlanInvImplies ==
  ASSUME PlanInv
  PROVE  XStateOnDisk /\ SettledSurvives
<1>1. XStateOnDisk BY DEF PlanInv, Agree, XStateAgrees, XStateOnDisk
<1>2. ASSUME actor.state \in {"plan_review", "human_review", "done"},
             plan.xstate = actor.state, plan.status \notin {"queue", "ai_review"}
      PROVE  Restored(plan).state = actor.state
  <2>1. /\ plan.status = LegacyStatus(actor.state) /\ plan.reason \in ReviewReason
        /\ actor.state = "plan_review" => plan.reason = "plan_review"
        /\ actor.state = "human_review" => plan.reason # "plan_review"
    BY <1>2 DEF PlanInv, Agree, SettledAgrees, Plan
  <2>2. CASE actor.state = "done"
    BY <2>1, <2>2 DEF LegacyStatus, Restored, TaskOf, SnapshotOf
  <2>3. CASE actor.state = "plan_review"
    BY <2>1, <2>3 DEF LegacyStatus, Restored, TaskOf, SnapshotOf
  <2>4. CASE actor.state = "human_review"
    BY <2>1, <2>4 DEF LegacyStatus, Restored, TaskOf, SnapshotOf
  <2>. QED BY <1>2, <2>2, <2>3, <2>4
<1>. QED BY <1>1, <1>2 DEF SettledSurvives

------------------------------------------------------------------------------
(* What each writer does to a file that agrees with its actor.             *)

LEMMA NoActorState == NoActor \notin Fitting /\ NoActor.state = "none"
BY DEF NoActor, Fitting, Machine, TASK_STATE_NAMES

LEMMA AgreeStamped ==
  ASSUME NEW p \in Plan, NEW m \in Fitting, NEW a \in Fitting, a.state = m.state
  PROVE  Agree(a, StampMachine(p, m))
<1>. DEFINE q == StampMachine(p, m)
<1>1. /\ q \in Plan /\ q.xstate = m.state /\ q.status = LegacyStatus(m.state)
      /\ m.state = "plan_review" => q.reason = "plan_review"
      /\ m.state = "human_review" => q.reason # "plan_review"
  BY Stamped
<1>. HIDE DEF q
<1>2. XStateAgrees(a, q) /\ SettledAgrees(a, q)
  BY <1>1 DEF XStateAgrees, SettledAgrees
<1>3. DoneAgrees(a, q)
  BY <1>1 DEF DoneAgrees, LegacyStatus, Fitting, Machine, TASK_STATE_NAMES
<1>. QED BY <1>1, <1>2, <1>3 DEF Agree, q

\* Progress written by persistPlanPhaseSync, for a machine that has not settled.
LEMMA AgreePhase ==
  ASSUME NEW a, NEW p, Agree(a, p), a.state \notin XSTATE_SETTLED_STATES,
         NEW phase \in ExecutionPhase \union {"none"}
  PROVE  Agree(a, PersistPhase(p, phase))
<1>. DEFINE q == PersistPhase(p, phase)
<1>1. p \in Plan BY DEF Agree
<1>2. PHASE_TO_STATUS(phase, p.status) \in TaskStatus \union {"none"}
  BY <1>1 DEF PHASE_TO_STATUS, Plan, TaskStatus, ExecutionPhase
<1>3. q = [p EXCEPT !.exists = TRUE, !.phase = phase, !.status = PHASE_TO_STATUS(phase, p.status)]
  BY DEF PersistPhase
<1>. HIDE DEF q
<1>4. q \in Plan /\ q.xstate = p.xstate /\ q.subtasks = p.subtasks
      /\ (q.status = "done" => p.status = "done")
  BY <1>1, <1>2, <1>3 DEF Plan, PHASE_TO_STATUS
<1>. QED BY <1>4 DEF Agree, XStateAgrees, SettledAgrees, DoneAgrees, XSTATE_SETTLED_STATES, q

LEMMA AgreeProgressed ==
  ASSUME PlanInv, NEW phase \in ExecutionPhase \union {"none"}
  PROVE  Agree(actor, Progressed(phase))
BY AgreePhase DEF Progressed, PlanInv

LEMMA AgreeLastEvent ==
  ASSUME NEW a, NEW p, Agree(a, p), NEW n \in Nat
  PROVE  Agree(a, PersistLastEvent(p, n))
<1>. DEFINE q == [p EXCEPT !.seq = n]
<1>1. p \in Plan BY DEF Agree
<1>2. q \in Plan /\ q.xstate = p.xstate /\ q.subtasks = p.subtasks /\ q.status = p.status
      /\ q.reason = p.reason
  BY <1>1 DEF Plan
<1>. HIDE DEF q
<1>3. Agree(a, q) BY <1>2 DEF Agree, XStateAgrees, SettledAgrees, DoneAgrees
<1>. QED BY <1>3 DEF PersistLastEvent, q

LEMMA NoPlanTyped == NoPlan \in Plan
BY DEF NoPlan, Plan, NoSeq, ReviewReason

\* A move to a column without machine state.
LEMMA AgreeStatus ==
  ASSUME NEW a, NEW p, Agree(a, p), NEW s \in {"queue", "ai_review"}
  PROVE  Agree(a, PersistStatus(p, s))
<1>. DEFINE q == PersistStatus(p, s)
<1>1. p \in Plan BY DEF Agree
<1>2. CASE p.exists
  <2>1. q = [p EXCEPT !.status = s] BY <1>2 DEF PersistStatus
  <2>. HIDE DEF q
  <2>2. q \in Plan /\ q.xstate = p.xstate /\ q.subtasks = p.subtasks /\ q.status = s
    BY <1>1, <2>1 DEF Plan, TaskStatus
  <2>. QED BY <2>2 DEF Agree, XStateAgrees, SettledAgrees, DoneAgrees, q
<1>3. CASE ~p.exists
  <2>1. q = [NoPlan EXCEPT !.exists = TRUE, !.status = s] BY <1>3 DEF PersistStatus
  <2>. HIDE DEF q
  <2>2. q \in Plan /\ q.xstate = "none" /\ q.status = s /\ s # "done"
    BY <2>1, NoPlanTyped DEF Plan, TaskStatus, NoPlan
  <2>. QED BY <2>2 DEF Agree, XStateAgrees, SettledAgrees, DoneAgrees, q
<1>. QED BY <1>2, <1>3

\* The planner's file has no state of the machine at all.
LEMMA AgreePlanner ==
  ASSUME NEW a, NEW p, Agree(a, p)
  PROVE  Agree(a, PlannerOverwrites(p))
<1>. DEFINE q == PlannerOverwrites(p)
<1>1. q = [NoPlan EXCEPT !.exists = TRUE, !.subtasks = "todo"] BY DEF PlannerOverwrites
<1>. HIDE DEF q
<1>2. q \in Plan /\ q.xstate = "none" /\ q.status = "none" BY <1>1, NoPlanTyped DEF Plan, NoPlan
<1>3. a \in Fitting \union {NoActor} BY DEF Agree
<1>4. "none" \notin {"plan_review", "human_review", "done"} OBVIOUS
<1>. QED BY <1>2, <1>3, <1>4 DEF Agree, XStateAgrees, SettledAgrees, DoneAgrees, q

LEMMA AgreeDone ==
  ASSUME NEW a, NEW p, Agree(a, p)
  PROVE  Agree(a, CompleteSubtasks(p))
<1>. DEFINE q == CompleteSubtasks(p)
<1>1. p \in Plan BY DEF Agree
<1>2. q = [p EXCEPT !.subtasks = "done"] BY DEF CompleteSubtasks
<1>. HIDE DEF q
<1>3. q \in Plan /\ q.xstate = p.xstate /\ q.subtasks = "done" /\ q.status = p.status
      /\ q.reason = p.reason
  BY <1>1, <1>2 DEF Plan
<1>. QED BY <1>3 DEF Agree, XStateAgrees, SettledAgrees, DoneAgrees, q

\* The one writer that disagrees, and only for a build that is complete.
LEMMA AgreeStale ==
  ASSUME NEW a, NEW p, Agree(a, p), IsStale(p)
  PROVE  Agree(a, CorrectStale(p))
<1>. DEFINE q == CorrectStale(p)
<1>1. p \in Plan /\ p.subtasks = "done" BY DEF Agree, IsStale
<1>2. q = [p EXCEPT !.status = "human_review", !.reason = "completed",
                    !.xstate = "human_review", !.phase = "complete"]
  BY DEF CorrectStale
<1>. HIDE DEF q
<1>3. q \in Plan /\ q.xstate = "human_review" /\ q.subtasks = "done" /\ q.status = "human_review"
      /\ q.reason = "completed"
  BY <1>1, <1>2 DEF Plan, TaskStatus, ReviewReason, TASK_STATE_NAMES, ExecutionPhase
<1>. QED BY <1>3 DEF Agree, XStateAgrees, SettledAgrees, DoneAgrees, LegacyStatus, q

\* An event given to the actor: a changed state is persisted, and so is the
\* state an actor is created in.
LEMMA AgreeEvent ==
  ASSUME NEW a, NEW p, Agree(a, p), NEW e \in TaskEvent
  PROVE  LET before == Actor(a, p)
             after  == Step(before, e)
             q      == CreatedPlan(a, p)
         IN  Agree(after, IF after.state # before.state THEN StampMachine(q, after) ELSE q)
<1>. DEFINE before == Actor(a, p)
            after  == Step(before, e)
            q      == CreatedPlan(a, p)
<1>1. p \in Plan /\ a \in Fitting \union {NoActor} BY DEF Agree
<1>2. before \in Fitting BY <1>1, RestoredFits DEF Actor
<1>3. after \in Fitting BY <1>2, StepFits
<1>4. q \in Plan
  <2>1. StampMachine(p, Restored(p)) \in Plan BY <1>1, RestoredFits, Stamped
  <2>. QED BY <1>1, <2>1 DEF CreatedPlan
<1>5. a = NoActor => before = Restored(p) /\ q = StampMachine(p, before)
  BY DEF Actor, CreatedPlan
<1>6. a # NoActor => before = a /\ q = p BY DEF Actor, CreatedPlan
<1>7. XStateAgrees(a, p) /\ SettledAgrees(a, p) /\ DoneAgrees(a, p) BY DEF Agree
<1>8. Agree(after, IF after.state # before.state THEN StampMachine(q, after) ELSE q)
  <2>. HIDE DEF before, after, q
  <2>1. CASE after.state # before.state BY <1>3, <1>4, <2>1, AgreeStamped
  <2>2. CASE after.state = before.state /\ a = NoActor
    BY <1>1, <1>2, <1>3, <1>5, <2>2, AgreeStamped
  <2>3. CASE after.state = before.state /\ a # NoActor
    <3>1. XStateAgrees(after, p) /\ SettledAgrees(after, p) /\ DoneAgrees(after, p)
      BY <1>1, <1>3, <1>6, <1>7, <2>3, NoActorState DEF XStateAgrees, SettledAgrees, DoneAgrees
    <3>. QED BY <1>1, <1>3, <1>6, <2>3, <3>1 DEF Agree
  <2>. QED BY <2>1, <2>2, <2>3
<1>. QED BY <1>8

------------------------------------------------------------------------------
(* The processes.                                                          *)

\* The events the backend sends; the others are the user's and the frontend's.
BackendEvent ==
  {"PLANNING_STARTED", "PLANNING_COMPLETE", "PLANNING_FAILED", "QA_STARTED",
   "QA_PASSED", "QA_FAILED", "QA_FIXING_STARTED", "QA_FIXING_COMPLETE",
   "QA_MAX_ITERATIONS", "QA_AGENT_ERROR"}

Spoken == [type : {"PHASE"}, phase : ExecutionPhase, flag : BOOLEAN, seq : Nat]
          \union [type : BackendEvent, phase : {"none"}, flag : BOOLEAN, seq : Nat]

SpokenRun == [kind : Kind, stage : Stage, code : {"none", "ok", "fail"},
              seq : Nat, pipe : Seq(Spoken), phase : ExecutionPhase]

\* A run that was marked as killed does nothing more than end.
KilledRests == \A r \in killed : run[r].stage \in {"killed", "ended", "reaped"}

RunInv == /\ run \in Seq(SpokenRun)
          /\ tracked \in 0 .. Len(run) /\ killed \subseteq Runs
          /\ TrackedLive /\ KilledRests

LEMMA SpokenTyped == SpokenRun \subseteq Run
<1>1. Spoken \subseteq Line
  BY DEF Spoken, Line, BackendEvent, TaskEventType
<1>2. Seq(Spoken) \subseteq Seq(Line) BY <1>1
<1>. QED BY <1>2 DEF SpokenRun, Run

LEMMA LinesSpoken ==
  /\ \A p \in ExecutionPhase : PhaseLine(p) \in Spoken
  /\ \A e \in BackendEvent, f \in BOOLEAN, n \in Nat : EventLine(e, f, n) \in Spoken
BY DEF PhaseLine, EventLine, Spoken

LEMMA LineSeqs ==
  \A k, l, m \in Spoken :
    {<< >>, <<k>>, <<k, l>>, <<k, l, m>>, <<k, l>> \o <<m>>, <<k, l>> \o << >>} \subseteq Seq(Spoken)
OBVIOUS

\* Changing one element of a sequence.
LEMMA ReplaceInSeq ==
  ASSUME NEW R, NEW q \in Seq(R), NEW i \in 1 .. Len(q), NEW e \in R
  PROVE  /\ [q EXCEPT ![i] = e] \in Seq(R)
         /\ Len([q EXCEPT ![i] = e]) = Len(q)
         /\ \A j \in 1 .. Len(q) : [q EXCEPT ![i] = e][j] = IF j = i THEN e ELSE q[j]
OBVIOUS

\* The processes are told apart by nothing but the record of run r.
Changes(r, e) ==
  /\ run' = [run EXCEPT ![r] = e]
  /\ e \in SpokenRun /\ (e.stage = "reaped" => run[r].stage = "reaped")
  /\ r \in killed => e.stage \in {run[r].stage, "ended"}

LEMMA ChangesKeeps ==
  ASSUME RunInv, NEW r \in Runs, NEW e, Changes(r, e), UNCHANGED <<tracked, killed>>
  PROVE  RunInv'
<1>1. run \in Seq(SpokenRun) /\ r \in 1 .. Len(run) /\ tracked \in 0 .. Len(run) BY DEF RunInv, Runs
<1>2. /\ run' \in Seq(SpokenRun) /\ Len(run') = Len(run)
      /\ \A j \in 1 .. Len(run) : run'[j] = IF j = r THEN e ELSE run[j]
  BY <1>1, ReplaceInSeq DEF Changes
<1>3. TrackedLive'
  BY <1>1, <1>2 DEF TrackedLive, RunInv, Changes
<1>4. KilledRests'
  BY <1>2 DEF KilledRests, RunInv, Runs, Changes
<1>. QED BY <1>2, <1>3, <1>4 DEF RunInv, Runs

\* An exit that was handled.
LEMMA ReapKeeps ==
  ASSUME RunInv, NEW r \in Runs, run' = [run EXCEPT ![r] = Reaped(r)], tracked' = 0,
         killed' \subseteq killed
  PROVE  RunInv'
<1>1. run \in Seq(SpokenRun) /\ r \in 1 .. Len(run) BY DEF RunInv, Runs
<1>2. run[r] \in SpokenRun BY <1>1
<1>3. Reaped(r) \in SpokenRun BY <1>2 DEF Reaped, SpokenRun, Stage, ExecutionPhase
<1>4. /\ run' \in Seq(SpokenRun) /\ Len(run') = Len(run)
      /\ \A j \in 1 .. Len(run) : run'[j] = IF j = r THEN Reaped(r) ELSE run[j]
  BY <1>1, <1>3, ReplaceInSeq
<1>5. Reaped(r).stage = "reaped" BY <1>2 DEF Reaped, SpokenRun
<1>6. KilledRests' BY <1>4, <1>5 DEF KilledRests, RunInv, Runs
<1>. QED BY <1>4, <1>6 DEF RunInv, Runs, TrackedLive

\* markSpawnAsKilled and SIGTERM.
LEMMA AfterKillTyped ==
  ASSUME RunInv
  PROVE  /\ AfterKill \in Seq(SpokenRun) /\ Len(AfterKill) = Len(run)
         /\ KilledRuns \subseteq Runs
         /\ \A r \in KilledRuns : AfterKill[r].stage \in {"killed", "ended", "reaped"}
<1>1. run \in Seq(SpokenRun) BY DEF RunInv
<1>2. ASSUME NEW r \in Runs
      PROVE  (IF r # tracked THEN run[r]
              ELSE [Reaped(r) EXCEPT !.stage = IF Alive(r) THEN "killed" ELSE run[r].stage])
             \in SpokenRun
  <2>1. run[r] \in SpokenRun BY <1>1 DEF Runs
  <2>2. Reaped(r) \in SpokenRun BY <2>1 DEF Reaped, SpokenRun, Stage, ExecutionPhase
  <2>3. (IF Alive(r) THEN "killed" ELSE run[r].stage) \in Stage BY <2>1 DEF SpokenRun, Stage
  <2>. HIDE DEF Reaped
  <2>4. [Reaped(r) EXCEPT !.stage = IF Alive(r) THEN "killed" ELSE run[r].stage] \in SpokenRun
    BY <2>2, <2>3 DEF SpokenRun
  <2>. QED BY <2>1, <2>4
<1>3. AfterKill \in [Runs -> SpokenRun] BY <1>2 DEF AfterKill
<1>4. Len(run) \in Nat BY <1>1
<1>5. KilledRuns \subseteq Runs BY DEF KilledRuns, RunInv, Runs
<1>6. ASSUME NEW r \in KilledRuns
      PROVE  AfterKill[r].stage \in {"killed", "ended", "reaped"}
  <2>1. r \in Runs BY <1>5
  <2>2. CASE r = tracked
    <3>1. Reaped(r) \in [kind : Kind, stage : Stage, code : {"none", "ok", "fail"}, seq : Nat,
                          pipe : Seq(Spoken), phase : ExecutionPhase]
      <4>1. run[r] \in SpokenRun BY <1>1, <2>1 DEF Runs
      <4>. QED BY <4>1 DEF Reaped, SpokenRun, Stage, ExecutionPhase
    <3>2. AfterKill[r] = [Reaped(r) EXCEPT !.stage = IF Alive(r) THEN "killed" ELSE run[r].stage]
      BY <2>1, <2>2 DEF AfterKill
    <3>. HIDE DEF Reaped
    <3>3. AfterKill[r].stage = IF Alive(r) THEN "killed" ELSE run[r].stage BY <3>1, <3>2
    <3>. QED BY <2>1, <3>3 DEF Alive
  <2>3. CASE r # tracked
    BY <2>1, <2>3 DEF AfterKill, KilledRuns, RunInv, KilledRests
  <2>. QED BY <2>2, <2>3
<1>. QED BY <1>3, <1>4, <1>5, <1>6 DEF Runs

LEMMA KillKeeps ==
  ASSUME RunInv, Kill
  PROVE  RunInv'
<1>1. run' = AfterKill /\ killed' = KilledRuns /\ tracked' = 0 BY DEF Kill
<1>2. KilledRests' BY <1>1, AfterKillTyped DEF KilledRests
<1>. QED BY <1>1, <1>2, AfterKillTyped DEF RunInv, Runs, TrackedLive

LEMMA SpawnKeeps ==
  ASSUME RunInv, Spawn
  PROVE  RunInv'
<1>. DEFINE e == [kind  |-> starting,
                  stage |-> CASE starting = "spec"  -> "boot"
                              [] starting = "build" -> "buildboot"
                              [] starting = "qa"    -> "qaboot",
                  code  |-> "none", seq |-> 0, pipe |-> << >>,
                  phase |-> "planning"]
<1>1. run' = Append(AfterKill, e) /\ starting \in Kind /\ killed' = KilledRuns
      /\ tracked' = Len(run')
  BY DEF Spawn
<1>2. e \in SpokenRun /\ e.stage # "reaped" BY <1>1 DEF SpokenRun, Kind, Stage, ExecutionPhase
<1>. HIDE DEF e
<1>3. /\ AfterKill \in Seq(SpokenRun) /\ Len(AfterKill) = Len(run) /\ KilledRuns \subseteq Runs
  BY AfterKillTyped
<1>4. /\ run' \in Seq(SpokenRun) /\ Len(run') = Len(run) + 1 /\ run'[Len(run) + 1] = e
      /\ \A r \in 1 .. Len(run) : run'[r] = AfterKill[r]
  BY <1>1, <1>2, <1>3
<1>5. Len(run) \in Nat BY DEF RunInv
<1>6. Len(run) + 1 \notin KilledRuns /\ KilledRuns \subseteq 1 .. Len(run) + 1
  BY <1>3, <1>5 DEF Runs
<1>7. KilledRests' BY <1>1, <1>3, <1>4, AfterKillTyped DEF KilledRests, Runs
<1>. QED BY <1>1, <1>2, <1>4, <1>5, <1>6, <1>7 DEF RunInv, Runs, TrackedLive

LEMMA RestartKeeps ==
  ASSUME RunInv, AppRestart
  PROVE  RunInv'
<1>1. run \in Seq(SpokenRun) /\ Len(run) \in Nat BY DEF RunInv
<1>2. ASSUME NEW r \in Runs
      PROVE  [Reaped(r) EXCEPT !.pipe = << >>] \in SpokenRun
  <2>1. run[r] \in SpokenRun BY <1>1 DEF Runs
  <2>2. Reaped(r) \in SpokenRun BY <2>1 DEF Reaped, SpokenRun, Stage, ExecutionPhase
  <2>3. << >> \in Seq(Spoken) OBVIOUS
  <2>. QED BY <2>2, <2>3 DEF SpokenRun
<1>3. run' \in [Runs -> SpokenRun] BY <1>2 DEF AppRestart
<1>4. run' \in Seq(SpokenRun) /\ tracked' = 0 /\ killed' = {} BY <1>1, <1>3 DEF Runs, AppRestart
<1>5. Len(run') \in Nat BY <1>4
<1>. QED BY <1>4, <1>5 DEF RunInv, Runs, TrackedLive, KilledRests

------------------------------------------------------------------------------
(* What a run prints.                                                      *)

LEMMA HeadSpoken ==
  ASSUME RunInv, NEW r \in Runs, HasLine(r)
  PROVE  /\ run[r] \in SpokenRun /\ Tail(run[r].pipe) \in Seq(Spoken)
         /\ Head1(r) \in Spoken
<1>1. run[r] \in SpokenRun BY DEF RunInv, Runs
<1>2. run[r].pipe \in Seq(Spoken) /\ run[r].pipe # << >> BY <1>1 DEF SpokenRun, HasLine
<1>. QED BY <1>1, <1>2 DEF Head1

LEMMA RestChanges ==
  ASSUME RunInv, NEW r \in Runs, HasLine(r), run' = Rest(r)
  PROVE  \E e : Changes(r, e)
<1>. DEFINE e == [run[r] EXCEPT !.pipe = Tail(@)]
<1>1. run' = [run EXCEPT ![r] = e] BY DEF Rest
<1>2. e \in SpokenRun /\ e.stage = run[r].stage BY HeadSpoken DEF SpokenRun
<1>. QED BY <1>1, <1>2 DEF Changes

\* A run that prints lines and goes on, numbering its events from seq.
LEMMA SpeaksChanges ==
  ASSUME RunInv, NEW r \in Runs, NEW lines \in Seq(Spoken),
         NEW stage \in Stage \ {"reaped"}, NEW code \in {"none", "ok", "fail"}, NEW seq \in Nat,
         Works(r)
  PROVE  /\ run' = [run EXCEPT ![r].pipe = @ \o lines, ![r].stage = stage] => \E e : Changes(r, e)
         /\ run' = [run EXCEPT ![r].stage = stage, ![r].seq = seq, ![r].pipe = @ \o lines]
              => \E e : Changes(r, e)
         /\ run' = [run EXCEPT ![r].pipe = @ \o lines, ![r].stage = stage,
                               ![r].code = code, ![r].seq = seq] => \E e : Changes(r, e)
<1>1. run[r] \in SpokenRun BY DEF RunInv, Runs
<1>0. r \notin killed BY DEF Works, Alive, RunInv, KilledRests
<1>2. run[r].pipe \in Seq(Spoken) BY <1>1 DEF SpokenRun
<1>3. run[r].pipe \o lines \in Seq(Spoken) BY <1>2
<1>4. ASSUME run' = [run EXCEPT ![r].pipe = @ \o lines, ![r].stage = stage]
      PROVE  \E e : Changes(r, e)
  <2>. DEFINE e == [run[r] EXCEPT !.pipe = @ \o lines, !.stage = stage]
  <2>1. run' = [run EXCEPT ![r] = e] BY <1>4
  <2>2. e \in SpokenRun /\ e.stage # "reaped" BY <1>1, <1>3 DEF SpokenRun
  <2>. QED BY <1>0, <2>1, <2>2 DEF Changes
<1>5. ASSUME run' = [run EXCEPT ![r].stage = stage, ![r].seq = seq, ![r].pipe = @ \o lines]
      PROVE  \E e : Changes(r, e)
  <2>. DEFINE e == [run[r] EXCEPT !.stage = stage, !.seq = seq, !.pipe = @ \o lines]
  <2>1. run' = [run EXCEPT ![r] = e] BY <1>5
  <2>2. e \in SpokenRun /\ e.stage # "reaped" BY <1>1, <1>3 DEF SpokenRun
  <2>. QED BY <1>0, <2>1, <2>2 DEF Changes
<1>6. ASSUME run' = [run EXCEPT ![r].pipe = @ \o lines, ![r].stage = stage,
                               ![r].code = code, ![r].seq = seq]
      PROVE  \E e : Changes(r, e)
  <2>. DEFINE e == [run[r] EXCEPT !.pipe = @ \o lines, !.stage = stage, !.code = code, !.seq = seq]
  <2>1. run' = [run EXCEPT ![r] = e] BY <1>6
  <2>2. e \in SpokenRun /\ e.stage # "reaped" BY <1>1, <1>3 DEF SpokenRun
  <2>. QED BY <1>0, <2>1, <2>2 DEF Changes
<1>. QED BY <1>4, <1>5, <1>6

LEMMA PrintsChanges ==
  ASSUME RunInv, NEW r \in Runs, NEW lines \in Seq(Spoken), NEW stage \in Stage \ {"reaped"},
         Prints(r, lines, stage)
  PROVE  \E e : Changes(r, e)
<1>1. 0 \in Nat /\ "none" \in {"none", "ok", "fail"} OBVIOUS
<1>. QED BY <1>1, SpeaksChanges DEF Prints

LEMMA EndsChanges ==
  ASSUME RunInv, NEW r \in Runs, NEW lines \in Seq(Spoken), NEW code \in {"none", "ok", "fail"},
         PrintsAndEnds(r, lines, code)
  PROVE  \E e : Changes(r, e)
<1>1. 0 \in Nat /\ "ended" \in Stage \ {"reaped"} BY DEF Stage
<1>. QED BY <1>1, SpeaksChanges DEF PrintsAndEnds

\* Every step of a run only changes the record of the run.
LEMMA BackendChanges ==
  ASSUME RunInv, PlanInv, requireReview \in BOOLEAN, NEW r \in Runs, Backend(r)
  PROVE  \E e : Changes(r, e)
<1>1. run[r] \in SpokenRun /\ run[r].seq \in Nat /\ EmitterSeq \in Nat
  <2>1. plan.seq \in Nat \union {NoSeq} BY DEF PlanInv, Agree, Plan
  <2>2. EmitterSeq \in Nat BY <2>1 DEF EmitterSeq, NoSeq
  <2>3. run[r] \in SpokenRun BY DEF RunInv, Runs
  <2>. QED BY <2>2, <2>3 DEF SpokenRun
<1>2. /\ {"planning", "coding", "qa_review", "qa_fixing", "complete", "failed"} \subseteq ExecutionPhase
      /\ {"planning", "specced", "written", "buildboot", "buildplan", "coding", "qaboot",
          "feedback", "answering", "review", "fixing", "ended"} \subseteq Stage \ {"reaped"}
  BY DEF ExecutionPhase, Stage
<1>3. run[r].seq + 1 \in Nat /\ run[r].seq + 2 \in Nat /\ EmitterSeq + 1 \in Nat
      /\ << >> \in Seq(Spoken)
  BY <1>1
<1>4. CASE SpecStarts(r)
  <2>1. EventLine("PLANNING_STARTED", FALSE, EmitterSeq) \in Spoken
    BY <1>1, LinesSpoken DEF BackendEvent
  <2>2. <<EventLine("PLANNING_STARTED", FALSE, EmitterSeq)>> \in Seq(Spoken) BY <2>1, LineSeqs
  <2>. QED BY <1>2, <1>4, <2>2, PrintsChanges DEF SpecStarts
<1>5. CASE WritesSpec(r) BY <1>2, <1>3, <1>5, PrintsChanges DEF WritesSpec
<1>6. CASE WritesPlan(r)
  <2>1. PhaseLine("coding") \in Spoken BY <1>2, LinesSpoken
  <2>2. <<PhaseLine("coding")>> \in Seq(Spoken) BY <2>1, LineSeqs
  <2>. QED BY <1>2, <1>3, <1>6, <2>2, PrintsChanges DEF WritesPlan
<1>7. CASE SpecCompletes(r)
  <2>1. EventLine("PLANNING_COMPLETE", requireReview, EmitterSeq) \in Spoken
    BY <1>1, LinesSpoken DEF BackendEvent
  <2>2. <<EventLine("PLANNING_COMPLETE", requireReview, EmitterSeq)>> \in Seq(Spoken)
    BY <2>1, LineSeqs
  <2>. QED BY <1>2, <1>7, <2>2, PrintsChanges, EndsChanges DEF SpecCompletes
<1>8. CASE SpecFails(r)
  <2>1. EventLine("PLANNING_FAILED", FALSE, EmitterSeq) \in Spoken
    BY <1>1, LinesSpoken DEF BackendEvent
  <2>2. <<EventLine("PLANNING_FAILED", FALSE, EmitterSeq)>> \in Seq(Spoken) BY <2>1, LineSeqs
  <2>. QED BY <1>8, <2>2, EndsChanges DEF SpecFails
<1>9. CASE BuildStarts(r)
  <2>0. PhaseLine("planning") \in Spoken /\ PhaseLine("coding") \in Spoken BY <1>2, LinesSpoken
  <2>1. <<PhaseLine("planning")>> \in Seq(Spoken) /\ <<PhaseLine("coding")>> \in Seq(Spoken)
    BY <2>0, LineSeqs
  <2>2. plan.subtasks \in {"none", "todo", "done"} BY DEF PlanInv, Agree, Plan
  <2>3. CASE plan.subtasks = "none" BY <1>2, <1>9, <2>1, <2>3, PrintsChanges DEF BuildStarts
  <2>4. CASE plan.subtasks = "todo" BY <1>2, <1>9, <2>1, <2>4, PrintsChanges DEF BuildStarts
  <2>5. CASE plan.subtasks = "done" BY <1>2, <1>3, <1>9, <2>5, PrintsChanges DEF BuildStarts
  <2>. QED BY <2>2, <2>3, <2>4, <2>5
<1>10. CASE CoderErrs(r)
  <2>1. PhaseLine("failed") \in Spoken BY <1>2, LinesSpoken
  <2>2. <<PhaseLine("failed")>> \in Seq(Spoken) BY <2>1, LineSeqs
  <2>. QED BY <1>2, <1>10, <2>2, PrintsChanges DEF CoderErrs
<1>11. CASE CoderCompletes(r) BY <1>2, <1>3, <1>11, PrintsChanges DEF CoderCompletes
<1>12. CASE BuildStops(r) BY <1>3, <1>12, EndsChanges DEF BuildStops
<1>13. CASE QaStarts(r)
  <2>1. PhaseLine("qa_review") \in Spoken /\ EventLine("QA_STARTED", FALSE, EmitterSeq) \in Spoken
    BY <1>1, <1>2, LinesSpoken DEF BackendEvent
  <2>2. <<PhaseLine("qa_review"), EventLine("QA_STARTED", FALSE, EmitterSeq)>> \in Seq(Spoken)
    BY <2>1, LineSeqs
  <2>3. (IF run[r].kind = "qa" THEN "feedback" ELSE "review") \in Stage \ {"reaped"} BY <1>2
  <2>4. Works(r) BY <1>13 DEF QaStarts
  <2>. QED BY <1>3, <1>13, <2>2, <2>3, <2>4, SpeaksChanges DEF QaStarts
<1>14. CASE QaTakesFeedback(r)
  <2>1. /\ PhaseLine("qa_fixing") \in Spoken
        /\ EventLine("QA_FIXING_STARTED", FALSE, run[r].seq) \in Spoken
    BY <1>1, <1>2, LinesSpoken DEF BackendEvent
  <2>2. <<PhaseLine("qa_fixing"), EventLine("QA_FIXING_STARTED", FALSE, run[r].seq)>> \in Seq(Spoken)
    BY <2>1, LineSeqs
  <2>3. run' = [run EXCEPT ![r].stage = "answering", ![r].seq = run[r].seq + 1,
                  ![r].pipe = @ \o <<PhaseLine("qa_fixing"),
                                     EventLine("QA_FIXING_STARTED", FALSE, run[r].seq)>>]
    BY <1>14 DEF QaTakesFeedback
  <2>4. Works(r) BY <1>14 DEF QaTakesFeedback
  <2>. QED BY <1>2, <1>3, <2>2, <2>3, <2>4, SpeaksChanges
<1>15. CASE QaFeedbackFails(r) BY <1>3, <1>15, EndsChanges DEF QaFeedbackFails
<1>16. CASE QaRefuses(r) BY <1>3, <1>16, EndsChanges DEF QaRefuses
<1>17. CASE QaApproves(r)
  <2>1. PhaseLine("complete") \in Spoken /\ EventLine("QA_PASSED", FALSE, run[r].seq) \in Spoken
    BY <1>1, <1>2, LinesSpoken DEF BackendEvent
  <2>2. <<PhaseLine("complete"), EventLine("QA_PASSED", FALSE, run[r].seq)>> \in Seq(Spoken)
    BY <2>1, LineSeqs
  <2>. QED BY <1>17, <2>2, EndsChanges DEF QaApproves, QaEnds
<1>18. CASE QaRejects(r)
  <2>. DEFINE lines == <<EventLine("QA_FAILED", FALSE, run[r].seq), PhaseLine("qa_fixing"),
                         EventLine("QA_FIXING_STARTED", FALSE, run[r].seq + 1)>>
  <2>1. /\ EventLine("QA_FAILED", FALSE, run[r].seq) \in Spoken
        /\ EventLine("QA_FIXING_STARTED", FALSE, run[r].seq + 1) \in Spoken
        /\ PhaseLine("qa_fixing") \in Spoken
    BY <1>1, <1>2, <1>3, LinesSpoken DEF BackendEvent
  <2>2. lines \in Seq(Spoken) BY <2>1, LineSeqs
  <2>3. run' = [run EXCEPT ![r].stage = "fixing", ![r].seq = run[r].seq + 2, ![r].pipe = @ \o lines]
    BY <1>18 DEF QaRejects
  <2>4. Works(r) BY <1>18 DEF QaRejects
  <2>. HIDE DEF lines
  <2>. QED BY <1>2, <1>3, <2>2, <2>3, <2>4, SpeaksChanges
<1>19. CASE QaFixes(r)
  <2>. DEFINE lines == <<EventLine("QA_FIXING_COMPLETE", FALSE, run[r].seq), PhaseLine("qa_review")>>
  <2>1. /\ EventLine("QA_FIXING_COMPLETE", FALSE, run[r].seq) \in Spoken
        /\ PhaseLine("qa_review") \in Spoken
    BY <1>1, <1>2, LinesSpoken DEF BackendEvent
  <2>2. lines \in Seq(Spoken) BY <2>1, LineSeqs
  <2>3. run' = [run EXCEPT ![r].stage = "review", ![r].seq = run[r].seq + 1, ![r].pipe = @ \o lines]
    BY <1>19 DEF QaFixes
  <2>4. Works(r) BY <1>19 DEF QaFixes
  <2>. HIDE DEF lines
  <2>. QED BY <1>2, <1>3, <2>2, <2>3, <2>4, SpeaksChanges
<1>20. CASE QaIterates(r)
  <2>1. PhaseLine("qa_review") \in Spoken BY <1>2, LinesSpoken
  <2>2. <<PhaseLine("qa_review")>> \in Seq(Spoken) BY <2>1, LineSeqs
  <2>. QED BY <1>2, <1>20, <2>2, PrintsChanges DEF QaIterates
<1>21. CASE QaGivesUp(r)
  <2>1. /\ EventLine("QA_FAILED", FALSE, run[r].seq) \in Spoken
        /\ EventLine("QA_MAX_ITERATIONS", FALSE, run[r].seq) \in Spoken
        /\ EventLine("QA_MAX_ITERATIONS", FALSE, run[r].seq + 1) \in Spoken
        /\ PhaseLine("failed") \in Spoken
    BY <1>1, <1>2, <1>3, LinesSpoken DEF BackendEvent
  <2>2. \E lines \in Seq(Spoken), approved \in BOOLEAN : QaEnds(r, lines, approved)
    <3>1. CASE \E last \in {<< >>, <<PhaseLine("failed")>>} :
                 QaEnds(r, <<EventLine("QA_FAILED", FALSE, run[r].seq),
                             EventLine("QA_MAX_ITERATIONS", FALSE, run[r].seq + 1)>> \o last, FALSE)
      <4>1. PICK last \in {<< >>, <<PhaseLine("failed")>>} :
                 QaEnds(r, <<EventLine("QA_FAILED", FALSE, run[r].seq),
                             EventLine("QA_MAX_ITERATIONS", FALSE, run[r].seq + 1)>> \o last, FALSE)
        BY <3>1
      <4>2. CASE last = << >> BY <2>1, <4>1, <4>2, LineSeqs
      <4>3. CASE last = <<PhaseLine("failed")>> BY <2>1, <4>1, <4>3, LineSeqs
      <4>. QED BY <4>1, <4>2, <4>3
    <3>2. CASE QaEnds(r, <<PhaseLine("failed"),
                           EventLine("QA_MAX_ITERATIONS", FALSE, run[r].seq)>>, FALSE)
      <4>1. <<PhaseLine("failed"), EventLine("QA_MAX_ITERATIONS", FALSE, run[r].seq)>> \in Seq(Spoken)
        BY <2>1, LineSeqs
      <4>. QED BY <3>2, <4>1
    <3>. QED BY <1>21, <3>1, <3>2 DEF QaGivesUp
  <2>. QED BY <2>2, EndsChanges DEF QaEnds
<1>22. CASE QaAgentErrs(r)
  <2>1. EventLine("QA_AGENT_ERROR", FALSE, run[r].seq) \in Spoken
    BY <1>1, LinesSpoken DEF BackendEvent
  <2>2. <<EventLine("QA_AGENT_ERROR", FALSE, run[r].seq)>> \in Seq(Spoken) BY <2>1, LineSeqs
  <2>. QED BY <1>22, <2>2, EndsChanges DEF QaAgentErrs, QaEnds
<1>23. CASE Crash(r)
  <2>. DEFINE e == [run[r] EXCEPT !.stage = "ended", !.seq = 0,
                                  !.code = IF run[r].stage = "killed" THEN @ ELSE "fail"]
  <2>1. run' = [run EXCEPT ![r] = e] BY <1>23 DEF Crash
  <2>2. e \in SpokenRun /\ e.stage = "ended" BY <1>1, <1>2 DEF SpokenRun
  <2>. HIDE DEF e
  <2>3. Changes(r, e) BY <2>1, <2>2 DEF Changes
  <2>. QED BY <2>3
<1>. QED BY <1>4, <1>5, <1>6, <1>7, <1>8, <1>9, <1>10, <1>11, <1>12, <1>13, <1>14, <1>15, <1>16,
            <1>17, <1>18, <1>19, <1>20, <1>21, <1>22, <1>23 DEF Backend

------------------------------------------------------------------------------
(* The inductive invariant.                                                *)

RestInv ==
  /\ lastSeq \in Nat \union {NoSeq} /\ terminalSeen \in BOOLEAN
  /\ hasSpec \in BOOLEAN /\ requireReview \in BOOLEAN /\ autoSwap \in BOOLEAN
  /\ starting \in Kind \union {"no", "start"}
  /\ users \in Nat /\ reloads \in Nat

IInv == PlanInv /\ RunInv /\ RestInv

LEMMA InitIInv == Init => IInv
<1>. SUFFICES ASSUME Init PROVE IInv OBVIOUS
<1>1. PlanInv
  <2>1. plan = NoPlan /\ actor = NoActor BY DEF Init
  <2>. QED BY <2>1, NoPlanTyped, NoActorState
           DEF PlanInv, Agree, XStateAgrees, SettledAgrees, DoneAgrees
<1>2. RunInv BY DEF Init, RunInv, Runs, TrackedLive, KilledRests
<1>3. RestInv BY BoundsAssumption DEF Init, RestInv, NoSeq
<1>. QED BY <1>1, <1>2, <1>3 DEF IInv

LEMMA IInvImplies ==
  ASSUME IInv
  PROVE  TypeOK /\ XStateOnDisk /\ SettledSurvives /\ TrackedLive
<1>1. actor \in Machine \union {NoActor} /\ plan \in Plan
  BY DEF IInv, PlanInv, Agree, Fitting
<1>2. run \in Seq(SpokenRun) BY DEF IInv, RunInv
<1>3. run \in Seq(Run) BY <1>2, SpokenTyped
<1>. QED BY <1>1, <1>3, PlanInvImplies DEF IInv, RunInv, RestInv, TypeOK

\* An event of a handler of the frontend.
LEMMA SendKeeps ==
  ASSUME PlanInv, NEW e \in TaskEvent, Send(e)
  PROVE  PlanInv'
<1>1. Agree(actor, plan) BY DEF PlanInv
<1>2. LET before == Actor(actor, plan)
          after  == Step(before, e)
          q      == CreatedPlan(actor, plan)
      IN  Agree(after, IF after.state # before.state THEN StampMachine(q, after) ELSE q)
  BY <1>1, AgreeEvent
<1>. QED BY <1>2 DEF Send, PlanInv

LEMMA EventsTyped ==
  /\ \A type \in TaskEventType : Event(type) \in TaskEvent
  /\ \A type \in TaskEventType, f \in BOOLEAN : FlagEvent(type, f) \in TaskEvent
BY DEF Event, FlagEvent, TaskEvent

\* An exit, after the exit handler made p of the plan.
LEMMA ExitKeeps ==
  ASSUME NEW p, Agree(actor, p), NEW unexpected \in BOOLEAN, ProcessExited(p, unexpected)
  PROVE  PlanInv'
<1>1. CASE terminalSeen BY <1>1 DEF ProcessExited, PlanInv
<1>2. CASE ~terminalSeen
  <2>1. FlagEvent("PROCESS_EXITED", unexpected) \in TaskEvent BY EventsTyped DEF TaskEventType
  <2>2. LET before == Actor(actor, p)
            after  == Step(before, FlagEvent("PROCESS_EXITED", unexpected))
            q      == CreatedPlan(actor, p)
        IN  Agree(after, IF after.state # before.state THEN StampMachine(q, after) ELSE q)
    BY <2>1, AgreeEvent
  <2>. QED BY <1>2, <2>2 DEF ProcessExited, PlanInv
<1>. QED BY <1>1, <1>2

\* An event read from a pipe is persisted with its number.
LEMMA TaskEventKeeps ==
  ASSUME PlanInv, RunInv, NEW r \in Runs, HandleTaskEvent(r)
  PROVE  PlanInv'
<1>. DEFINE line   == Head1(r)
            before == Actor(actor, plan)
            after  == Step(before, FlagEvent(line.type, line.flag))
            p      == CreatedPlan(actor, plan)
            q      == IF after.state # before.state THEN StampMachine(p, after) ELSE p
<1>1. line.type \in TaskEventType /\ line.flag \in BOOLEAN /\ line.seq \in Nat
  <2>1. line \in Spoken BY HeadSpoken DEF HandleTaskEvent
  <2>. QED BY <2>1 DEF Spoken, BackendEvent, TaskEventType, HandleTaskEvent
<1>2. FlagEvent(line.type, line.flag) \in TaskEvent BY <1>1, EventsTyped
<1>3. Agree(actor, plan) BY DEF PlanInv
<1>4. Agree(after, q) BY <1>2, <1>3, AgreeEvent
<1>5. actor' = after /\ plan' = PersistLastEvent(q, line.seq) BY DEF HandleTaskEvent
<1>. HIDE DEF line, after, q
<1>6. Agree(after, PersistLastEvent(q, line.seq)) BY <1>1, <1>4, AgreeLastEvent
<1>. QED BY <1>5, <1>6 DEF PlanInv

LEMMA BudgetTyped ==
  ASSUME RestInv
  PROVE  /\ UserStep => users' \in Nat /\ reloads' \in Nat
         /\ Reload => users' \in Nat /\ reloads' \in Nat
BY DEF RestInv, UserStep, Reload

\* A step of the user.
LEMMA UserKeeps ==
  ASSUME IInv, User
  PROVE  IInv'
<1>0. PlanInv /\ RunInv /\ RestInv BY DEF IInv
<1>1. CASE TaskStart
  <2>1. StartEvent \in TaskEvent
    BY EventsTyped DEF StartEvent, TaskEventType
  <2>2. PlanInv' BY <1>0, <1>1, <2>1, SendKeeps DEF TaskStart
  <2>3. RunInv' BY <1>0, <1>1 DEF TaskStart, RunInv, Runs, TrackedLive, KilledRests
  <2>4. RestInv' BY <1>0, <1>1, BudgetTyped DEF TaskStart, RestInv, PrepareForRestart, settings
  <2>. QED BY <2>2, <2>3, <2>4 DEF IInv
<1>2. CASE TaskStop
  <2>1. FlagEvent("USER_STOPPED", HasSubtasks(plan)) \in TaskEvent
    BY EventsTyped DEF HasSubtasks, TaskEventType
  <2>2. PlanInv' BY <1>0, <1>2, <2>1, SendKeeps DEF TaskStop
  <2>3. RunInv' BY <1>0, <1>2, KillKeeps DEF TaskStop
  <2>4. RestInv' BY <1>0, <1>2, BudgetTyped DEF TaskStop, RestInv, PrepareForRestart, settings
  <2>. QED BY <2>2, <2>3, <2>4 DEF IInv
<1>3. CASE ReviewApprove
  <2>1. Event("MARK_DONE") \in TaskEvent BY EventsTyped DEF TaskEventType
  <2>2. PlanInv' BY <1>0, <1>3, <2>1, SendKeeps DEF ReviewApprove
  <2>3. RunInv' BY <1>0, <1>3 DEF ReviewApprove, RunInv, Runs, TrackedLive, KilledRests, procs
  <2>4. RestInv' BY <1>0, <1>3, BudgetTyped DEF ReviewApprove, RestInv, settings, procs
  <2>. QED BY <2>2, <2>3, <2>4 DEF IInv
<1>4. CASE ReviewReject
  <2>1. Event("USER_RESUMED") \in TaskEvent BY EventsTyped DEF TaskEventType
  <2>2. PlanInv' BY <1>0, <1>4, <2>1, SendKeeps DEF ReviewReject
  <2>3. RunInv' BY <1>0, <1>4 DEF ReviewReject, RunInv, Runs, TrackedLive, KilledRests
  <2>4. RestInv' BY <1>0, <1>4, BudgetTyped DEF ReviewReject, RestInv, PrepareForRestart, settings, Kind
  <2>. QED BY <2>2, <2>3, <2>4 DEF IInv
<1>5. CASE MoveToInProgress
  <2>1. ResumeEvent \in TaskEvent BY EventsTyped DEF ResumeEvent, TaskEventType
  <2>2. PlanInv' BY <1>0, <1>5, <2>1, SendKeeps DEF MoveToInProgress
  <2>3. RunInv' BY <1>0, <1>5 DEF MoveToInProgress, RunInv, Runs, TrackedLive, KilledRests
  <2>4. RestInv'
    <3>1. CASE tracked = 0
      BY <1>0, <1>5, <3>1, BudgetTyped DEF MoveToInProgress, RestInv, PrepareForRestart, settings
    <3>2. CASE tracked # 0
      BY <1>0, <1>5, <3>2, BudgetTyped DEF MoveToInProgress, RestInv, settings
    <3>. QED BY <3>1, <3>2
  <2>. QED BY <2>2, <2>3, <2>4 DEF IInv
<1>6. CASE MoveAway
  <2>1. Event("MARK_DONE") \in TaskEvent /\ FlagEvent("USER_STOPPED", FALSE) \in TaskEvent
    BY EventsTyped DEF TaskEventType
  <2>2. PlanInv'
    <3>1. CASE MoveToDone BY <1>0, <2>1, <3>1, SendKeeps DEF MoveToDone
    <3>2. CASE MoveToBacklog BY <1>0, <2>1, <3>2, SendKeeps DEF MoveToBacklog
    <3>3. CASE MoveToReview BY <1>0, <3>3 DEF MoveToReview, PlanInv
    <3>4. CASE MoveByFile BY <1>0, <3>4, AgreeStatus DEF MoveByFile, PlanInv
    <3>. QED BY <1>6, <3>1, <3>2, <3>3, <3>4 DEF MoveAway
  <2>3. RunInv' BY <1>0, <1>6, KillKeeps DEF MoveAway
  <2>4. RestInv' BY <1>0, <1>6, BudgetTyped DEF MoveAway, RestInv, settings
  <2>. QED BY <2>2, <2>3, <2>4 DEF IInv
<1>. QED BY <1>1, <1>2, <1>3, <1>4, <1>5, <1>6 DEF User

\* A step of run r.
LEMMA BackendKeeps ==
  ASSUME IInv, NEW r \in Runs, Backend(r)
  PROVE  IInv'
<1>0. PlanInv /\ RunInv /\ RestInv BY DEF IInv
<1>1. UNCHANGED <<manager, starting, tracked, killed, budget>> BY DEF Backend
<1>2. \E e : Changes(r, e) BY <1>0, BackendChanges DEF RestInv
<1>3. RunInv' BY <1>0, <1>1, <1>2, ChangesKeeps
<1>4. /\ plan' \in {plan, PlannerOverwrites(plan), CompleteSubtasks(plan)}
      /\ hasSpec' \in {hasSpec, TRUE} /\ UNCHANGED settings
  BY DEF Backend, SpecStarts, WritesSpec, WritesPlan, SpecCompletes, SpecFails, BuildStarts,
         CoderErrs, CoderCompletes, BuildStops, QaStarts, QaTakesFeedback, QaFeedbackFails,
         QaRefuses, QaApproves, QaRejects, QaFixes, QaIterates, QaGivesUp, QaAgentErrs, Crash, disk
<1>5. PlanInv'
  <2>1. Agree(actor, plan) BY <1>0 DEF PlanInv
  <2>2. Agree(actor, plan') BY <1>4, <2>1, AgreePlanner, AgreeDone
  <2>. QED BY <1>1, <2>2 DEF PlanInv, manager
<1>6. RestInv' BY <1>0, <1>1, <1>4 DEF RestInv, manager, budget, settings
<1>. QED BY <1>3, <1>5, <1>6 DEF IInv

\* A line of run r, or its exit, reaches the frontend.
LEMMA FrontendKeeps ==
  ASSUME IInv, NEW r \in Runs, Frontend(r)
  PROVE  IInv'
<1>0. PlanInv /\ RunInv /\ RestInv BY DEF IInv
<1>1. CASE HandleProgress(r)
  <2>1. HasLine(r) /\ Head1(r).type = "PHASE" BY <1>1 DEF HandleProgress
  <2>2. run[r] \in SpokenRun /\ Tail(run[r].pipe) \in Seq(Spoken) /\ Head1(r) \in Spoken
    BY <1>0, <2>1, HeadSpoken
  <2>3. Head1(r).phase \in ExecutionPhase BY <2>1, <2>2 DEF Spoken, BackendEvent
  <2>4. PlanInv'
    <3>1. Agree(actor, Progressed(Head1(r).phase)) BY <1>0, <2>3, AgreeProgressed
    <3>. QED BY <1>1, <3>1 DEF HandleProgress, PlanInv, manager
  <2>5. RunInv'
    <3>. DEFINE e == [run[r] EXCEPT !.pipe = Tail(@),
                                    !.phase = IF Heeded(r) THEN Head1(r).phase ELSE @]
    <3>1. run' = [run EXCEPT ![r] = e] BY <1>1 DEF HandleProgress
    <3>2. e \in SpokenRun /\ e.stage = run[r].stage BY <2>2, <2>3 DEF SpokenRun
    <3>. HIDE DEF e
    <3>3. Changes(r, e) BY <3>1, <3>2 DEF Changes
    <3>. QED BY <1>0, <1>1, <3>3, ChangesKeeps DEF HandleProgress
  <2>6. RestInv' BY <1>0, <1>1 DEF HandleProgress, RestInv, manager, settings, budget
  <2>. QED BY <2>4, <2>5, <2>6 DEF IInv
<1>2. CASE HandleTaskEvent(r)
  <2>1. PlanInv' BY <1>0, <1>2, TaskEventKeeps
  <2>2. RunInv' BY <1>0, <1>2, RestChanges, ChangesKeeps DEF HandleTaskEvent
  <2>3. RestInv'
    <3>1. Head1(r) \in Spoken BY <1>0, <1>2, HeadSpoken DEF HandleTaskEvent
    <3>2. Head1(r).seq \in Nat BY <3>1 DEF Spoken
    <3>3. lastSeq' = Head1(r).seq /\ terminalSeen' \in BOOLEAN BY <1>0, <1>2 DEF HandleTaskEvent, RestInv
    <3>. QED BY <1>0, <1>2, <3>2, <3>3 DEF HandleTaskEvent, RestInv, settings, budget
  <2>. QED BY <2>1, <2>2, <2>3 DEF IInv
<1>3. CASE DropTaskEvent(r)
  <2>1. PlanInv' BY <1>0, <1>3 DEF DropTaskEvent, PlanInv, disk
  <2>2. RunInv' BY <1>0, <1>3, RestChanges, ChangesKeeps DEF DropTaskEvent
  <2>3. KnownSeq \in Nat \union {NoSeq} BY <1>0 DEF KnownSeq, RestInv, PlanInv, Agree, Plan
  <2>4. RestInv' BY <1>0, <1>3, <2>3 DEF DropTaskEvent, RestInv, disk, settings, budget
  <2>. QED BY <2>1, <2>2, <2>4 DEF IInv
<1>4. CASE HandleKilledExit(r)
  <2>1. PlanInv' BY <1>0, <1>4 DEF HandleKilledExit, PlanInv, disk, manager
  <2>2. RunInv' BY <1>0, <1>4, ReapKeeps DEF HandleKilledExit
  <2>3. RestInv' BY <1>0, <1>4 DEF HandleKilledExit, RestInv, disk, settings, manager, budget
  <2>. QED BY <2>1, <2>2, <2>3 DEF IInv
<1>5. CASE HandleExit(r)
  <2>1. Agree(actor, plan) BY <1>0 DEF PlanInv
  <2>2. PlanInv' BY <1>5, <2>1, ExitKeeps DEF HandleExit
  <2>3. RunInv' BY <1>0, <1>5, ReapKeeps DEF HandleExit
  <2>4. RestInv' BY <1>0, <1>5 DEF HandleExit, RestInv, settings, budget
  <2>. QED BY <2>2, <2>3, <2>4 DEF IInv
<1>6. CASE HandleFailedExit(r)
  <2>1. PICK handled \in BOOLEAN :
          /\ ProcessExited(IF ~handled /\ run[r].phase \notin {"complete", "failed"}
                           THEN Progressed("failed") ELSE plan, TRUE)
          /\ starting' \in {starting} \union
               (IF handled /\ autoSwap /\ starting = "no" THEN Restartable ELSE {})
    BY <1>6 DEF HandleFailedExit
  <2>2. Agree(actor, plan) /\ Agree(actor, Progressed("failed"))
    BY <1>0, AgreeProgressed DEF PlanInv, ExecutionPhase
  <2>3. Agree(actor, IF ~handled /\ run[r].phase \notin {"complete", "failed"}
                     THEN Progressed("failed") ELSE plan)
    BY <2>2
  <2>4. PlanInv' BY <2>1, <2>3, ExitKeeps
  <2>5. RunInv' BY <1>0, <1>6, ReapKeeps DEF HandleFailedExit
  <2>6. Restartable \subseteq Kind
    <3>1. run \in Seq(SpokenRun) BY <1>0 DEF RunInv
    <3>2. ASSUME NEW s \in Runs PROVE run[s].kind \in Kind
      <4>1. run[s] \in SpokenRun BY <3>1 DEF Runs
      <4>. QED BY <4>1 DEF SpokenRun
    <3>. QED BY <3>2 DEF Restartable
  <2>7. starting' \in Kind \union {"no", "start"} BY <1>0, <2>1, <2>6 DEF RestInv
  <2>8. RestInv' BY <1>0, <1>6, <2>7 DEF HandleFailedExit, RestInv, settings, budget
  <2>. QED BY <2>4, <2>5, <2>8 DEF IInv
<1>. QED BY <1>1, <1>2, <1>3, <1>4, <1>5, <1>6 DEF Frontend

\* The steps of the application on its own.
LEMMA ApplicationKeeps ==
  ASSUME IInv,
         \/ Refresh \/ AppRestart \/ ChooseRunner \/ Spawn \/ StartFails
         \/ Restamp \/ CorrectStaleTaskStatus
  PROVE  IInv'
<1>0. PlanInv /\ RunInv /\ RestInv BY DEF IInv
<1>1. Agree(actor, plan) /\ plan \in Plan BY <1>0 DEF PlanInv, Agree
<1>2. Agree(NoActor, plan) BY <1>1, NoActorState DEF Agree, XStateAgrees, SettledAgrees, DoneAgrees
<1>3. CASE Refresh
  <2>1. PlanInv' BY <1>2, <1>3 DEF Refresh, PlanInv, disk
  <2>2. RunInv' BY <1>0, <1>3 DEF Refresh, RunInv, Runs, TrackedLive, KilledRests, procs
  <2>3. RestInv' BY <1>0, <1>3, BudgetTyped DEF Refresh, RestInv, disk, settings, procs
  <2>. QED BY <2>1, <2>2, <2>3 DEF IInv
<1>4. CASE AppRestart
  <2>1. PlanInv' BY <1>2, <1>4 DEF AppRestart, PlanInv, disk
  <2>2. RunInv' BY <1>0, <1>4, RestartKeeps
  <2>3. RestInv' BY <1>0, <1>4, BudgetTyped DEF AppRestart, RestInv, PrepareForRestart, disk, settings
  <2>. QED BY <2>1, <2>2, <2>3 DEF IInv
<1>5. CASE ChooseRunner
  <2>1. PlanInv' BY <1>0, <1>5 DEF ChooseRunner, PlanInv, disk, manager
  <2>2. RunInv' BY <1>0, <1>5 DEF ChooseRunner, RunInv, Runs, TrackedLive, KilledRests
  <2>3. RestInv' BY <1>0, <1>5 DEF ChooseRunner, RestInv, disk, settings, manager, budget, Kind
  <2>. QED BY <2>1, <2>2, <2>3 DEF IInv
<1>6. CASE Spawn
  <2>1. Agree(actor, Progressed("planning")) BY <1>0, AgreeProgressed DEF ExecutionPhase
  <2>2. PlanInv' BY <1>6, <2>1 DEF Spawn, PlanInv, manager
  <2>3. RunInv' BY <1>0, <1>6, SpawnKeeps
  <2>4. RestInv' BY <1>0, <1>6 DEF Spawn, RestInv, settings, manager, budget
  <2>. QED BY <2>2, <2>3, <2>4 DEF IInv
<1>7. CASE StartFails
  <2>1. PlanInv' BY <1>0, <1>7 DEF StartFails, PlanInv, disk, manager
  <2>2. RunInv' BY <1>0, <1>7 DEF StartFails, RunInv, Runs, TrackedLive, KilledRests
  <2>3. RestInv' BY <1>0, <1>7 DEF StartFails, RestInv, disk, settings, manager, budget
  <2>. QED BY <2>1, <2>2, <2>3 DEF IInv
<1>8. CASE Restamp
  <2>. DEFINE m == [actor EXCEPT !.reason = "none"]
  <2>1. actor \in Fitting BY <1>0, <1>8 DEF Restamp, PlanInv, Agree
  <2>2. m \in Fitting /\ m.state = actor.state BY <2>1 DEF Fitting, Machine, ReviewReason
  <2>3. plan' = StampMachine(plan, m) /\ actor' = actor BY <1>8 DEF Restamp, manager
  <2>. HIDE DEF m
  <2>4. Agree(actor, StampMachine(plan, m)) BY <1>1, <2>1, <2>2, AgreeStamped
  <2>5. PlanInv' BY <2>3, <2>4 DEF PlanInv
  <2>6. RunInv' BY <1>0, <1>8 DEF Restamp, RunInv, Runs, TrackedLive, KilledRests, procs
  <2>7. RestInv' BY <1>0, <1>8 DEF Restamp, RestInv, settings, manager, budget, procs
  <2>. QED BY <2>5, <2>6, <2>7 DEF IInv
<1>9. CASE CorrectStaleTaskStatus
  <2>1. Agree(actor, CorrectStale(plan)) BY <1>1, <1>9, AgreeStale DEF CorrectStaleTaskStatus
  <2>2. PlanInv' BY <1>9, <2>1 DEF CorrectStaleTaskStatus, PlanInv, manager
  <2>3. RunInv' BY <1>0, <1>9 DEF CorrectStaleTaskStatus, RunInv, Runs, TrackedLive, KilledRests, procs
  <2>4. RestInv' BY <1>0, <1>9 DEF CorrectStaleTaskStatus, RestInv, settings, manager, budget, procs
  <2>. QED BY <2>2, <2>3, <2>4 DEF IInv
<1>. QED BY <1>3, <1>4, <1>5, <1>6, <1>7, <1>8, <1>9

LEMMA StepIInv == IInv /\ [Next]_vars => IInv'
<1>. SUFFICES ASSUME IInv, [Next]_vars PROVE IInv' OBVIOUS
<1>1. CASE User BY <1>1, UserKeeps
<1>2. CASE \E r \in Runs : Frontend(r) \/ Backend(r) BY <1>2, FrontendKeeps, BackendKeeps
<1>3. CASE \/ Refresh \/ AppRestart \/ ChooseRunner \/ Spawn \/ StartFails
           \/ Restamp \/ CorrectStaleTaskStatus
  BY <1>3, ApplicationKeeps
<1>4. CASE UNCHANGED vars
  <2>1. PlanInv' BY <1>4 DEF IInv, PlanInv, vars, manager, disk
  <2>2. RunInv' BY <1>4 DEF IInv, RunInv, Runs, TrackedLive, KilledRests, vars, procs
  <2>3. RestInv' BY <1>4 DEF IInv, RestInv, vars, manager, disk, settings, procs, budget
  <2>. QED BY <2>1, <2>2, <2>3 DEF IInv
<1>. QED BY <1>1, <1>2, <1>3, <1>4 DEF Next

------------------------------------------------------------------------------
(* The theorems.                                                           *)

LEMMA Invariant == Spec => []IInv
<1>. QED BY InitIInv, StepIInv, PTL DEF Spec

\* Whatever the settings and however often the task is started, stopped, killed
\* and reloaded, the tracking state of TaskStateManager, the plan file and the
\* runs keep their types: no writer leaves a status, a reason or a state in the
\* file that its readers do not know.
THEOREM SessionTypes == Spec => []TypeOK
<1>1. IInv => TypeOK BY IInvImplies
<1>. QED BY <1>1, Invariant, PTL

\* The file and the live actor never disagree about the XState state, but for
\* correctStaleTaskStatus on a build whose subtasks are all done.
THEOREM DiskFollowsActor == Spec => []XStateOnDisk
<1>1. IInv => XStateOnDisk BY IInvImplies
<1>. QED BY <1>1, Invariant, PTL

\* What TaskStateManager persisted of a task in plan_review, human_review or
\* done is enough to restore it there: nothing written on top of it since, by
\* the exits, the progress and the planner of any number of runs, loses it.
THEOREM SettledIsRestored == Spec => []SettledSurvives
<1>1. IInv => SettledSurvives BY IInvImplies
<1>. QED BY <1>1, Invariant, PTL

\* A stop always has a process to kill: the tracked one did not exit yet, as far
\* as the frontend knows, and was not marked as killed before.
THEOREM StopHasTarget == Spec => []TrackedLive
<1>1. IInv => TrackedLive BY IInvImplies
<1>. QED BY <1>1, Invariant, PTL

\* What ReviewGate says of one step.
Gated ==
  /\ actor.state = "plan_review" /\ actor'.state # "plan_review" /\ actor' # NoActor
  => users' # users \/ (~terminalSeen /\ actor'.state = "error")

\* A task in plan review heeds three events, and the backend sends none of them.
LEMMA PlanReviewHeeds ==
  ASSUME NEW m \in Machine, m.state = "plan_review", NEW e \in TaskEvent
  PROVE  /\ e.type \in BackendEvent => Step(m, e) = m
         /\ e.type = "PROCESS_EXITED" => Step(m, e).state \in {"plan_review", "error"}
<1>1. DOMAIN On["plan_review"] = {"PLAN_APPROVED", "USER_STOPPED", "PROCESS_EXITED"} BY DEF On
<1>2. e.type \in BackendEvent => e.type \notin DOMAIN On[m.state] BY <1>1 DEF BackendEvent
<1>3. ASSUME e.type = "PROCESS_EXITED"
      PROVE  Step(m, e).state \in {"plan_review", "error"}
  <2>1. On["plan_review"]["PROCESS_EXITED"] = CrashFrom("plan_review") BY DEF On
  <2>2. e.flag \in BOOLEAN BY DEF TaskEvent
  <2>3. CrashFrom("plan_review")[e.flag].state \in {"plan_review", "error"}
    BY <2>2 DEF CrashFrom, If, Set, To
  <2>. QED BY <1>1, <1>3, <2>1, <2>3 DEF Step
<1>. QED BY <1>2, <1>3 DEF Step

LEMMA StepGated ==
  ASSUME IInv, Next
  PROVE  Gated
<1>. SUFFICES ASSUME actor.state = "plan_review", actor'.state # "plan_review", actor' # NoActor
              PROVE  users' # users \/ (~terminalSeen /\ actor'.state = "error")
  BY DEF Gated
<1>1. actor # NoActor BY NoActorState
<1>2. actor \in Machine /\ RunInv /\ users \in Nat
  BY <1>1 DEF IInv, PlanInv, Agree, Fitting, RestInv
<1>3. CASE User
  BY <1>2, <1>3 DEF User, TaskStart, TaskStop, ReviewApprove, ReviewReject, MoveToInProgress,
                    MoveAway, UserStep
<1>4. ASSUME NEW r \in Runs, Backend(r) PROVE FALSE BY <1>4 DEF Backend, manager
<1>5. ASSUME NEW r \in Runs, HandleTaskEvent(r) PROVE FALSE
  <2>. DEFINE e == FlagEvent(Head1(r).type, Head1(r).flag)
  <2>1. Head1(r) \in Spoken /\ Head1(r).type # "PHASE"
    BY <1>2, <1>5, HeadSpoken DEF HandleTaskEvent
  <2>2. Head1(r).type \in BackendEvent /\ Head1(r).flag \in BOOLEAN BY <2>1 DEF Spoken
  <2>3. Head1(r).type \in TaskEventType BY <2>2 DEF BackendEvent, TaskEventType
  <2>4. e \in TaskEvent /\ e.type = Head1(r).type BY <2>2, <2>3, EventsTyped DEF FlagEvent
  <2>5. actor' = Step(actor, e) BY <1>1, <1>5 DEF HandleTaskEvent, Actor
  <2>. HIDE DEF e
  <2>6. actor' = actor BY <1>2, <2>2, <2>4, <2>5, PlanReviewHeeds
  <2>. QED BY <2>6
<1>6. ASSUME NEW p, NEW unexpected \in BOOLEAN, ProcessExited(p, unexpected)
      PROVE  ~terminalSeen /\ actor'.state = "error"
  <2>. DEFINE e == FlagEvent("PROCESS_EXITED", unexpected)
  <2>1. ~terminalSeen BY <1>6 DEF ProcessExited
  <2>2. actor' = Step(actor, e) BY <1>1, <1>6, <2>1 DEF ProcessExited, Actor
  <2>3. e \in TaskEvent /\ e.type = "PROCESS_EXITED" BY EventsTyped DEF FlagEvent, TaskEventType
  <2>. HIDE DEF e
  <2>. QED BY <1>2, <2>1, <2>2, <2>3, PlanReviewHeeds
<1>7. ASSUME NEW r \in Runs, Frontend(r)
      PROVE  users' # users \/ (~terminalSeen /\ actor'.state = "error")
  <2>1. CASE HandleProgress(r) \/ DropTaskEvent(r) \/ HandleKilledExit(r)
    BY <2>1 DEF HandleProgress, DropTaskEvent, HandleKilledExit, manager
  <2>2. CASE HandleTaskEvent(r) BY <1>5, <2>2
  <2>3. CASE HandleExit(r) BY <1>6, <2>3 DEF HandleExit
  <2>4. CASE HandleFailedExit(r) BY <1>6, <2>4 DEF HandleFailedExit
  <2>. QED BY <1>7, <2>1, <2>2, <2>3, <2>4 DEF Frontend
<1>8. CASE Refresh \/ AppRestart BY <1>8 DEF Refresh, AppRestart
<1>9. CASE ChooseRunner \/ Spawn \/ StartFails \/ Restamp \/ CorrectStaleTaskStatus
  BY <1>9 DEF ChooseRunner, Spawn, StartFails, Restamp, CorrectStaleTaskStatus, manager
<1>. QED BY <1>3, <1>4, <1>7, <1>8, <1>9 DEF Next

\* Only the user moves a task out of plan review; what is left in the pipes of
\* its runs, and the exits of those that announced how they ended, do not.
THEOREM PlanReviewGated == Spec => ReviewGate
<1>1. IInv /\ [Next]_vars => [Gated]_vars BY StepGated
<1>. QED BY <1>1, Invariant, PTL DEF Spec, ReviewGate, Gated

\* What DoneIsFinal says of one step.
StaysDone ==
  plan.status = "done" /\ actor # NoActor /\ plan'.status # "done"
  => users' # users \/ \E r \in Runs : /\ run[r].stage \in {"specced", "buildplan"}
                                        /\ r \notin killed

\* An event given to a machine that is done changes nothing on disk.
LEMMA DoneHeedsNothing ==
  ASSUME actor \in Machine, actor.state = "done", NEW p, NEW e
  PROVE  /\ Step(Actor(actor, p), e) = actor /\ Actor(actor, p) = actor
         /\ CreatedPlan(actor, p) = p
<1>1. actor # NoActor BY DEF NoActor
<1>2. DOMAIN On["done"] = {} BY DEF On
<1>. QED BY <1>1, <1>2 DEF Step, Actor, CreatedPlan

LEMMA StepStaysDone ==
  ASSUME IInv, Next
  PROVE  StaysDone
<1>. SUFFICES ASSUME plan.status = "done", actor # NoActor, plan'.status # "done"
              PROVE  users' # users \/ \E r \in Runs : /\ run[r].stage \in {"specced", "buildplan"}
                                                        /\ r \notin killed
  BY DEF StaysDone
<1>1. /\ actor \in Machine /\ actor.state = "done" /\ plan \in Plan
      /\ RunInv /\ users \in Nat
  BY DEF IInv, PlanInv, Agree, DoneAgrees, Fitting, RestInv
<1>2. \A phase : Progressed(phase) = plan BY <1>1 DEF Progressed, XSTATE_SETTLED_STATES
<1>3. CASE User
  BY <1>1, <1>3 DEF User, TaskStart, TaskStop, ReviewApprove, ReviewReject, MoveToInProgress,
                    MoveAway, UserStep
<1>4. ASSUME NEW r \in Runs, Backend(r)
      PROVE  run[r].stage \in {"specced", "buildplan"} /\ r \notin killed
  <2>1. CASE WritesPlan(r)
    <3>1. Works(r) /\ run[r].stage \in {"specced", "buildplan"} BY <2>1 DEF WritesPlan, Prints
    <3>. QED BY <1>1, <3>1 DEF Works, Alive, RunInv, KilledRests
  <2>2. CASE CoderCompletes(r)
    <3>1. plan' = [plan EXCEPT !.subtasks = "done"] BY <2>2 DEF CoderCompletes, CompleteSubtasks
    <3>. QED BY <1>1, <3>1 DEF Plan
  <2>3. CASE ~WritesPlan(r) /\ ~CoderCompletes(r)
    BY <1>4, <2>3 DEF Backend, SpecStarts, WritesSpec, SpecCompletes, SpecFails, BuildStarts,
         CoderErrs, BuildStops, QaStarts, QaTakesFeedback, QaFeedbackFails,
         QaRefuses, QaApproves, QaRejects, QaFixes, QaIterates, QaGivesUp, QaAgentErrs, Crash, disk
  <2>. QED BY <2>1, <2>2, <2>3
<1>5. ASSUME NEW r \in Runs, HandleTaskEvent(r) PROVE FALSE
  <2>1. plan' = PersistLastEvent(plan, Head1(r).seq)
    <3>. DEFINE e == FlagEvent(Head1(r).type, Head1(r).flag)
    <3>1. Step(Actor(actor, plan), e) = actor /\ Actor(actor, plan) = actor
          /\ CreatedPlan(actor, plan) = plan
      BY <1>1, DoneHeedsNothing
    <3>2. plan' = PersistLastEvent(IF Step(Actor(actor, plan), e).state # Actor(actor, plan).state
                                   THEN StampMachine(CreatedPlan(actor, plan), Step(Actor(actor, plan), e))
                                   ELSE CreatedPlan(actor, plan), Head1(r).seq)
      BY <1>5 DEF HandleTaskEvent
    <3>. HIDE DEF e
    <3>. QED BY <3>1, <3>2
  <2>2. PersistLastEvent(plan, Head1(r).seq).status = "done"
    BY <1>1 DEF PersistLastEvent, Plan
  <2>. QED BY <2>1, <2>2
<1>6. ASSUME NEW unexpected, ProcessExited(plan, unexpected) PROVE FALSE
  <2>. DEFINE e == FlagEvent("PROCESS_EXITED", unexpected)
  <2>1. Step(Actor(actor, plan), e) = actor /\ Actor(actor, plan) = actor
        /\ CreatedPlan(actor, plan) = plan
    BY <1>1, DoneHeedsNothing
  <2>2. plan' = plan \/ plan' = IF Step(Actor(actor, plan), e).state # Actor(actor, plan).state
                                THEN StampMachine(CreatedPlan(actor, plan), Step(Actor(actor, plan), e))
                                ELSE CreatedPlan(actor, plan)
    BY <1>6 DEF ProcessExited
  <2>. HIDE DEF e
  <2>. QED BY <2>1, <2>2
<1>7. ASSUME NEW r \in Runs, Frontend(r) PROVE FALSE
  <2>1. CASE HandleProgress(r) BY <1>2, <2>1 DEF HandleProgress
  <2>2. CASE DropTaskEvent(r) \/ HandleKilledExit(r)
    BY <2>2 DEF DropTaskEvent, HandleKilledExit, disk
  <2>3. CASE HandleTaskEvent(r) BY <1>5, <2>3
  <2>4. CASE HandleExit(r) BY <1>6, <2>4 DEF HandleExit
  <2>5. CASE HandleFailedExit(r)
    <3>1. PICK handled \in BOOLEAN :
            ProcessExited(IF ~handled /\ run[r].phase \notin {"complete", "failed"}
                          THEN Progressed("failed") ELSE plan, TRUE)
      BY <2>5 DEF HandleFailedExit
    <3>2. ProcessExited(plan, TRUE) BY <1>2, <3>1
    <3>. QED BY <1>6, <3>2
  <2>. QED BY <1>7, <2>1, <2>2, <2>3, <2>4, <2>5 DEF Frontend
<1>8. CASE Refresh \/ AppRestart \/ ChooseRunner \/ StartFails
  BY <1>8 DEF Refresh, AppRestart, ChooseRunner, StartFails, disk
<1>9. CASE Spawn BY <1>2, <1>9 DEF Spawn
<1>10. CASE Restamp
  <2>1. [actor EXCEPT !.reason = "none"].state = "done" BY <1>1 DEF Machine
  <2>2. [actor EXCEPT !.reason = "none"] \in Fitting BY <1>1 DEF Machine, Fitting, ReviewReason
  <2>3. plan'.status = LegacyStatus("done") BY <1>1, <1>10, <2>1, <2>2, Stamped DEF Restamp
  <2>. QED BY <2>3 DEF LegacyStatus
<1>11. CASE CorrectStaleTaskStatus BY <1>11 DEF CorrectStaleTaskStatus, IsStale
<1>. QED BY <1>3, <1>4, <1>7, <1>8, <1>9, <1>10, <1>11 DEF Next

\* A task that is done on disk is undone by the user, or by the planner of a
\* process nobody stopped, and by nothing else as long as its actor lives.
THEOREM DoneStaysDone == Spec => DoneIsFinal
<1>1. IInv /\ [Next]_vars => [StaysDone]_vars BY StepStaysDone
<1>. QED BY <1>1, Invariant, PTL DEF Spec, DoneIsFinal, StaysDone

==============================================================================
