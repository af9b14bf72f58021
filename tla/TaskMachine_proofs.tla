-------------------------- MODULE TaskMachine_proofs --------------------------
(***************************************************************************)
(* Proofs about the transition function of TaskMachine.                    *)
(***************************************************************************)
EXTENDS TaskMachine, TLAPS

Target == [state : TASK_STATE_NAMES, sets : BOOLEAN, reason : ReviewReason]
Row    == [BOOLEAN -> Target]

\* The rows the table of transitions is made of.
LEMMA RowsTyped ==
  /\ \A s \in TASK_STATE_NAMES : Always(To(s)) \in Row /\ CrashFrom(s) \in Row
  /\ \A s \in TASK_STATE_NAMES : Always(Clear(s)) \in Row
  /\ Completed \in Row /\ Failed \in Row /\ StopFrom \in Row
  /\ Always(Set("human_review", "qa_rejected")) \in Row
  /\ If(Set("plan_review", "plan_review"), Clear("coding")) \in Row
  /\ If(Set("human_review", "stopped"), Clear("backlog")) \in Row
BY DEF Always, If, To, Set, Clear, Completed, Failed, StopFrom, CrashFrom, Row, Target,
       TASK_STATE_NAMES, ReviewReason

\* Every transition of every state leads to a state and a reason the machine knows.
LEMMA OnTyped ==
  ASSUME NEW s \in TASK_STATE_NAMES, NEW x \in DOMAIN On[s]
  PROVE  On[s][x] \in Row
<1>1. CASE s = "backlog"      BY <1>1, RowsTyped DEF On, TASK_STATE_NAMES
<1>2. CASE s = "planning"     BY <1>2, RowsTyped DEF On, TASK_STATE_NAMES
<1>3. CASE s = "plan_review"  BY <1>3, RowsTyped DEF On, TASK_STATE_NAMES
<1>4. CASE s = "coding"       BY <1>4, RowsTyped DEF On, TASK_STATE_NAMES
<1>5. CASE s = "qa_review"    BY <1>5, RowsTyped DEF On, TASK_STATE_NAMES
<1>6. CASE s = "qa_fixing"    BY <1>6, RowsTyped DEF On, TASK_STATE_NAMES
<1>7. CASE s = "human_review" BY <1>7, RowsTyped DEF On, TASK_STATE_NAMES
<1>8. CASE s = "error"        BY <1>8, RowsTyped DEF On, TASK_STATE_NAMES
<1>9. CASE s = "creating_pr"  BY <1>9, RowsTyped DEF On, TASK_STATE_NAMES
<1>10. CASE s = "pr_created"  BY <1>10, RowsTyped DEF On, TASK_STATE_NAMES
<1>11. CASE s = "done"        BY <1>11, RowsTyped DEF On, TASK_STATE_NAMES
<1>. QED BY <1>1, <1>2, <1>3, <1>4, <1>5, <1>6, <1>7, <1>8, <1>9, <1>10, <1>11
         DEF TASK_STATE_NAMES

\* The machine never leaves its states and reasons, whatever it is told.
THEOREM StepTyped ==
  ASSUME NEW m \in Machine, NEW e \in TaskEvent
  PROVE  Step(m, e) \in Machine
<1>1. m.state \in TASK_STATE_NAMES /\ m.reason \in ReviewReason /\ e.flag \in BOOLEAN
  BY DEF Machine, TaskEvent
<1>2. CASE e.type \in DOMAIN On[m.state]
  <2>1. On[m.state][e.type][e.flag] \in Target BY <1>1, <1>2, OnTyped DEF Row
  <2>. DEFINE t == On[m.state][e.type][e.flag]
  <2>2. t.state \in TASK_STATE_NAMES /\ t.reason \in ReviewReason BY <2>1 DEF Target
  <2>. HIDE DEF t
  <2>3. Step(m, e) = [state |-> t.state, reason |-> IF t.sets THEN t.reason ELSE m.reason]
    BY <1>2 DEF Step, t
  <2>. QED BY <1>1, <2>2, <2>3 DEF Machine
<1>3. CASE e.type \notin DOMAIN On[m.state] BY <1>3 DEF Step
<1>. QED BY <1>2, <1>3

\* A transition after which a task may count as completed.
Completes(t) == t.state = "human_review" /\ (t.sets => t.reason = "completed")

\* The rows that do not complete a task.
LEMMA RowsComplete ==
  /\ \A s \in TASK_STATE_NAMES \ {"human_review"} : \A f \in BOOLEAN :
       Always(To(s))[f].state # "human_review" /\ Always(Clear(s))[f].state # "human_review"
       /\ CrashFrom(s)[f].state # "human_review"
  /\ \A f \in BOOLEAN : Failed[f].state # "human_review"
  /\ \A f \in BOOLEAN : StopFrom[f].sets /\ StopFrom[f].reason # "completed"
  /\ \A f \in BOOLEAN : Always(Set("human_review", "qa_rejected"))[f].sets
       /\ Always(Set("human_review", "qa_rejected"))[f].reason # "completed"
  /\ \A f \in BOOLEAN : If(Set("plan_review", "plan_review"), Clear("coding"))[f].state # "human_review"
  /\ \A f \in BOOLEAN : If(Set("human_review", "stopped"), Clear("backlog"))[f].sets
       /\ If(Set("human_review", "stopped"), Clear("backlog"))[f].reason # "completed"
BY DEF Always, If, To, Set, Clear, Failed, StopFrom, CrashFrom

\* Every transition to a completed task is one on QA_PASSED.
LEMMA OnCompletes ==
  ASSUME NEW s \in TASK_STATE_NAMES, NEW x \in DOMAIN On[s], NEW f \in BOOLEAN,
         Completes(On[s][x][f])
  PROVE  x = "QA_PASSED"
<1>1. CASE s = "backlog"      BY <1>1, RowsComplete DEF On, TASK_STATE_NAMES, Completes
<1>2. CASE s = "planning"     BY <1>2, RowsComplete DEF On, TASK_STATE_NAMES, Completes
<1>3. CASE s = "plan_review"  BY <1>3, RowsComplete DEF On, TASK_STATE_NAMES, Completes
<1>4. CASE s = "coding"       BY <1>4, RowsComplete DEF On, TASK_STATE_NAMES, Completes
<1>5. CASE s = "qa_review"    BY <1>5, RowsComplete DEF On, TASK_STATE_NAMES, Completes
<1>6. CASE s = "qa_fixing"    BY <1>6, RowsComplete DEF On, TASK_STATE_NAMES, Completes
<1>7. CASE s = "human_review" BY <1>7, RowsComplete DEF On, TASK_STATE_NAMES, Completes
<1>8. CASE s = "error"        BY <1>8, RowsComplete DEF On, TASK_STATE_NAMES, Completes
<1>9. CASE s = "creating_pr"  BY <1>9, RowsComplete DEF On, TASK_STATE_NAMES, Completes
<1>10. CASE s = "pr_created"  BY <1>10, RowsComplete DEF On, TASK_STATE_NAMES, Completes
<1>11. CASE s = "done"        BY <1>11, RowsComplete DEF On, TASK_STATE_NAMES, Completes
<1>. QED BY <1>1, <1>2, <1>3, <1>4, <1>5, <1>6, <1>7, <1>8, <1>9, <1>10, <1>11
         DEF TASK_STATE_NAMES

\* No event but QA_PASSED turns a task that is not completed into one that is.
THEOREM OnlyQaPassedCompletes ==
  ASSUME NEW m \in Machine, NEW e \in TaskEvent,
         m # [state |-> "human_review", reason |-> "completed"],
         Step(m, e) = [state |-> "human_review", reason |-> "completed"]
  PROVE  e.type = "QA_PASSED"
<1>1. m.state \in TASK_STATE_NAMES /\ e.flag \in BOOLEAN BY DEF Machine, TaskEvent
<1>2. e.type \in DOMAIN On[m.state] BY DEF Step
<1>. DEFINE t == On[m.state][e.type][e.flag]
<1>3. Step(m, e) = [state |-> t.state, reason |-> IF t.sets THEN t.reason ELSE m.reason]
  BY <1>2 DEF Step
<1>. HIDE DEF t
<1>4. Completes(t) BY <1>3 DEF Completes
<1>. QED BY <1>1, <1>2, <1>4, OnCompletes DEF t
==============================================================================
