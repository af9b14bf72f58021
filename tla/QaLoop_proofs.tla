---------------------------- MODULE QaLoop_proofs -----------------------------
(***************************************************************************)
(* Proofs about QaLoop, for any set of issues, any iteration, error and    *)
(* recurrence limits and any number of processes.                          *)
(*                                                                         *)
(* IInv strengthens the invariants with two facts about where the process  *)
(* is: a completed task has none, and feedback of the user that is not     *)
(* answered keeps a process out of the review loop; and with the fact that *)
(* what was handed to the fixer was recorded before.                       *)
(*                                                                         *)
(* The last part bounds the steps of a process by a number that each of    *)
(* its steps lowers.                                                       *)
(***************************************************************************)
EXTENDS QaLoop, TaskMachine_proofs

\* A process at work has taken its task out of the completed state.
CompletedIsIdle == machine = Completed_ => stage = "idle"

\* No iteration begins before the feedback is answered.
AnsweredFirst == request = "human" => stage \in {"idle", "boot", "answering"}

\* Every issue handed to the fixer is in the history.
HandedIsSeen == \A i \in Issues : handed[i] <= seen[i]

IInv == /\ TypeOK /\ CompletedIsSigned /\ RecurringIsEscalated
        /\ CompletedIsIdle /\ AnsweredFirst /\ HandedIsSeen

------------------------------------------------------------------------------
(* The machine under the events of this module.                            *)

\* The events are events of the machine.
LEMMA EventsTyped ==
  /\ \A x \in TaskEventType : Event(x) \in TaskEvent /\ Event(x).type = x
  /\ Crashed \in TaskEvent /\ Crashed.type = "PROCESS_EXITED"
  /\ Stopped \in TaskEvent /\ Stopped.type = "USER_STOPPED"
BY DEF Event, Crashed, Stopped, TaskEvent, TaskEventType

\* What the frontend heard of stays a Boolean.
LEMMA HeardTyped ==
  ASSUME NEW types, terminalEventSeen \in BOOLEAN, Heard(types)
  PROVE  terminalEventSeen' \in BOOLEAN
<1>1. CASE types \cap TERMINAL_EVENTS = {} BY <1>1 DEF Heard
<1>2. CASE types \cap TERMINAL_EVENTS # {} BY <1>2 DEF Heard
<1>. QED BY <1>1, <1>2

\* An event other than QA_PASSED completes nothing.
LEMMA OneEvent ==
  ASSUME NEW e \in TaskEvent, machine \in Machine, terminalEventSeen \in BOOLEAN,
         Emits(e) \/ Tells(e)
  PROVE  /\ machine' \in Machine /\ terminalEventSeen' \in BOOLEAN
         /\ e.type # "QA_PASSED" /\ machine # Completed_ => machine' # Completed_
<1>1. machine' = Step(machine, e) BY DEF Emits, Tells
<1>2. terminalEventSeen' \in BOOLEAN
  <2>1. CASE Emits(e) BY <2>1, HeardTyped DEF Emits
  <2>2. CASE Tells(e) BY <2>2 DEF Tells
  <2>. QED BY <2>1, <2>2
<1>. QED BY <1>1, <1>2, StepTyped, OnlyQaPassedCompletes DEF Completed_

\* Nor do two of them.
LEMMA TwoEvents ==
  ASSUME NEW e \in TaskEvent, NEW f \in TaskEvent, machine \in Machine,
         terminalEventSeen \in BOOLEAN, EmitsBoth(e, f)
  PROVE  /\ machine' \in Machine /\ terminalEventSeen' \in BOOLEAN
         /\ "QA_PASSED" \notin {e.type, f.type} /\ machine # Completed_ => machine' # Completed_
<1>1. Step(machine, e) \in Machine BY StepTyped
<1>2. machine' \in Machine BY <1>1, StepTyped DEF EmitsBoth
<1>3. e.type # "QA_PASSED" /\ machine # Completed_ => Step(machine, e) # Completed_
  BY OnlyQaPassedCompletes DEF Completed_
<1>4. terminalEventSeen' \in BOOLEAN BY HeardTyped DEF EmitsBoth
<1>. QED BY <1>1, <1>2, <1>3, <1>4, OnlyQaPassedCompletes DEF EmitsBoth, Completed_

\* Nor does an exit, heard or not.
LEMMA AnExit ==
  ASSUME machine \in Machine, terminalEventSeen \in BOOLEAN, Exits
  PROVE  /\ machine' \in Machine /\ terminalEventSeen' \in BOOLEAN
         /\ machine # Completed_ => machine' # Completed_
<1>1. machine' = machine \/ machine' = Step(machine, Crashed) BY DEF Exits
<1>2. Crashed \in TaskEvent /\ Crashed.type # "QA_PASSED" BY EventsTyped
<1>. QED BY <1>1, <1>2, StepTyped, OnlyQaPassedCompletes DEF Exits, Completed_

\* Resuming a task in review or error sends it back to coding.
LEMMA ResumedIsCoding ==
  ASSUME machine \in Machine, machine.state \in {"human_review", "error"},
         Tells(Event("USER_RESUMED"))
  PROVE  machine' \in Machine /\ machine' # Completed_
<1>1. machine' \in Machine
  <2>1. Event("USER_RESUMED") \in TaskEvent BY EventsTyped DEF TaskEventType
  <2>. QED BY <2>1, StepTyped DEF Tells
<1>2. /\ "USER_RESUMED" \in DOMAIN On[machine.state]
      /\ On[machine.state]["USER_RESUMED"] = Always(Clear("coding"))
  <2>1. CASE machine.state = "human_review" BY <2>1 DEF On
  <2>2. CASE machine.state = "error" BY <2>2 DEF On
  <2>. QED BY <2>1, <2>2
<1>3. Always(Clear("coding"))[FALSE].state = "coding" BY DEF Always, Clear, Set
<1>4. machine'.state = "coding" BY <1>2, <1>3 DEF Tells, Event, Step
<1>. QED BY <1>4, <1>1, <1>2 DEF Completed_

------------------------------------------------------------------------------
(* The invariant.                                                          *)

Signoff == [status : Status, session : Nat, issues : SUBSET Issues]

\* Whatever an agent signs is a sign-off.
LEMMA UpdateTyped ==
  ASSUME signoff \in Signoff, NEW status \in Status, NEW found \in SUBSET Issues,
         UpdateQaStatus(status, found)
  PROVE  signoff' \in Signoff
<1>1. signoff.session \in Nat /\ signoff.session + 1 \in Nat BY DEF Signoff
<1>2. CASE status \in {"in_review", "rejected"} BY <1>1, <1>2 DEF UpdateQaStatus, Signoff
<1>3. CASE status \notin {"in_review", "rejected"} BY <1>1, <1>3 DEF UpdateQaStatus, Signoff
<1>. QED BY <1>2, <1>3

LEMMA SignsTyped ==
  ASSUME signoff \in Signoff, SignsOff
  PROVE  signoff' \in Signoff /\ signed' \in BOOLEAN
<1>1. ASSUME NEW status \in Status \ {"rejected"}, UpdateQaStatus(status, {})
      PROVE  signoff' \in Signoff
  BY <1>1, UpdateTyped
<1>2. ASSUME NEW found \in SUBSET Issues, UpdateQaStatus("rejected", found)
      PROVE  signoff' \in Signoff
  <2>1. "rejected" \in Status BY DEF Status
  <2>. QED BY <1>2, <2>1, UpdateTyped
<1>. QED BY <1>1, <1>2 DEF SignsOff

\* A count of issues goes on as a count.
LEMMA CountedTyped ==
  ASSUME NEW f \in [Issues -> Nat]
  PROVE  /\ Counted(f) \in [Issues -> Nat]
         /\ \A i \in Issues : Counted(f)[i] = IF i \in signoff.issues THEN f[i] + 1 ELSE f[i]
BY DEF Counted

\* Every step keeps the types.
LEMMA TypeStep ==
  ASSUME TypeOK, [Next]_vars
  PROVE  TypeOK'
<1>. USE DEF TypeOK
<1>1. {"QA_STARTED", "QA_FIXING_STARTED", "QA_FIXING_COMPLETE", "QA_MAX_ITERATIONS", "QA_PASSED",
       "QA_FAILED", "QA_AGENT_ERROR", "USER_RESUMED"} \subseteq TaskEventType
  BY DEF TaskEventType
<1>2. CASE RejectReview BY <1>1, <1>2, EventsTyped, OneEvent DEF RejectReview, Stage, Kind
<1>3. CASE Resume BY <1>1, <1>3, EventsTyped, OneEvent DEF Resume, disk, Stage, Kind
<1>4. CASE Stop BY <1>4, EventsTyped, OneEvent DEF Stop, Returns, disk, Stage
<1>5. CASE Crash BY <1>5, AnExit DEF Crash, Returns, disk, Stage
<1>6. CASE SkipsQa BY <1>6 DEF SkipsQa, Returns, disk, frontend, Stage
<1>7. CASE StartsReview
  BY <1>1, <1>7, EventsTyped, OneEvent DEF StartsReview, EntersLoop, disk, Stage
<1>8. CASE StartsAnswering
  BY <1>1, <1>8, EventsTyped, TwoEvents DEF StartsAnswering, disk, Stage
<1>9. CASE Answered
  BY <1>1, <1>9, EventsTyped, OneEvent DEF Answered, EntersLoop, Stage
<1>10. CASE NotAnswered
  <2>1. machine' \in Machine /\ terminalEventSeen' \in BOOLEAN
    BY <1>10, AnExit DEF NotAnswered, frontend
  <2>. QED BY <1>10, <2>1 DEF NotAnswered, Returns, Stage
<1>11. CASE NextIteration
  <2>1. stage' = "reviewing" /\ iteration' = iteration + 1 /\ signed' = FALSE
    BY <1>11 DEF NextIteration
  <2>2. /\ kind' = kind /\ errors' = errors /\ machine' = machine /\ runs' = runs
        /\ signoff' = signoff /\ seen' = seen /\ request' = request /\ handed' = handed
        /\ terminalEventSeen' = terminalEventSeen
    BY <1>11 DEF NextIteration, disk, frontend
  <2>3. iteration' \in Nat BY <2>1
  <2>4. stage' \in Stage /\ signed' \in BOOLEAN BY <2>1 DEF Stage
  <2>. QED BY <2>2, <2>3, <2>4
<1>12. CASE NoIterationLeft
  BY <1>1, <1>12, EventsTyped, OneEvent DEF NoIterationLeft, Returns, disk, Stage
<1>13. CASE ReviewerSignsOff
  <2>1. signoff' \in [status : Status, session : Nat, issues : SUBSET Issues] /\ signed' \in BOOLEAN
    <3>1. signoff \in Signoff /\ "in_review" \in Status BY DEF Signoff, Status
    <3>. QED BY <1>13, <3>1, UpdateTyped, SignsTyped DEF ReviewerSignsOff, Signoff
  <2>2. request' \in {"none", "human", "qa", "answered"} BY <1>13 DEF ReviewerSignsOff
  <2>. QED BY <1>13, <2>1, <2>2 DEF ReviewerSignsOff, loop, frontend
<1>14. CASE FixerSignsOff
  <2>1. signoff' \in [status : Status, session : Nat, issues : SUBSET Issues] /\ signed' \in BOOLEAN
    <3>1. signoff \in Signoff BY DEF Signoff
    <3>. QED BY <1>14, <3>1, SignsTyped DEF FixerSignsOff, Signoff
  <2>. QED BY <1>14, <2>1 DEF FixerSignsOff, loop, frontend
<1>15. CASE Approves
  BY <1>1, <1>15, EventsTyped, OneEvent DEF Approves, Returns, disk, Stage
<1>16. Recorded \in [Issues -> Nat] /\ Counted(handed) \in [Issues -> Nat]
  BY CountedTyped DEF Recorded
<1>17. CASE Rejects
  BY <1>1, <1>16, <1>17, EventsTyped, TwoEvents DEF Rejects, Stage
<1>18. CASE Escalates
  BY <1>1, <1>16, <1>18, EventsTyped, TwoEvents DEF Escalates, Returns, Stage
<1>19. CASE Fixes BY <1>1, <1>19, EventsTyped, OneEvent DEF Fixes, disk, Stage
<1>20. CASE FixerErrs
  BY <1>1, <1>20, EventsTyped, OneEvent DEF FixerErrs, Returns, disk, Stage
<1>21. CASE ReviewerErrs BY <1>21 DEF ReviewerErrs, disk, frontend, Stage
<1>22. CASE GivesUp BY <1>1, <1>22, EventsTyped, OneEvent DEF GivesUp, Returns, disk, Stage
<1>23. CASE UNCHANGED vars BY <1>23 DEF vars, loop, disk, frontend
<1>. QED BY <1>2, <1>3, <1>4, <1>5, <1>6, <1>7, <1>8, <1>9, <1>10, <1>11, <1>12, <1>13, <1>14, <1>15,
            <1>17, <1>18, <1>19, <1>20, <1>21, <1>22, <1>23 DEF Next, User, Process

\* A step that leaves the task of a running process uncompleted keeps what IInv
\* says of completed tasks.
LEMMA StaysUncompleted ==
  ASSUME IInv, stage # "idle", machine' = machine \/ machine' # Completed_
  PROVE  CompletedIsSigned' /\ CompletedIsIdle'
BY DEF IInv, CompletedIsSigned, CompletedIsIdle

\* What the process tells the machine, QA_PASSED aside, completes nothing.
LEMMA ToldUncompleted ==
  ASSUME IInv, [Next]_vars, stage # "idle", ~Approves
  PROVE  machine' = machine \/ machine' # Completed_
<1>1. machine \in Machine /\ terminalEventSeen \in BOOLEAN /\ machine # Completed_
  BY DEF IInv, TypeOK, CompletedIsIdle
<1>2. {"QA_STARTED", "QA_FIXING_STARTED", "QA_FIXING_COMPLETE", "QA_MAX_ITERATIONS", "QA_PASSED",
       "QA_FAILED", "QA_AGENT_ERROR", "USER_RESUMED"} \subseteq TaskEventType
  BY DEF TaskEventType
<1>3. CASE Stop \/ Crash BY <1>1, <1>3, EventsTyped, OneEvent, AnExit DEF Stop, Crash
<1>4. CASE StartsReview BY <1>1, <1>2, <1>4, EventsTyped, OneEvent DEF StartsReview
<1>5. CASE StartsAnswering BY <1>1, <1>2, <1>5, EventsTyped, TwoEvents DEF StartsAnswering
<1>6. CASE Answered \/ NotAnswered
  BY <1>1, <1>2, <1>6, EventsTyped, OneEvent, AnExit DEF Answered, NotAnswered, frontend
<1>7. CASE NoIterationLeft \/ Fixes \/ FixerErrs \/ GivesUp
  BY <1>1, <1>2, <1>7, EventsTyped, OneEvent DEF NoIterationLeft, Fixes, FixerErrs, GivesUp
<1>8. CASE Rejects \/ Escalates
  BY <1>1, <1>2, <1>8, EventsTyped, TwoEvents DEF Rejects, Escalates
<1>9. CASE SkipsQa \/ NextIteration \/ ReviewerSignsOff \/ FixerSignsOff \/ ReviewerErrs
           \/ UNCHANGED vars
  BY <1>9 DEF SkipsQa, NextIteration, ReviewerSignsOff, FixerSignsOff, ReviewerErrs, frontend, vars
<1>10. ~RejectReview /\ ~Resume BY DEF RejectReview, Resume
<1>. QED BY <1>3, <1>4, <1>5, <1>6, <1>7, <1>8, <1>9, <1>10 DEF Next, User, Process

\* Feedback is answered before the loop, and none comes while a process runs.
LEMMA AnsweredStep ==
  ASSUME IInv, [Next]_vars
  PROVE  AnsweredFirst'
<1>. USE DEF IInv, AnsweredFirst
<1>1. CASE RejectReview \/ Resume BY <1>1 DEF RejectReview, Resume
<1>2. CASE Stop \/ Crash BY <1>2 DEF Stop, Crash, Returns
<1>3. CASE SkipsQa \/ StartsReview \/ StartsAnswering
  BY <1>3 DEF SkipsQa, StartsReview, StartsAnswering, Returns, disk
<1>4. CASE Answered \/ NotAnswered BY <1>4 DEF Answered, NotAnswered, Returns
<1>5. CASE NextIteration \/ NoIterationLeft
  BY <1>5 DEF NextIteration, NoIterationLeft, Returns, disk
<1>6. CASE ReviewerSignsOff \/ FixerSignsOff BY <1>6 DEF ReviewerSignsOff, FixerSignsOff, loop
<1>7. CASE Approves \/ Rejects \/ Escalates
  BY <1>7 DEF Approves, Rejects, Escalates, Returns, disk
<1>8. CASE Fixes \/ FixerErrs \/ ReviewerErrs \/ GivesUp
  BY <1>8 DEF Fixes, FixerErrs, ReviewerErrs, GivesUp, Returns, disk
<1>9. CASE UNCHANGED vars BY <1>9 DEF vars, loop, disk
<1>. QED BY <1>1, <1>2, <1>3, <1>4, <1>5, <1>6, <1>7, <1>8, <1>9 DEF Next, User, Process

\* An issue handed to the fixer is recorded with it, and below the threshold.
LEMMA RecurringStep ==
  ASSUME IInv, [Next]_vars
  PROVE  RecurringIsEscalated' /\ HandedIsSeen'
<1>1. seen \in [Issues -> Nat] /\ handed \in [Issues -> Nat] BY DEF IInv, TypeOK
<1>. USE DEF RecurringIsEscalated, HandedIsSeen
<1>2. CASE Rejects
  <2>. SUFFICES ASSUME NEW i \in Issues
                PROVE  handed'[i] < RECURRING_ISSUE_THRESHOLD /\ handed'[i] <= seen'[i]
    OBVIOUS
  <2>1. /\ seen[i] \in Nat /\ handed[i] \in Nat /\ handed[i] <= seen[i]
        /\ handed[i] < RECURRING_ISSUE_THRESHOLD /\ RECURRING_ISSUE_THRESHOLD \in Nat
    BY <1>1, QaAssumption DEF IInv
  <2>2. CASE i \in signoff.issues
    <3>1. seen'[i] = seen[i] + 1 /\ handed'[i] = handed[i] + 1
      BY <1>1, <1>2, <2>2, CountedTyped DEF Rejects, Recorded
    <3>2. ~(seen[i] + 1 >= RECURRING_ISSUE_THRESHOLD) BY <1>2, <2>2 DEF Rejects, Recurring
    <3>. QED BY <2>1, <3>1, <3>2
  <2>3. CASE i \notin signoff.issues
    <3>1. seen'[i] = seen[i] /\ handed'[i] = handed[i]
      BY <1>1, <1>2, <2>3, CountedTyped DEF Rejects, Recorded
    <3>. QED BY <2>1, <3>1
  <2>. QED BY <2>2, <2>3
<1>3. CASE Escalates
  <2>1. handed' = handed /\ seen' = Counted(seen) BY <1>3 DEF Escalates, Recorded
  <2>2. ASSUME NEW i \in Issues PROVE handed[i] <= Counted(seen)[i]
    <3>1. handed[i] \in Nat /\ seen[i] \in Nat /\ handed[i] <= seen[i] BY <1>1 DEF IInv
    <3>2. Counted(seen)[i] = seen[i] + 1 \/ Counted(seen)[i] = seen[i] BY <1>1, CountedTyped
    <3>. QED BY <3>1, <3>2
  <2>. QED BY <2>1, <2>2 DEF IInv
<1>4. CASE seen' = seen /\ handed' = handed BY <1>4 DEF IInv
<1>5. CASE [Next]_vars /\ ~Rejects /\ ~Escalates
  BY <1>4, <1>5 DEF Next, User, Process, RejectReview, Resume, Stop, Crash, SkipsQa, StartsReview,
              StartsAnswering, Answered, NotAnswered, NextIteration, NoIterationLeft,
              ReviewerSignsOff, FixerSignsOff, Approves, Fixes, FixerErrs, ReviewerErrs, GivesUp,
              disk, vars
<1>. QED BY <1>2, <1>3, <1>5

\* A task is completed by a verdict found in the plan, with no feedback left.
LEMMA CompletedStep ==
  ASSUME IInv, [Next]_vars
  PROVE  CompletedIsSigned' /\ CompletedIsIdle'
<1>1. CASE Approves
  <2>1. request # "human" BY <1>1 DEF Approves, IInv, AnsweredFirst
  <2>. QED BY <1>1, <2>1 DEF Approves, Returns, disk, CompletedIsSigned, CompletedIsIdle
<1>2. CASE stage # "idle" /\ ~Approves BY <1>2, ToldUncompleted, StaysUncompleted
<1>3. CASE stage = "idle"
  <2>1. CASE RejectReview \/ Resume
    <3>1. machine' # Completed_ BY <2>1, ResumedIsCoding DEF RejectReview, Resume, IInv, TypeOK
    <3>. QED BY <3>1 DEF CompletedIsSigned, CompletedIsIdle
  <2>2. CASE UNCHANGED vars
    BY <2>2 DEF vars, loop, disk, frontend, IInv, CompletedIsSigned, CompletedIsIdle
  <2>3. CASE Stop
    <3>1. machine \in Machine /\ terminalEventSeen \in BOOLEAN /\ machine # Completed_
      BY <1>3, <2>3 DEF Stop, ActiveStates, Completed_, IInv, TypeOK
    <3>2. machine' # Completed_ BY <2>3, <3>1, EventsTyped, OneEvent DEF Stop
    <3>. QED BY <3>2 DEF CompletedIsSigned, CompletedIsIdle
  <2>4. ~(Next /\ ~RejectReview /\ ~Resume /\ ~Stop)
    BY <1>3 DEF Next, User, Process, Crash, SkipsQa, StartsReview,
                StartsAnswering, Answered, NotAnswered, NextIteration,
                NoIterationLeft, ReviewerSignsOff, FixerSignsOff, Approves, Rejects, Escalates,
                Fixes, FixerErrs, ReviewerErrs, GivesUp
  <2>. QED BY <2>1, <2>2, <2>3, <2>4
<1>. QED BY <1>1, <1>2, <1>3

\* IInv is an invariant.
LEMMA Inductive == Spec => []IInv
<1>1. Init => IInv
  <2>1. ASSUME Init PROVE TypeOK
    <3>1. machine \in Machine BY <2>1 DEF Init, Machine, TASK_STATE_NAMES, ReviewReason
    <3>2. signoff \in [status : Status, session : Nat, issues : SUBSET Issues]
      BY <2>1 DEF Init, Status
    <3>3. seen \in [Issues -> Nat] /\ handed \in [Issues -> Nat] BY <2>1 DEF Init
    <3>4. /\ stage \in Stage /\ kind \in Kind /\ iteration \in Nat /\ errors \in Nat
          /\ request \in {"none", "human", "qa", "answered"} /\ signed \in BOOLEAN
          /\ terminalEventSeen \in BOOLEAN /\ runs \in Nat
      BY <2>1 DEF Init, Stage, Kind
    <3>. QED BY <3>1, <3>2, <3>3, <3>4 DEF TypeOK
  <2>2. ASSUME Init PROVE machine # Completed_ /\ request # "human"
    BY <2>2 DEF Init, Completed_
  <2>3. ASSUME Init PROVE RecurringIsEscalated /\ HandedIsSeen
    <3>1. RECURRING_ISSUE_THRESHOLD \in Nat /\ 0 < RECURRING_ISSUE_THRESHOLD BY QaAssumption
    <3>2. \A i \in Issues : handed[i] = 0 /\ seen[i] = 0 BY <2>3 DEF Init
    <3>. QED BY <3>1, <3>2 DEF RecurringIsEscalated, HandedIsSeen
  <2>. QED BY <2>1, <2>2, <2>3 DEF IInv, CompletedIsSigned, CompletedIsIdle, AnsweredFirst
<1>2. IInv /\ [Next]_vars => IInv'
  BY TypeStep, CompletedStep, RecurringStep, AnsweredStep DEF IInv
<1>. QED BY <1>1, <1>2, PTL DEF Spec

------------------------------------------------------------------------------
(* Theorems.                                                               *)

\* Every variable of the loop always holds a value of its type.
THEOREM LoopTyped == Spec => []TypeOK
<1>1. IInv => TypeOK BY DEF IInv
<1>. QED BY <1>1, Inductive, PTL

\* A task shown as completed carries an approval and no unanswered feedback.
THEOREM CompletedWithApproval == Spec => []CompletedIsSigned
<1>1. IInv => CompletedIsSigned BY DEF IInv
<1>. QED BY <1>1, Inductive, PTL

\* No issue is handed to the fixer as often as the recurring threshold.
THEOREM RecurringNeverFixed == Spec => []RecurringIsEscalated
<1>1. IInv => RecurringIsEscalated BY DEF IInv
<1>. QED BY <1>1, Inductive, PTL

\* Feedback of the user is given up only by the session that answers it.
THEOREM FeedbackIsKept == Spec => FeedbackKept
<1>1. IInv /\ [Next]_vars => [request = "human" /\ request' # "human" => stage = "answering"]_vars
  <2>1. SUFFICES ASSUME IInv, Next, request = "human", request' # "human"
                 PROVE  stage = "answering"
    BY DEF vars
  <2>2. stage \in {"idle", "boot", "answering"} BY <2>1 DEF IInv, AnsweredFirst
  <2>3. ~(RejectReview \/ Resume \/ Stop \/ Crash \/ SkipsQa \/ StartsReview \/ StartsAnswering)
    BY <2>1 DEF RejectReview, Resume, Stop, Crash, SkipsQa, StartsReview, StartsAnswering, disk
  <2>4. CASE Answered \/ NotAnswered BY <2>4 DEF Answered, NotAnswered
  <2>5. CASE NextIteration \/ NoIterationLeft \/ ReviewerSignsOff \/ Approves \/ Rejects
             \/ Escalates \/ Fixes \/ FixerErrs \/ ReviewerErrs \/ GivesUp
    BY <2>2, <2>5 DEF NextIteration, NoIterationLeft, ReviewerSignsOff, Approves, Rejects,
                      Escalates, Fixes, FixerErrs, ReviewerErrs, GivesUp
  <2>6. ~FixerSignsOff BY <2>1 DEF FixerSignsOff
  <2>. QED BY <2>1, <2>3, <2>4, <2>5, <2>6 DEF Next, User, Process
<1>. QED BY <1>1, Inductive, PTL DEF Spec, FeedbackKept

------------------------------------------------------------------------------
(* How a process leaves the loop.                                          *)

\* The machine follows the process.
MachineFollows ==
  /\ stage = "boot" => machine.state = "coding"
  /\ stage \in {"answering", "loop", "reviewing"} => machine.state = "qa_review"
  /\ stage = "fixing" => machine.state = "qa_fixing"

\* Where an event of the loop leads, and one the state does not handle.
LEMMA RowStep ==
  ASSUME NEW m \in Machine, NEW x
  PROVE  /\ x \in DOMAIN On[m.state] => Step(m, Event(x)).state = On[m.state][x][FALSE].state
         /\ x \notin DOMAIN On[m.state] => Step(m, Event(x)) = m
<1>1. Event(x).type = x /\ Event(x).flag = FALSE BY DEF Event
<1>2. ASSUME x \in DOMAIN On[m.state]
      PROVE  Step(m, Event(x)).state = On[m.state][x][FALSE].state
  <2>. DEFINE t == On[m.state][x][FALSE]
  <2>1. Step(m, Event(x)) = [state |-> t.state, reason |-> IF t.sets THEN t.reason ELSE m.reason]
    BY <1>1, <1>2 DEF Step
  <2>. QED BY <2>1
<1>. QED BY <1>1, <1>2 DEF Step

\* Where a stop and a crash lead.
LEMMA EndStep ==
  ASSUME NEW m \in Machine
  PROVE  /\ "USER_STOPPED" \in DOMAIN On[m.state]
              => Step(m, Stopped).state = On[m.state]["USER_STOPPED"][TRUE].state
         /\ "PROCESS_EXITED" \in DOMAIN On[m.state]
              => Step(m, Crashed).state = On[m.state]["PROCESS_EXITED"][TRUE].state
<1>1. /\ Stopped.type = "USER_STOPPED" /\ Stopped.flag = TRUE
      /\ Crashed.type = "PROCESS_EXITED" /\ Crashed.flag = TRUE
  BY DEF Stopped, Crashed
<1>. QED BY <1>1 DEF Step

\* The rows of the machine a process runs through.
LEMMA Rows ==
  /\ "QA_STARTED" \in DOMAIN On["coding"]
  /\ On["coding"]["QA_STARTED"][FALSE].state = "qa_review"
  /\ {"QA_FIXING_STARTED", "QA_FIXING_COMPLETE"} \cap DOMAIN On["qa_review"] = {}
  /\ {"QA_FAILED", "QA_PASSED", "QA_MAX_ITERATIONS", "QA_AGENT_ERROR", "USER_STOPPED",
      "PROCESS_EXITED"} \subseteq DOMAIN On["qa_review"]
  /\ On["qa_review"]["QA_FAILED"][FALSE].state = "qa_fixing"
  /\ On["qa_review"]["QA_PASSED"][FALSE].state = "human_review"
  /\ On["qa_review"]["QA_MAX_ITERATIONS"][FALSE].state = "error"
  /\ On["qa_review"]["QA_AGENT_ERROR"][FALSE].state = "error"
  /\ On["qa_review"]["USER_STOPPED"][TRUE].state = "human_review"
  /\ On["qa_review"]["PROCESS_EXITED"][TRUE].state = "error"
  /\ "QA_FIXING_STARTED" \notin DOMAIN On["qa_fixing"]
  /\ {"QA_FIXING_COMPLETE", "QA_MAX_ITERATIONS", "USER_STOPPED", "PROCESS_EXITED"}
       \subseteq DOMAIN On["qa_fixing"]
  /\ On["qa_fixing"]["QA_FIXING_COMPLETE"][FALSE].state = "qa_review"
  /\ On["qa_fixing"]["QA_MAX_ITERATIONS"][FALSE].state = "error"
  /\ On["qa_fixing"]["USER_STOPPED"][TRUE].state = "human_review"
  /\ On["qa_fixing"]["PROCESS_EXITED"][TRUE].state = "error"
BY DEF On, Always, If, To, Set, Completed, Failed, StopFrom, CrashFrom

\* Where the events of the loop lead.
LEMMA Moves ==
  ASSUME NEW m \in Machine
  PROVE  /\ m.state = "coding" => Step(m, Event("QA_STARTED")).state = "qa_review"
         /\ m.state = "qa_review" =>
              /\ Step(m, Event("QA_FIXING_STARTED")).state = "qa_review"
              /\ Step(m, Event("QA_FIXING_COMPLETE")).state = "qa_review"
              /\ Step(m, Event("QA_FAILED")).state = "qa_fixing"
              /\ Step(m, Event("QA_PASSED")).state = "human_review"
              /\ Step(m, Event("QA_MAX_ITERATIONS")).state = "error"
              /\ Step(m, Event("QA_AGENT_ERROR")).state = "error"
              /\ Step(m, Stopped).state = "human_review"
              /\ Step(m, Crashed).state = "error"
         /\ m.state = "qa_fixing" =>
              /\ Step(m, Event("QA_FIXING_STARTED")).state = "qa_fixing"
              /\ Step(m, Event("QA_FIXING_COMPLETE")).state = "qa_review"
              /\ Step(m, Event("QA_MAX_ITERATIONS")).state = "error"
              /\ Step(m, Stopped).state = "human_review"
              /\ Step(m, Crashed).state = "error"
<1>1. CASE m.state = "coding"
  <2>1. Step(m, Event("QA_STARTED")).state = On["coding"]["QA_STARTED"][FALSE].state
    <3>1. "QA_STARTED" \in DOMAIN On[m.state] BY <1>1, Rows
    <3>2. Step(m, Event("QA_STARTED")).state = On[m.state]["QA_STARTED"][FALSE].state
      BY <3>1, RowStep
    <3>. QED BY <1>1, <3>2
  <2>. QED BY <1>1, <2>1, Rows
<1>2. CASE m.state = "qa_review"
  <2>1. /\ Step(m, Event("QA_FIXING_STARTED")) = m
        /\ Step(m, Event("QA_FIXING_COMPLETE")) = m
    BY <1>2, Rows, RowStep
  <2>2. \A x \in {"QA_FAILED", "QA_PASSED", "QA_MAX_ITERATIONS", "QA_AGENT_ERROR"} :
          Step(m, Event(x)).state = On["qa_review"][x][FALSE].state
    <3>. TAKE x \in {"QA_FAILED", "QA_PASSED", "QA_MAX_ITERATIONS", "QA_AGENT_ERROR"}
    <3>1. x \in DOMAIN On[m.state] BY <1>2, Rows
    <3>2. Step(m, Event(x)).state = On[m.state][x][FALSE].state BY <3>1, RowStep
    <3>. QED BY <1>2, <3>2
  <2>3. /\ Step(m, Event("QA_FAILED")).state = "qa_fixing"
        /\ Step(m, Event("QA_PASSED")).state = "human_review"
        /\ Step(m, Event("QA_MAX_ITERATIONS")).state = "error"
        /\ Step(m, Event("QA_AGENT_ERROR")).state = "error"
    BY <2>2, Rows
  <2>4. Step(m, Stopped).state = "human_review" /\ Step(m, Crashed).state = "error"
    BY <1>2, Rows, EndStep
  <2>. QED BY <1>2, <2>1, <2>2, <2>3, <2>4
<1>3. CASE m.state = "qa_fixing"
  <2>1. Step(m, Event("QA_FIXING_STARTED")) = m BY <1>3, Rows, RowStep
  <2>2. \A x \in {"QA_FIXING_COMPLETE", "QA_MAX_ITERATIONS"} :
          Step(m, Event(x)).state = On["qa_fixing"][x][FALSE].state
    <3>. TAKE x \in {"QA_FIXING_COMPLETE", "QA_MAX_ITERATIONS"}
    <3>1. x \in DOMAIN On[m.state] BY <1>3, Rows
    <3>2. Step(m, Event(x)).state = On[m.state][x][FALSE].state BY <3>1, RowStep
    <3>. QED BY <1>3, <3>2
  <2>3. Step(m, Stopped).state = "human_review" /\ Step(m, Crashed).state = "error"
    BY <1>3, Rows, EndStep
  <2>. QED BY <1>3, <2>1, <2>2, <2>3, Rows
<1>. QED BY <1>1, <1>2, <1>3

\* A resumed task is in coding.
LEMMA ResumedState ==
  ASSUME NEW m \in Machine, m.state \in {"human_review", "error"}
  PROVE  Step(m, Event("USER_RESUMED")).state = "coding"
<1>1. /\ "USER_RESUMED" \in DOMAIN On["human_review"]
      /\ On["human_review"]["USER_RESUMED"][FALSE].state = "coding"
      /\ "USER_RESUMED" \in DOMAIN On["error"]
      /\ On["error"]["USER_RESUMED"][FALSE].state = "coding"
  BY DEF On, Always, Clear, Set
<1>. QED BY <1>1, RowStep

\* The events of the loop keep the machine a machine.
LEMMA StepsTyped ==
  ASSUME NEW m \in Machine
  PROVE  /\ Step(m, Event("QA_STARTED")) \in Machine
         /\ Step(m, Event("QA_FAILED")) \in Machine
<1>1. Event("QA_STARTED") \in TaskEvent /\ Event("QA_FAILED") \in TaskEvent
  BY DEF Event, TaskEvent, TaskEventType
<1>. QED BY <1>1, StepTyped

\* Every step keeps the machine with the process.
LEMMA FollowsStep ==
  ASSUME TypeOK, MachineFollows, [Next]_vars
  PROVE  MachineFollows'
<1>1. machine \in Machine BY DEF TypeOK
<1>. USE <1>1, Moves DEF MachineFollows
<1>2. CASE RejectReview \/ Resume
  BY <1>2, ResumedState DEF RejectReview, Resume, Tells
<1>3. CASE Stop \/ Crash BY <1>3 DEF Stop, Crash, Returns
<1>4. CASE SkipsQa \/ NoIterationLeft \/ Approves \/ Escalates \/ FixerErrs \/ GivesUp \/ NotAnswered
  BY <1>4 DEF SkipsQa, NoIterationLeft, Approves, Escalates, FixerErrs, GivesUp, NotAnswered, Returns
<1>5. CASE StartsReview BY <1>5 DEF StartsReview, EntersLoop, Emits
<1>6. CASE StartsAnswering BY <1>6, StepsTyped DEF StartsAnswering, EmitsBoth
<1>7. CASE Answered BY <1>7 DEF Answered, EntersLoop, Emits
<1>8. CASE NextIteration \/ ReviewerErrs BY <1>8 DEF NextIteration, ReviewerErrs, frontend
<1>9. CASE ReviewerSignsOff \/ FixerSignsOff
  BY <1>9 DEF ReviewerSignsOff, FixerSignsOff, loop, frontend
<1>10. CASE Rejects BY <1>10, StepsTyped DEF Rejects, EmitsBoth
<1>11. CASE Fixes BY <1>11 DEF Fixes, Emits
<1>12. CASE UNCHANGED vars BY <1>12 DEF vars, loop, frontend
<1>. QED BY <1>2, <1>3, <1>4, <1>5, <1>6, <1>7, <1>8, <1>9, <1>10, <1>11, <1>12
         DEF Next, User, Process

\* MachineFollows is an invariant.
LEMMA Follows == Spec => []MachineFollows
<1>1. Init => MachineFollows BY DEF Init, MachineFollows
<1>2. TypeOK /\ MachineFollows /\ [Next]_vars => MachineFollows' BY FollowsStep
<1>. QED BY <1>1, <1>2, LoopTyped, PTL DEF Spec

\* A process that leaves the loop, by a verdict, an error or a kill, leaves no
\* task in a state that waits for a process, unless its exit goes unheard.
THEOREM LoopAlwaysSettles == Spec => LoopSettles
<1>1. TypeOK /\ MachineFollows /\ [Next]_vars
      => [(stage \in {"loop", "reviewing", "fixing"} /\ stage' = "idle")
           => \/ machine'.state \notin ActiveStates
              \/ terminalEventSeen /\ machine' = machine]_vars
  <2>1. SUFFICES ASSUME TypeOK, MachineFollows, Next,
                        stage \in {"loop", "reviewing", "fixing"}, stage' = "idle"
                 PROVE  \/ machine'.state \notin ActiveStates
                        \/ terminalEventSeen /\ machine' = machine
    BY DEF vars
  <2>2. machine \in Machine BY <2>1 DEF TypeOK
  <2>. USE <2>1, <2>2, Moves DEF MachineFollows, ActiveStates
  <2>3. CASE Stop BY <2>3 DEF Stop, Tells
  <2>4. CASE Crash
    <3>1. CASE terminalEventSeen BY <2>4, <3>1 DEF Crash, Exits
    <3>2. CASE ~terminalEventSeen
      <4>1. machine' = Step(machine, Crashed) BY <2>4, <3>2 DEF Crash, Exits
      <4>2. machine.state \in {"qa_review", "qa_fixing"} OBVIOUS
      <4>. QED BY <4>1, <4>2
    <3>. QED BY <3>1, <3>2
  <2>5. CASE NoIterationLeft BY <2>5 DEF NoIterationLeft, Emits
  <2>6. CASE Approves \/ GivesUp BY <2>6 DEF Approves, GivesUp, Emits
  <2>7. CASE FixerErrs BY <2>7 DEF FixerErrs, Emits
  <2>8. CASE Escalates BY <2>8, StepsTyped DEF Escalates, EmitsBoth
  <2>9. ~(RejectReview \/ Resume \/ SkipsQa \/ StartsReview \/ StartsAnswering \/ Answered
          \/ NotAnswered \/ NextIteration \/ Rejects \/ Fixes \/ ReviewerErrs
          \/ ReviewerSignsOff \/ FixerSignsOff)
    BY DEF RejectReview, Resume, SkipsQa, StartsReview, StartsAnswering, Answered, NotAnswered,
           NextIteration, Rejects, Fixes, ReviewerErrs, ReviewerSignsOff, FixerSignsOff, loop
  <2>. QED BY <2>3, <2>4, <2>5, <2>6, <2>7, <2>8, <2>9 DEF Next, User, Process
<1>. QED BY <1>1, LoopTyped, Follows, PTL DEF Spec, LoopSettles

------------------------------------------------------------------------------
(* The refinement of ReviewContract.                                       *)

\* A step of an idle process is a request of the user, or a stop that nobody sees.
LEMMA IdleRefines ==
  ASSUME IInv, Next, stage = "idle"
  PROVE  [Contract!Next]_(Contract!vars)
<1>1. RejectReview \/ Resume \/ Stop
  BY DEF Next, User, Process, Crash, SkipsQa, StartsReview, StartsAnswering, Answered,
         NotAnswered, NextIteration, NoIterationLeft, ReviewerSignsOff, FixerSignsOff, Approves,
         Rejects, Escalates, Fixes, FixerErrs, ReviewerErrs, GivesUp
<1>2. CASE RejectReview \/ Resume
  <2>1. machine' # Completed_ BY <1>2, ResumedIsCoding DEF RejectReview, Resume, IInv, TypeOK
  <2>2. stage' # "idle" /\ signoff' = signoff /\ request' \in {request, "human"}
    BY <1>2 DEF RejectReview, Resume, disk
  <2>. QED BY <2>1, <2>2 DEF Contract!Ask, Contract!Next
<1>3. CASE Stop
  <2>1. machine \in Machine /\ terminalEventSeen \in BOOLEAN /\ machine # Completed_
    BY <1>3 DEF Stop, ActiveStates, Completed_, IInv, TypeOK
  <2>2. machine' # Completed_ BY <1>3, <2>1, EventsTyped, OneEvent DEF Stop
  <2>. QED BY <1>3, <2>1, <2>2 DEF Stop, Returns, disk, Contract!vars
<1>. QED BY <1>1, <1>2, <1>3

\* A step in which the process goes on, and leaves both the sign-off and the
\* fix request alone, is not seen.
LEMMA QuietRefines ==
  ASSUME IInv, stage # "idle", stage' # "idle", machine' # Completed_, UNCHANGED disk
  PROVE  UNCHANGED Contract!vars
BY DEF IInv, CompletedIsIdle, disk, Contract!vars

\* A step that ends the process without completing the task.
LEMMA EndRefines ==
  ASSUME IInv, stage # "idle", stage' = "idle", machine' # Completed_, signoff' = signoff,
         request' \in {request, "none"}
  PROVE  Contract!GiveUp
BY DEF IInv, CompletedIsIdle, Contract!GiveUp

\* Every step of a process is a step of the contract, or none.
LEMMA WorkRefines ==
  ASSUME IInv, [Next]_vars, stage # "idle", ~Approves
  PROVE  [Contract!Next]_(Contract!vars)
<1>1. machine # Completed_ /\ machine' # Completed_
  BY ToldUncompleted DEF IInv, CompletedIsIdle
<1>. USE <1>1
<1>2. CASE Stop \/ Crash \/ SkipsQa \/ NoIterationLeft \/ FixerErrs \/ GivesUp
  BY <1>2, EndRefines
     DEF Stop, Crash, SkipsQa, NoIterationLeft, FixerErrs, GivesUp, Returns, disk, Contract!Next
<1>3. CASE NotAnswered \/ Escalates
  BY <1>3, EndRefines DEF NotAnswered, Escalates, Returns, Contract!Next
<1>4. CASE StartsReview \/ StartsAnswering \/ NextIteration \/ ReviewerErrs
  BY <1>4, QuietRefines DEF StartsReview, StartsAnswering, EntersLoop, NextIteration, ReviewerErrs
<1>5. CASE Rejects
  BY <1>5 DEF Rejects, Contract!vars
<1>6. CASE Answered
  <2>1. stage' # "idle" /\ request' # "human" /\ signoff' = signoff
    BY <1>6 DEF Answered, EntersLoop
  <2>2. CASE request = "human" BY <2>1, <2>2 DEF Contract!Next, Contract!Answer
  <2>3. CASE request # "human" BY <2>1, <2>3 DEF Contract!vars
  <2>. QED BY <2>2, <2>3
<1>7. CASE Fixes
  BY <1>7, QuietRefines DEF Fixes
<1>8. CASE ReviewerSignsOff \/ FixerSignsOff
  <2>1. stage' # "idle" /\ (request' = "human") = (request = "human")
    BY <1>8 DEF ReviewerSignsOff, FixerSignsOff, loop, IInv, AnsweredFirst
  <2>. QED BY <2>1 DEF Contract!Next, Contract!Review
<1>9. CASE UNCHANGED vars BY <1>9 DEF vars, loop, disk, frontend, Contract!vars
<1>10. ~RejectReview /\ ~Resume BY DEF RejectReview, Resume
<1>. QED BY <1>2, <1>3, <1>4, <1>5, <1>6, <1>7, <1>8, <1>9, <1>10 DEF Next, User, Process

\* QaLoop implements ReviewContract, for any limits and any number of runs.
THEOREM ContractImplemented == Spec => ImplementsContract
<1>1. Init => Contract!Init BY DEF Init, Contract!Init, Completed_
<1>2. IInv /\ [Next]_vars => [Contract!Next]_(Contract!vars)
  <2>. SUFFICES ASSUME IInv, [Next]_vars PROVE [Contract!Next]_(Contract!vars)
    OBVIOUS
  <2>1. CASE stage = "idle" /\ Next BY <2>1, IdleRefines
  <2>2. CASE Approves
    <3>1. request # "human" /\ request' = request BY <2>2 DEF Approves, disk, IInv, AnsweredFirst
    <3>2. CASE machine' = Completed_
      BY <2>2, <3>1, <3>2 DEF Approves, Returns, disk, Contract!Next, Contract!Complete
    <3>3. CASE machine' # Completed_
      BY <2>2, <3>1, <3>3, EndRefines DEF Approves, Returns, disk, Contract!Next
    <3>. QED BY <3>2, <3>3
  <2>3. CASE UNCHANGED vars BY <2>3 DEF vars, loop, disk, frontend, Contract!vars
  <2>. QED BY <2>1, <2>2, <2>3, WorkRefines
<1>. QED BY <1>1, <1>2, Inductive, PTL DEF Spec, ImplementsContract, Contract!Spec

------------------------------------------------------------------------------
(* How long a process takes.                                               *)

\* Iterations still to come, for a process in the loop.
IterationsLeft ==
  IF iteration < MAX_QA_ITERATIONS THEN MAX_QA_ITERATIONS - iteration ELSE 0

\* The most steps the process still takes: three for each iteration to come,
\* one for what it is at, and two to enter the loop.
StepsLeft ==
  CASE stage = "boot"      -> 3 * MAX_QA_ITERATIONS + 3
    [] stage = "answering" -> 3 * MAX_QA_ITERATIONS + 2
    [] stage = "reviewing" -> 3 * IterationsLeft + 3
    [] stage = "fixing"    -> 3 * IterationsLeft + 2
    [] stage = "loop"      -> 3 * IterationsLeft + 1
    [] stage = "idle"      -> 0

\* A process that is still at work has used up a step, and nothing that happens
\* beside it gives a process at work a step back.
StepsRunOut ==
  [][/\ Process => StepsLeft' < StepsLeft
     /\ stage # "idle" => StepsLeft' <= StepsLeft]_vars

\* StepsLeft by the stage.
LEMMA StepsLeftIs ==
  ASSUME TypeOK
  PROVE  /\ IterationsLeft \in 0..MAX_QA_ITERATIONS /\ StepsLeft \in Nat
         /\ iteration < MAX_QA_ITERATIONS => IterationsLeft = MAX_QA_ITERATIONS - iteration
         /\ stage = "boot" => StepsLeft = 3 * MAX_QA_ITERATIONS + 3
         /\ stage = "answering" => StepsLeft = 3 * MAX_QA_ITERATIONS + 2
         /\ stage = "reviewing" => StepsLeft = 3 * IterationsLeft + 3
         /\ stage = "fixing" => StepsLeft = 3 * IterationsLeft + 2
         /\ stage = "loop" => StepsLeft = 3 * IterationsLeft + 1
         /\ stage = "idle" => StepsLeft = 0
<1>1. MAX_QA_ITERATIONS \in Nat BY QaAssumption
<1>2. iteration \in Nat /\ stage \in Stage BY DEF TypeOK
<1>3. IterationsLeft \in 0..MAX_QA_ITERATIONS
  BY <1>1, <1>2 DEF IterationsLeft
<1>. QED BY <1>1, <1>2, <1>3 DEF StepsLeft, IterationsLeft, Stage

\* A step of the process leads to fewer steps, and no other step gives one back.
LEMMA StepsFall ==
  ASSUME TypeOK, TypeOK', [Next]_vars
  PROVE  /\ Process => StepsLeft' < StepsLeft
         /\ stage # "idle" => StepsLeft' <= StepsLeft
<1>1. MAX_QA_ITERATIONS \in Nat \ {0} BY QaAssumption
<1>2. /\ IterationsLeft \in 0..MAX_QA_ITERATIONS /\ StepsLeft \in Nat
      /\ iteration < MAX_QA_ITERATIONS => IterationsLeft = MAX_QA_ITERATIONS - iteration
      /\ stage = "boot" => StepsLeft = 3 * MAX_QA_ITERATIONS + 3
      /\ stage = "answering" => StepsLeft = 3 * MAX_QA_ITERATIONS + 2
      /\ stage = "reviewing" => StepsLeft = 3 * IterationsLeft + 3
      /\ stage = "fixing" => StepsLeft = 3 * IterationsLeft + 2
      /\ stage = "loop" => StepsLeft = 3 * IterationsLeft + 1
  BY StepsLeftIs
<1>3. /\ IterationsLeft' \in 0..MAX_QA_ITERATIONS /\ StepsLeft' \in Nat
      /\ iteration' < MAX_QA_ITERATIONS => IterationsLeft' = MAX_QA_ITERATIONS - iteration'
      /\ stage' = "answering" => StepsLeft' = 3 * MAX_QA_ITERATIONS + 2
      /\ stage' = "reviewing" => StepsLeft' = 3 * IterationsLeft' + 3
      /\ stage' = "fixing" => StepsLeft' = 3 * IterationsLeft' + 2
      /\ stage' = "loop" => StepsLeft' = 3 * IterationsLeft' + 1
      /\ stage' = "idle" => StepsLeft' = 0
  <2>. DEFINE M == MAX_QA_ITERATIONS
  <2>1. M \in Nat /\ iteration' \in Nat BY <1>1 DEF TypeOK
  <2>2. \A n, i \in Nat : /\ (IF i < n THEN n - i ELSE 0) \in 0..n
                          /\ i < n => (IF i < n THEN n - i ELSE 0) = n - i
    OBVIOUS
  <2>3. IterationsLeft' \in 0..M /\ (iteration' < M => IterationsLeft' = M - iteration')
    BY <2>1, <2>2 DEF IterationsLeft
  <2>4. StepsLeft' \in Nat
    BY <1>1, <2>3 DEF StepsLeft, TypeOK, Stage
  <2>. QED BY <2>3, <2>4 DEF StepsLeft
<1>4. iteration \in Nat /\ iteration' \in Nat BY DEF TypeOK
<1>5. iteration' = iteration => IterationsLeft' = IterationsLeft BY DEF IterationsLeft
\* The process ends.
<1>6. CASE stage # "idle" /\ stage' = "idle"
  <2>1. StepsLeft' = 0 BY <1>3, <1>6
  <2>2. StepsLeft > 0 BY <1>1, <1>2, <1>6 DEF TypeOK, Stage
  <2>. QED BY <1>2, <2>1, <2>2
<1>7. CASE SkipsQa \/ NotAnswered \/ NoIterationLeft \/ Approves \/ Escalates \/ FixerErrs \/ GivesUp
           \/ (Stop /\ stage # "idle") \/ Crash
  BY <1>6, <1>7 DEF SkipsQa, NotAnswered, NoIterationLeft, Approves, Escalates, FixerErrs, GivesUp,
                    Stop, Crash, Returns
\* The process enters the loop.
<1>8. CASE StartsAnswering
  <2>1. StepsLeft = 3 * MAX_QA_ITERATIONS + 3 /\ StepsLeft' = 3 * MAX_QA_ITERATIONS + 2
    BY <1>2, <1>3, <1>8 DEF StartsAnswering
  <2>. QED BY <1>1, <2>1
<1>9. CASE StartsReview \/ Answered
  <2>1. /\ StepsLeft = 3 * MAX_QA_ITERATIONS + 3 \/ StepsLeft = 3 * MAX_QA_ITERATIONS + 2
        /\ StepsLeft' = 3 * IterationsLeft' + 1
    BY <1>2, <1>3, <1>9 DEF StartsReview, Answered, EntersLoop
  <2>2. IterationsLeft' \in Nat /\ IterationsLeft' <= MAX_QA_ITERATIONS BY <1>1, <1>3
  <2>3. StepsLeft' < StepsLeft BY <1>1, <2>1, <2>2
  <2>. QED BY <1>2, <1>3, <2>3
\* An iteration.
<1>10. CASE NextIteration
  <2>1. /\ StepsLeft = 3 * (MAX_QA_ITERATIONS - iteration) + 1
        /\ StepsLeft' = 3 * IterationsLeft' + 3
        /\ iteration' = iteration + 1 /\ iteration < MAX_QA_ITERATIONS
    BY <1>2, <1>3, <1>10 DEF NextIteration
  <2>2. IterationsLeft' = MAX_QA_ITERATIONS - iteration - 1
    BY <1>1, <1>4, <2>1 DEF IterationsLeft
  <2>. QED BY <1>1, <1>4, <2>1, <2>2
<1>11. CASE Rejects
  <2>1. StepsLeft = 3 * IterationsLeft + 3 /\ StepsLeft' = 3 * IterationsLeft' + 2
        /\ iteration' = iteration
    BY <1>2, <1>3, <1>11 DEF Rejects
  <2>. QED BY <1>2, <1>5, <2>1
<1>12. CASE Fixes
  <2>1. StepsLeft = 3 * IterationsLeft + 2 /\ StepsLeft' = 3 * IterationsLeft' + 1
        /\ iteration' = iteration
    BY <1>2, <1>3, <1>12 DEF Fixes
  <2>. QED BY <1>2, <1>5, <2>1
<1>13. CASE ReviewerErrs
  <2>1. StepsLeft = 3 * IterationsLeft + 3 /\ StepsLeft' = 3 * IterationsLeft' + 1
        /\ iteration' = iteration
    BY <1>2, <1>3, <1>13 DEF ReviewerErrs
  <2>. QED BY <1>2, <1>5, <2>1
\* Whoever else acts.
<1>14. CASE RejectReview \/ Resume \/ (Stop /\ stage = "idle")
  BY <1>14 DEF RejectReview, Resume, Process, SkipsQa, StartsReview, StartsAnswering, Answered,
     NotAnswered, NextIteration, NoIterationLeft, Approves, Rejects, Escalates, Fixes, FixerErrs,
     ReviewerErrs, GivesUp
<1>15. CASE ReviewerSignsOff \/ FixerSignsOff \/ UNCHANGED vars
  <2>1. stage' = stage /\ iteration' = iteration
    BY <1>15 DEF ReviewerSignsOff, FixerSignsOff, vars, loop
  <2>2. StepsLeft' = StepsLeft BY <1>5, <2>1 DEF StepsLeft
  <2>3. ~Process \/ stage' # stage
    BY <2>1, <1>15 DEF Process, SkipsQa, StartsReview, StartsAnswering, Answered, EntersLoop,
       NotAnswered, NextIteration, NoIterationLeft, Approves, Rejects, Escalates, Fixes, FixerErrs,
       ReviewerErrs, GivesUp, Returns
  <2>. QED BY <1>2, <2>1, <2>2, <2>3
<1>. QED BY <1>7, <1>8, <1>9, <1>10, <1>11, <1>12, <1>13, <1>14, <1>15 DEF Next, User, Process

\* A process takes at most 3 * MAX_QA_ITERATIONS + 3 steps, whatever its agents do:
\* neither rejections nor errors keep it in the loop for ever.
THEOREM StepsOfAProcess == Spec => [](StepsLeft <= 3 * MAX_QA_ITERATIONS + 3) /\ StepsRunOut
<1>1. TypeOK => StepsLeft <= 3 * MAX_QA_ITERATIONS + 3
  <2>1. SUFFICES ASSUME TypeOK PROVE StepsLeft <= 3 * MAX_QA_ITERATIONS + 3 OBVIOUS
  <2>2. MAX_QA_ITERATIONS \in Nat BY QaAssumption
  <2>3. stage \in Stage BY <2>1 DEF TypeOK
  <2>. QED BY <2>1, <2>2, <2>3, StepsLeftIs DEF Stage
<1>2. TypeOK /\ TypeOK' /\ [Next]_vars
        => [/\ Process => StepsLeft' < StepsLeft
            /\ stage # "idle" => StepsLeft' <= StepsLeft]_vars
  BY StepsFall
<1>. QED BY <1>1, <1>2, LoopTyped, PTL DEF Spec, StepsRunOut

==============================================================================
