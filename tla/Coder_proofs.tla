---------------------------- MODULE Coder_proofs -----------------------------
(***************************************************************************)
(* Proofs about Coder, for any plan, any limits and any number of          *)
(* processes, resets and pauses.                                           *)
(*                                                                         *)
(* IInv strengthens the invariants with what holds of the project's copy   *)
(* of the spec directory, and with what a session may rely on.             *)
(*                                                                         *)
(* The last part shows what each step of a process uses up, and so what    *)
(* alone can keep it in the loop.                                          *)
(***************************************************************************)
EXTENDS Coder, FiniteSetTheorems, TLAPS

\* No subtask of the plan p was touched before what it depends on was completed.
Ordered(p) ==
  \A s, t \in Subtasks : PhaseOf[t] \in DependsOn[PhaseOf[s]] /\ p[s] # "pending" => p[t] = "completed"

\* During a session, all that its subtask depends on is completed, and nothing
\* that depends on it is touched.
SessionIsDue ==
  stage = "session" =>
    /\ planned /\ cur \notin stuck
    /\ \A t \in Subtasks : PhaseOf[t] \in DependsOn[PhaseOf[cur]] => t # cur /\ plan[t] = "completed"
    /\ \A s \in Subtasks : PhaseOf[cur] \in DependsOn[PhaseOf[s]] => s # cur /\ plan[s] = "pending"

\* Nothing was done before there is a plan.
Untouched ==
  /\ ~planned \/ stage = "planning" => \A s \in Subtasks : plan[s] = "pending"
  /\ ~source.planned => \A s \in Subtasks : source.plan[s] = "pending"

\* The processes that may have been killed before they looked at the count.
Kills == IF stage = "idle" THEN runs ELSE runs - 1

\* AttemptsBounded, of the project's copy too, and while it does not hold.
Counted ==
  /\ stage # "idle" => runs >= 1
  /\ \A s \in Subtasks : \/ stage = "judging" /\ cur = s
                         \/ s \in stuck \/ plan[s] = "completed"
                         \/ attempts[s] < MAX_SUBTASK_RETRIES + Kills
  /\ \A s \in Subtasks : \/ s \in source.stuck \/ source.plan[s] = "completed"
                         \/ source.attempts[s] < MAX_SUBTASK_RETRIES + Kills
  /\ stage = "session" => attempts[cur] < MAX_SUBTASK_RETRIES + Kills
  /\ stage = "judging" => \/ cur \in stuck \/ plan[cur] = "completed"
                          \/ attempts[cur] <= MAX_SUBTASK_RETRIES + Kills

\* The completed subtasks that a start in a worktree would undo.
Unsaved == {s \in Subtasks : plan[s] = "completed" /\ source.plan[s] # "completed"}

Saved ==
  isolated => /\ \E x \in Subtasks : Unsaved \subseteq {x}
              /\ stage = "session" => Unsaved \subseteq {cur}
              /\ stage \notin {"session", "idle"} => Unsaved = {}

IInv == /\ TypeOK /\ Ordered(plan) /\ Ordered(source.plan)
        /\ SessionIsDue /\ Untouched /\ Counted /\ Saved

------------------------------------------------------------------------------
(* Types.                                                                  *)

LEMMA UnstuckTyped ==
  ASSUME NEW p \in [Subtasks -> Status]
  PROVE  /\ Unstuck(p) \in [Subtasks -> Status]
         /\ \A s \in Subtasks : Unstuck(p)[s] = "completed" <=> p[s] = "completed"
         /\ \A s \in Subtasks : p[s] = "pending" => Unstuck(p)[s] = "pending"
         /\ \A s \in Subtasks : Unstuck(p)[s] # "pending" => p[s] # "pending"
BY DEF Unstuck, Status

\* CoderAssumption, constant by constant.
LEMMA Limits ==
  /\ Last \in Nat \ {0} /\ MAX_SUBTASK_RETRIES \in Nat \ {0} /\ MaxPlanningFailures \in Nat \ {0}
  /\ MAX_CONCURRENCY_RETRIES \in Nat /\ MaxRuns \in Nat /\ MaxResets \in Nat
  /\ MaxPauses \in Nat /\ MaxAgings \in Nat
BY CoderAssumption

LEMMA DirectoryTyped == DirectoryOK => Directory \in SpecDirectory
BY DEF DirectoryOK, Directory, SpecDirectory

LEMMA TypeInit == Init => TypeOK
<1> SUFFICES ASSUME Init PROVE TypeOK
  OBVIOUS
<1>1. ProcessOK
  <2>1. is_planning_phase \in BOOLEAN BY DEF Init
  <2>2. stage = "idle" /\ cur = 0 /\ result = "none" /\ failures = 0 /\ conc = 0 BY DEF Init
  <2>. QED BY <2>1, <2>2, Limits DEF ProcessOK, Stage
<1>2. Directory \in SpecDirectory BY DEF Init, Directory, SpecDirectory, Status
<1>3. DirectoryOK BY <1>2 DEF Init, DirectoryOK, Status
<1>4. BoundsOK BY Limits DEF Init, BoundsOK
<1>. QED BY <1>1, <1>3, <1>4 DEF TypeOK

\* The session has a subtask.
LEMMA CurTyped == ProcessOK /\ stage \in {"session", "judging"} => cur \in Subtasks
BY DEF ProcessOK, Subtasks

\* Nothing of a process is left when it is gone.
LEMMA LeavesTyped == Leaves => ProcessOK'
<1> SUFFICES ASSUME Leaves PROVE ProcessOK'
  OBVIOUS
<1>1. is_planning_phase' \in BOOLEAN BY DEF Leaves
<1>2. stage' = "idle" /\ cur' = 0 /\ result' = "none" /\ failures' = 0 /\ conc' = 0 BY DEF Leaves
<1>. QED BY <1>1, <1>2, Limits DEF ProcessOK, Stage

LEMMA ProcessStep == ProcessOK /\ [Next]_vars => ProcessOK'
<1> SUFFICES ASSUME ProcessOK, [Next]_vars PROVE ProcessOK'
  OBVIOUS
<1>. USE Limits DEF ProcessOK, Stage, To, Pauses
<1>1. CASE Start
  <2>1. stage' \in {"picking", "planning"} /\ is_planning_phase' \in BOOLEAN BY <1>1 DEF Start
  <2>2. UNCHANGED <<cur, result, failures, conc>> /\ cur = 0 BY <1>1 DEF Start
  <2>. QED BY <2>1, <2>2
<1>2. CASE Killed BY <1>2, LeavesTyped DEF Killed
<1>3. CASE PlannerWrites BY <1>3 DEF PlannerWrites, session
<1>4. CASE AgentMarks BY <1>4 DEF AgentMarks, session
<1>5. CASE AttemptsAge BY <1>5 DEF AttemptsAge, session
<1>6. CASE PlanValid BY <1>6 DEF PlanValid
<1>7. CASE PlanInvalid BY <1>7, LeavesTyped DEF PlanInvalid
<1>8. CASE PlannerErrs BY <1>8, LeavesTyped DEF PlannerErrs
<1>9. CASE Transition BY <1>9 DEF Transition
<1>10. CASE NothingToDo BY <1>10, LeavesTyped DEF NothingToDo
<1>11. CASE ValidationFails BY <1>11 DEF ValidationFails, session
<1>12. CASE SessionStarts BY <1>12 DEF SessionStarts, Picking, Subtasks
<1>13. CASE SessionEnds BY <1>13 DEF SessionEnds
<1>14. CASE GoesOn BY <1>14, LeavesTyped DEF GoesOn
<1>15. CASE ConcurrencyError BY <1>15, LeavesTyped DEF ConcurrencyError
<1>16. CASE RateLimited BY <1>16, LeavesTyped DEF RateLimited
<1>17. CASE Unauthenticated BY <1>17 DEF Unauthenticated
<1>18. CASE OtherError BY <1>18 DEF OtherError
<1>19. CASE WaitEnds BY <1>19 DEF WaitEnds
<1>20. CASE UNCHANGED vars BY <1>20 DEF vars, session
<1>. QED BY <1>1, <1>2, <1>3, <1>4, <1>5, <1>6, <1>7, <1>8, <1>9, <1>10, <1>11, <1>12, <1>13,
            <1>14, <1>15, <1>16, <1>17, <1>18, <1>19, <1>20 DEF Next, Process

LEMMA DirectoryStep == ProcessOK /\ DirectoryOK /\ [Next]_vars => DirectoryOK'
<1> SUFFICES ASSUME ProcessOK, DirectoryOK, [Next]_vars PROVE DirectoryOK'
  OBVIOUS
<1>. USE DEF DirectoryOK, file, memory
<1>0. Directory \in SpecDirectory BY DirectoryTyped
<1>1. CASE Start
  <2> DEFINE old == IF isolated THEN source ELSE Directory
  <2>1. old \in SpecDirectory BY <1>0
  <2>2. PICK p \in {old.plan, Unstuck(old.plan)} :
          /\ plan' = p /\ planned' = old.planned /\ outside' = old.outside
          /\ attempts' = old.attempts /\ stuck' = old.stuck
          /\ source' = IF isolated THEN [source EXCEPT !.plan = p] ELSE source
    BY <1>1 DEF Start
  <2>3. p \in [Subtasks -> Status] BY <2>1, <2>2, UnstuckTyped DEF SpecDirectory
  <2>4. source' \in SpecDirectory BY <2>2, <2>3 DEF SpecDirectory
  <2>5. UNCHANGED isolated BY <1>1 DEF Start
  <2>. QED BY <2>1, <2>2, <2>3, <2>4, <2>5 DEF SpecDirectory
<1>2. CASE Killed BY <1>2 DEF Killed
<1>3. CASE PlannerWrites BY <1>3 DEF PlannerWrites, Status
<1>4. CASE AgentMarks BY <1>4 DEF AgentMarks
<1>5. CASE AttemptsAge BY <1>5 DEF AttemptsAge, SpecDirectory
<1>6. CASE PlanValid BY <1>0, <1>6 DEF PlanValid, Syncs
<1>7. CASE PlanInvalid BY <1>7 DEF PlanInvalid
<1>8. CASE PlannerErrs BY <1>8 DEF PlannerErrs
<1>9. CASE Transition BY <1>0, <1>9 DEF Transition, Syncs
<1>10. CASE NothingToDo BY <1>10 DEF NothingToDo
<1>11. CASE ValidationFails BY <1>11 DEF ValidationFails, record_attempt
<1>12. CASE SessionStarts BY <1>12 DEF SessionStarts
<1>13. CASE SessionEnds
  <2>0. cur \in Subtasks BY <1>13 DEF SessionEnds, ProcessOK, Subtasks
  <2>1. plan' \in [Subtasks -> Status] BY <1>13 DEF SessionEnds, Status
  <2>2. attempts' \in [Subtasks -> Nat] BY <1>13 DEF SessionEnds, ResetSubtask, Recover, record_attempt
  <2>3. stuck' \subseteq Subtasks BY <1>13, <2>0 DEF SessionEnds, ResetSubtask, Recover
  <2>4. source' \in SpecDirectory BY <1>0, <1>13 DEF SessionEnds, Syncs
  <2>. QED BY <1>13, <2>1, <2>2, <2>3, <2>4 DEF SessionEnds
<1>14. CASE GoesOn BY <1>14, CurTyped DEF GoesOn, MarkedIfExhausted
<1>15. CASE ConcurrencyError BY <1>15, CurTyped DEF ConcurrencyError, MarkedIfExhausted
<1>16. CASE RateLimited BY <1>16, CurTyped DEF RateLimited, MarkedIfExhausted
<1>17. CASE Unauthenticated BY <1>17, CurTyped DEF Unauthenticated, MarkedIfExhausted
<1>18. CASE OtherError BY <1>18, CurTyped DEF OtherError, MarkedIfExhausted
<1>19. CASE WaitEnds BY <1>19 DEF WaitEnds
<1>20. CASE UNCHANGED vars BY <1>20 DEF vars
<1>. QED BY <1>1, <1>2, <1>3, <1>4, <1>5, <1>6, <1>7, <1>8, <1>9, <1>10, <1>11, <1>12, <1>13,
            <1>14, <1>15, <1>16, <1>17, <1>18, <1>19, <1>20 DEF Next, Process

LEMMA BoundsStep == ProcessOK /\ BoundsOK /\ [Next]_vars => BoundsOK'
<1> SUFFICES ASSUME ProcessOK, BoundsOK, [Next]_vars PROVE BoundsOK'
  OBVIOUS
<1>. USE Limits DEF BoundsOK, bounds
<1>1. CASE Start BY <1>1 DEF Start
<1>2. CASE Killed BY <1>2 DEF Killed
<1>3. CASE PlannerWrites BY <1>3 DEF PlannerWrites
<1>4. CASE AgentMarks BY <1>4 DEF AgentMarks
<1>5. CASE AttemptsAge BY <1>5 DEF AttemptsAge
<1>6. CASE PlanValid BY <1>6 DEF PlanValid
<1>7. CASE PlanInvalid BY <1>7 DEF PlanInvalid
<1>8. CASE PlannerErrs BY <1>8 DEF PlannerErrs, Pauses
<1>9. CASE Transition BY <1>9 DEF Transition
<1>10. CASE NothingToDo BY <1>10 DEF NothingToDo
<1>11. CASE ValidationFails BY <1>11 DEF ValidationFails
<1>12. CASE SessionStarts BY <1>12 DEF SessionStarts
<1>13. CASE SessionEnds
  <2>1. resets' \in [Subtasks -> 0..MaxResets] BY <1>13, CurTyped DEF SessionEnds, ResetSubtask, Recover
  <2>. QED BY <1>13, <2>1 DEF SessionEnds
<1>14. CASE GoesOn BY <1>14 DEF GoesOn
<1>15. CASE ConcurrencyError BY <1>15 DEF ConcurrencyError
<1>16. CASE RateLimited BY <1>16 DEF RateLimited, Pauses
<1>17. CASE Unauthenticated BY <1>17 DEF Unauthenticated, Pauses
<1>18. CASE OtherError BY <1>18 DEF OtherError
<1>19. CASE WaitEnds BY <1>19 DEF WaitEnds
<1>20. CASE UNCHANGED vars BY <1>20 DEF vars
<1>. QED BY <1>1, <1>2, <1>3, <1>4, <1>5, <1>6, <1>7, <1>8, <1>9, <1>10, <1>11, <1>12, <1>13,
            <1>14, <1>15, <1>16, <1>17, <1>18, <1>19, <1>20 DEF Next, Process

LEMMA TypeStep == TypeOK /\ [Next]_vars => TypeOK'
BY ProcessStep, DirectoryStep, BoundsStep DEF TypeOK

\* Every field of every variable keeps its type.
THEOREM CoderTyped == Spec => []TypeOK
BY TypeInit, TypeStep, PTL DEF Spec

------------------------------------------------------------------------------
(* The order of the plan.                                                  *)

\* The statuses are left alone, in both copies.
Quiet == /\ UNCHANGED <<isolated, planned, plan>>
         /\ source'.plan = source.plan /\ source'.planned = source.planned

LEMMA QuietSteps ==
  TypeOK /\ [Next]_vars =>
    Quiet \/ Start \/ PlannerWrites \/ AgentMarks \/ PlanValid \/ Transition \/ SessionEnds
<1> SUFFICES ASSUME TypeOK, [Next]_vars,
                    ~Start, ~PlannerWrites, ~AgentMarks, ~PlanValid, ~Transition, ~SessionEnds
             PROVE  Quiet
  OBVIOUS
<1>. USE DEF Quiet, file
<1>1. CASE Killed BY <1>1 DEF Killed
<1>2. CASE AttemptsAge BY <1>2 DEF AttemptsAge, TypeOK, DirectoryOK, SpecDirectory
<1>3. CASE PlanInvalid BY <1>3 DEF PlanInvalid
<1>4. CASE PlannerErrs BY <1>4 DEF PlannerErrs
<1>5. CASE NothingToDo BY <1>5 DEF NothingToDo
<1>6. CASE ValidationFails BY <1>6 DEF ValidationFails
<1>7. CASE SessionStarts BY <1>7 DEF SessionStarts
<1>8. CASE GoesOn BY <1>8 DEF GoesOn
<1>9. CASE ConcurrencyError BY <1>9 DEF ConcurrencyError
<1>10. CASE RateLimited BY <1>10 DEF RateLimited
<1>11. CASE Unauthenticated BY <1>11 DEF Unauthenticated
<1>12. CASE OtherError BY <1>12 DEF OtherError
<1>13. CASE WaitEnds BY <1>13 DEF WaitEnds
<1>14. CASE UNCHANGED vars BY <1>14 DEF vars
<1>. QED BY <1>1, <1>2, <1>3, <1>4, <1>5, <1>6, <1>7, <1>8, <1>9, <1>10, <1>11, <1>12, <1>13,
            <1>14 DEF Next, Process

\* What a start restores.
LEMMA Restored ==
  ASSUME TypeOK, Start
  PROVE  \E old \in SpecDirectory :
           /\ old = IF isolated THEN source ELSE Directory
           /\ \E p \in {old.plan, Unstuck(old.plan)} :
                /\ p \in [Subtasks -> Status]
                /\ plan' = p /\ planned' = old.planned /\ outside' = old.outside
                /\ attempts' = old.attempts /\ stuck' = old.stuck
                /\ source' = IF isolated THEN [source EXCEPT !.plan = p] ELSE source
                /\ stage' = IF old.planned THEN "picking" ELSE "planning"
<1> DEFINE old == IF isolated THEN source ELSE Directory
<1>1. old \in SpecDirectory BY DirectoryTyped DEF TypeOK, DirectoryOK
<1>2. PICK p \in {old.plan, Unstuck(old.plan)} :
        /\ plan' = p /\ planned' = old.planned /\ outside' = old.outside
        /\ attempts' = old.attempts /\ stuck' = old.stuck
        /\ source' = IF isolated THEN [source EXCEPT !.plan = p] ELSE source
        /\ stage' = IF old.planned THEN "picking" ELSE "planning"
  BY DEF Start
<1>3. p \in [Subtasks -> Status] BY <1>1, <1>2, UnstuckTyped DEF SpecDirectory
<1>. QED BY <1>1, <1>2, <1>3

\* A reset of stuck subtasks keeps the order.
LEMMA UnstuckOrdered ==
  ASSUME NEW p \in [Subtasks -> Status], Ordered(p)
  PROVE  Ordered(Unstuck(p))
BY UnstuckTyped DEF Ordered

LEMMA OrderStep ==
  ASSUME TypeOK, Ordered(plan), Ordered(source.plan), SessionIsDue, [Next]_vars
  PROVE  Ordered(plan') /\ Ordered(source'.plan)
<1>1. CASE Quiet BY <1>1 DEF Quiet
<1>2. CASE Start
  <2>1. PICK old \in SpecDirectory, p \in [Subtasks -> Status] :
          /\ old = IF isolated THEN source ELSE Directory
          /\ p \in {old.plan, Unstuck(old.plan)} /\ plan' = p
          /\ source' = IF isolated THEN [source EXCEPT !.plan = p] ELSE source
    BY <1>2, Restored
  <2>2. Ordered(old.plan) BY <2>1 DEF Directory
  <2>3. Ordered(p) BY <2>1, <2>2, UnstuckOrdered DEF SpecDirectory
  <2>4. source' \in SpecDirectory /\ source'.plan \in {p, source.plan} BY <2>1 DEF TypeOK, DirectoryOK, SpecDirectory
  <2>. QED BY <2>1, <2>3, <2>4
<1>3. CASE PlannerWrites BY <1>3 DEF PlannerWrites, Ordered
<1>4. CASE AgentMarks
  <2>1. PICK status \in Status : plan' = [plan EXCEPT ![cur] = status] BY <1>4 DEF AgentMarks
  <2>2. cur \in Subtasks /\ stage = "session" /\ UNCHANGED source BY <1>4, CurTyped DEF AgentMarks, TypeOK
  <2>. QED BY <2>1, <2>2 DEF Ordered, SessionIsDue, TypeOK, DirectoryOK
<1>5. CASE PlanValid \/ Transition BY <1>5 DEF PlanValid, Transition, Syncs, Directory, file
<1>6. CASE SessionEnds
  <2>1. source'.plan \in {plan, source.plan} BY <1>6 DEF SessionEnds, Syncs, Directory
  <2>2. plan' = plan \/ plan' = [plan EXCEPT ![cur] = "pending"] BY <1>6 DEF SessionEnds
  <2>3. cur \in Subtasks /\ stage = "session" BY <1>6, CurTyped DEF SessionEnds, TypeOK
  <2>. QED BY <2>1, <2>2, <2>3 DEF Ordered, SessionIsDue, TypeOK, DirectoryOK, Status
<1>. QED BY <1>1, <1>2, <1>3, <1>4, <1>5, <1>6, QuietSteps

\* A session begins, goes on, or is not there.
LEMMA SessionMoves ==
  TypeOK /\ [Next]_vars /\ stage' = "session" =>
    SessionStarts \/ AgentMarks \/ (stage = "session" /\ UNCHANGED <<cur, stuck, planned, plan, attempts>>)
    \/ AttemptsAge
<1> SUFFICES ASSUME TypeOK, [Next]_vars, stage' = "session", ~SessionStarts, ~AgentMarks, ~AttemptsAge
             PROVE  stage = "session" /\ UNCHANGED <<cur, stuck, planned, plan, attempts>>
  OBVIOUS
<1>. USE DEF To, Leaves, session
<1>1. CASE Start BY <1>1 DEF Start
<1>2. CASE Killed BY <1>2 DEF Killed
<1>3. CASE PlannerWrites BY <1>3 DEF PlannerWrites
<1>4. CASE PlanValid BY <1>4 DEF PlanValid
<1>5. CASE PlanInvalid BY <1>5 DEF PlanInvalid
<1>6. CASE PlannerErrs BY <1>6 DEF PlannerErrs, Pauses
<1>7. CASE Transition BY <1>7 DEF Transition
<1>8. CASE NothingToDo BY <1>8 DEF NothingToDo
<1>9. CASE ValidationFails BY <1>9 DEF ValidationFails, Picking
<1>10. CASE SessionEnds BY <1>10 DEF SessionEnds
<1>11. CASE GoesOn BY <1>11 DEF GoesOn
<1>12. CASE ConcurrencyError BY <1>12 DEF ConcurrencyError
<1>13. CASE RateLimited BY <1>13 DEF RateLimited, Pauses
<1>14. CASE Unauthenticated BY <1>14 DEF Unauthenticated, Pauses
<1>15. CASE OtherError BY <1>15 DEF OtherError
<1>16. CASE WaitEnds BY <1>16 DEF WaitEnds
<1>17. CASE UNCHANGED vars BY <1>17 DEF vars, file, memory
<1>. QED BY <1>1, <1>2, <1>3, <1>4, <1>5, <1>6, <1>7, <1>8, <1>9, <1>10, <1>11, <1>12, <1>13,
            <1>14, <1>15, <1>16, <1>17 DEF Next, Process

LEMMA DueStep ==
  ASSUME TypeOK, Ordered(plan), SessionIsDue, [Next]_vars
  PROVE  SessionIsDue'
<1> SUFFICES ASSUME stage' = "session" PROVE SessionIsDue'
  BY DEF SessionIsDue
<1>1. CASE SessionStarts
  <2>1. PICK s \in Subtasks \ outside : IsNext(s) /\ cur' = s BY <1>1 DEF SessionStarts
  <2>2. UNCHANGED <<plan, stuck, planned>> BY <1>1 DEF SessionStarts, file, memory
  <2>3. /\ planned /\ plan[s] = "pending" /\ s \notin stuck
        /\ \A p \in DependsOn[PhaseOf[s]] : PhaseComplete(p)
    BY <2>1 DEF IsNext, Available
  <2>4. \A t \in Subtasks : PhaseOf[t] \in DependsOn[PhaseOf[s]] => t # s /\ plan[t] = "completed"
    BY <2>3 DEF PhaseComplete
  <2>5. \A t \in Subtasks : PhaseOf[s] \in DependsOn[PhaseOf[t]] => t # s /\ plan[t] = "pending"
    BY <2>3, <2>4 DEF Ordered
  <2>. QED BY <2>1, <2>2, <2>3, <2>4, <2>5 DEF SessionIsDue
<1>2. CASE AgentMarks
  <2>1. PICK status \in Status : plan' = [plan EXCEPT ![cur] = status] BY <1>2 DEF AgentMarks
  <2>2. stage = "session" /\ UNCHANGED <<cur, stuck, planned>> BY <1>2 DEF AgentMarks, session, memory
  <2>. QED BY <2>1, <2>2 DEF SessionIsDue, TypeOK, DirectoryOK
<1>3. CASE AttemptsAge
  BY <1>3 DEF AttemptsAge, session, file, SessionIsDue
<1>4. CASE stage = "session" /\ UNCHANGED <<cur, stuck, planned, plan, attempts>>
  BY <1>4 DEF SessionIsDue
<1>. QED BY <1>1, <1>2, <1>3, <1>4, SessionMoves

\* A planner is at work.
LEMMA PlanningMoves ==
  TypeOK /\ [Next]_vars /\ stage' = "planning" => Start \/ PlannerWrites \/ (stage = "planning" /\ UNCHANGED plan)
<1> SUFFICES ASSUME TypeOK, [Next]_vars, stage' = "planning", ~Start, ~PlannerWrites
             PROVE  stage = "planning" /\ UNCHANGED plan
  OBVIOUS
<1>. USE DEF To, Leaves, session, file
<1>1. CASE Killed BY <1>1 DEF Killed
<1>2. CASE AgentMarks BY <1>2 DEF AgentMarks
<1>3. CASE AttemptsAge BY <1>3 DEF AttemptsAge
<1>4. CASE PlanValid BY <1>4 DEF PlanValid
<1>5. CASE PlanInvalid BY <1>5 DEF PlanInvalid
<1>6. CASE PlannerErrs BY <1>6 DEF PlannerErrs, Pauses
<1>7. CASE Transition BY <1>7 DEF Transition
<1>8. CASE NothingToDo BY <1>8 DEF NothingToDo
<1>9. CASE ValidationFails BY <1>9 DEF ValidationFails, Picking
<1>10. CASE SessionStarts BY <1>10 DEF SessionStarts
<1>11. CASE SessionEnds BY <1>11 DEF SessionEnds
<1>12. CASE GoesOn BY <1>12 DEF GoesOn
<1>13. CASE ConcurrencyError BY <1>13 DEF ConcurrencyError
<1>14. CASE RateLimited BY <1>14 DEF RateLimited, Pauses
<1>15. CASE Unauthenticated BY <1>15 DEF Unauthenticated, Pauses
<1>16. CASE OtherError BY <1>16 DEF OtherError
<1>17. CASE WaitEnds BY <1>17 DEF WaitEnds
<1>18. CASE UNCHANGED vars BY <1>18 DEF vars
<1>. QED BY <1>1, <1>2, <1>3, <1>4, <1>5, <1>6, <1>7, <1>8, <1>9, <1>10, <1>11, <1>12, <1>13,
            <1>14, <1>15, <1>16, <1>17, <1>18 DEF Next, Process

LEMMA UntouchedStep ==
  ASSUME TypeOK, SessionIsDue, Untouched, [Next]_vars
  PROVE  Untouched'
<1>. USE DEF Untouched
<1>1. CASE Quiet
  <2>1. stage' = "planning" => (Start \/ PlannerWrites \/ stage = "planning") BY PlanningMoves
  <2>2. CASE ~Start /\ ~PlannerWrites BY <1>1, <2>1, <2>2 DEF Quiet
  <2>3. CASE Start
    <3>1. stage' = "planning" => ~planned'
      <4>1. PICK old \in SpecDirectory : /\ planned' = old.planned
                                         /\ stage' = IF old.planned THEN "picking" ELSE "planning"
        BY <2>3, Restored
      <4>. QED BY <4>1
    <3>. QED BY <1>1, <3>1 DEF Quiet
  <2>4. CASE PlannerWrites BY <2>4 DEF PlannerWrites
  <2>. QED BY <2>2, <2>3, <2>4
<1>2. CASE Start
  <2>1. PICK old \in SpecDirectory, p \in [Subtasks -> Status] :
          /\ old = IF isolated THEN source ELSE Directory
          /\ p \in {old.plan, Unstuck(old.plan)} /\ plan' = p /\ planned' = old.planned
          /\ source' = IF isolated THEN [source EXCEPT !.plan = p] ELSE source
          /\ stage' = IF old.planned THEN "picking" ELSE "planning"
    BY <1>2, Restored
  <2>2. ~old.planned => \A s \in Subtasks : p[s] = "pending"
    BY <2>1, UnstuckTyped DEF Directory, SpecDirectory
  <2>3. ~source'.planned => \A s \in Subtasks : source'.plan[s] = "pending"
    BY <2>1, <2>2 DEF TypeOK, DirectoryOK, SpecDirectory
  <2>. QED BY <2>1, <2>2, <2>3
<1>3. CASE PlannerWrites BY <1>3 DEF PlannerWrites
<1>4. CASE AgentMarks
  <2>1. stage' = "session" /\ planned' /\ UNCHANGED source BY <1>4 DEF AgentMarks, session, SessionIsDue
  <2>. QED BY <2>1
<1>5. CASE PlanValid \/ Transition
  <2>1. UNCHANGED <<planned, plan>> /\ stage' = "picking" BY <1>5 DEF PlanValid, Transition, To, file
  <2>2. source' \in {Directory, source} BY <1>5 DEF PlanValid, Transition, Syncs
  <2>. QED BY <2>1, <2>2 DEF Directory
<1>6. CASE SessionEnds
  <2>1. planned' /\ stage' = "judging" BY <1>6 DEF SessionEnds, SessionIsDue
  <2>2. source' \in {Directory, source} BY <1>6 DEF SessionEnds, Syncs
  <2>. QED BY <2>1, <2>2 DEF Directory
<1>. QED BY <1>1, <1>2, <1>3, <1>4, <1>5, <1>6, QuietSteps

------------------------------------------------------------------------------
(* The count of attempts.                                                  *)

\* Kills counts up when a process ends; a start hands it on.
LEMMA KillsGrow ==
  ASSUME TypeOK, Counted, [Next]_vars
  PROVE  /\ Kills \in Nat /\ Kills' \in Nat /\ Kills <= Kills'
         /\ stage' # "idle" => runs' >= 1
         /\ stage # "idle" /\ stage' = "idle" => Kills' = Kills + 1
<1>1. runs \in Nat /\ (stage # "idle" => runs >= 1) BY Limits DEF TypeOK, BoundsOK, Counted
<1>2. \/ stage = "idle" /\ stage' # "idle" /\ runs' = runs + 1
      \/ stage = "idle" /\ stage' = "idle" /\ runs' = runs
      \/ stage # "idle" /\ runs' = runs
  <2>1. CASE Start BY <2>1, Restored DEF Start
  <2>2. CASE Killed BY <2>2 DEF Killed, session, bounds
  <2>3. CASE PlannerWrites BY <2>3 DEF PlannerWrites, session, bounds
  <2>4. CASE AgentMarks BY <2>4 DEF AgentMarks, session, bounds
  <2>5. CASE AttemptsAge BY <2>5 DEF AttemptsAge, session, bounds
  <2>6. CASE PlanValid BY <2>6 DEF PlanValid, session, bounds
  <2>7. CASE PlanInvalid BY <2>7 DEF PlanInvalid, session, bounds
  <2>8. CASE PlannerErrs BY <2>8 DEF PlannerErrs
  <2>9. CASE Transition BY <2>9 DEF Transition, session, bounds
  <2>10. CASE NothingToDo BY <2>10 DEF NothingToDo, Picking, bounds
  <2>11. CASE ValidationFails BY <2>11 DEF ValidationFails, Picking, session, bounds
  <2>12. CASE SessionStarts BY <2>12 DEF SessionStarts, Picking, bounds
  <2>13. CASE SessionEnds BY <2>13 DEF SessionEnds, session, bounds
  <2>14. CASE GoesOn BY <2>14 DEF GoesOn, session, bounds
  <2>15. CASE ConcurrencyError BY <2>15 DEF ConcurrencyError, session, bounds
  <2>16. CASE RateLimited BY <2>16 DEF RateLimited, session, bounds
  <2>17. CASE Unauthenticated BY <2>17 DEF Unauthenticated, session, bounds
  <2>18. CASE OtherError BY <2>18 DEF OtherError, session, bounds
  <2>19. CASE WaitEnds BY <2>19 DEF WaitEnds, session, bounds
  <2>20. CASE UNCHANGED vars BY <2>20 DEF vars, session, bounds
  <2>. QED BY <2>1, <2>2, <2>3, <2>4, <2>5, <2>6, <2>7, <2>8, <2>9, <2>10, <2>11, <2>12, <2>13,
            <2>14, <2>15, <2>16, <2>17, <2>18, <2>19, <2>20 DEF Next, Process
<1>3. CASE stage = "idle" /\ stage' # "idle" /\ runs' = runs + 1 BY <1>1, <1>3 DEF Kills
<1>4. CASE stage = "idle" /\ stage' = "idle" /\ runs' = runs BY <1>1, <1>4 DEF Kills
<1>5. CASE stage # "idle" /\ runs' = runs BY <1>1, <1>5 DEF Kills
<1>. QED BY <1>2, <1>3, <1>4, <1>5

\* A count below its limit stays below it.
LEMMA Below ==
  /\ \A m, k, l, n \in Nat : k <= l /\ n < m + k => n < m + l
  /\ \A m \in Nat \ {0}, k \in Nat : 0 < m + k
OBVIOUS

\* The subtasks keep their counts as long as there are no more of them.
LEMMA CountsKept ==
  ASSUME TypeOK, Counted, [Next]_vars, stage # "judging",
         UNCHANGED <<plan, attempts, stuck, source>>,
         stage' \in {"session", "judging"} => UNCHANGED <<stage, cur>>
  PROVE  Counted'
<1>1. /\ Kills \in Nat /\ Kills' \in Nat /\ Kills <= Kills'
      /\ stage' # "idle" => runs' >= 1
  BY KillsGrow
<1>2. MAX_SUBTASK_RETRIES \in Nat /\ attempts \in [Subtasks -> Nat] /\ source.attempts \in [Subtasks -> Nat]
  BY Limits DEF TypeOK, DirectoryOK, SpecDirectory
<1>3. stage = "session" => cur \in Subtasks BY CurTyped DEF TypeOK
<1>4. \A s \in Subtasks : s \in stuck \/ plan[s] = "completed" \/ attempts[s] < MAX_SUBTASK_RETRIES + Kills
  BY DEF Counted
<1>5. \A s \in Subtasks : \/ s \in source.stuck \/ source.plan[s] = "completed"
                          \/ source.attempts[s] < MAX_SUBTASK_RETRIES + Kills
  BY DEF Counted
<1>6. \A s \in Subtasks : attempts[s] < MAX_SUBTASK_RETRIES + Kills => attempts[s] < MAX_SUBTASK_RETRIES + Kills'
  BY <1>1, <1>2
<1>7. \A s \in Subtasks : source.attempts[s] < MAX_SUBTASK_RETRIES + Kills
                          => source.attempts[s] < MAX_SUBTASK_RETRIES + Kills'
  BY <1>1, <1>2
<1>8. stage' = "session" => attempts[cur] < MAX_SUBTASK_RETRIES + Kills' /\ cur' = cur
  BY <1>3, <1>6 DEF Counted
<1>9. stage' # "judging" OBVIOUS
<1>. QED BY <1>1, <1>4, <1>5, <1>6, <1>7, <1>8, <1>9 DEF Counted

\* After a session its subtask was counted, and is marked when it must be.
LEMMA JudgedCounts ==
  ASSUME TypeOK, Counted, [Next]_vars, stage = "judging", stage' \notin {"session", "judging"},
         UNCHANGED <<plan, attempts, source>>, stuck \subseteq stuck',
         \/ cur \in stuck' \/ plan[cur] = "completed" \/ stage' = "idle"
         \/ attempts[cur] < MAX_SUBTASK_RETRIES
  PROVE  Counted'
<1>1. /\ Kills \in Nat /\ Kills' \in Nat /\ Kills <= Kills'
      /\ stage' # "idle" => runs' >= 1
      /\ stage' = "idle" => Kills' = Kills + 1
  BY KillsGrow
<1>2. MAX_SUBTASK_RETRIES \in Nat /\ attempts \in [Subtasks -> Nat] /\ source.attempts \in [Subtasks -> Nat]
  BY Limits DEF TypeOK, DirectoryOK, SpecDirectory
<1>3. cur \in Subtasks BY CurTyped DEF TypeOK
<1>4. \A s \in Subtasks : \/ cur = s \/ s \in stuck \/ plan[s] = "completed"
                          \/ attempts[s] < MAX_SUBTASK_RETRIES + Kills
  BY DEF Counted
<1>5. \A s \in Subtasks : \/ s \in source.stuck \/ source.plan[s] = "completed"
                          \/ source.attempts[s] < MAX_SUBTASK_RETRIES + Kills
  BY DEF Counted
<1>6. \A s \in Subtasks : attempts[s] < MAX_SUBTASK_RETRIES + Kills => attempts[s] < MAX_SUBTASK_RETRIES + Kills'
  BY <1>1, <1>2
<1>7. \A s \in Subtasks : source.attempts[s] < MAX_SUBTASK_RETRIES + Kills
                          => source.attempts[s] < MAX_SUBTASK_RETRIES + Kills'
  BY <1>1, <1>2
<1>8. cur \in stuck' \/ plan[cur] = "completed" \/ attempts[cur] < MAX_SUBTASK_RETRIES + Kills'
  <2>1. CASE stage' = "idle"
    <3>1. cur \in stuck \/ plan[cur] = "completed" \/ attempts[cur] <= MAX_SUBTASK_RETRIES + Kills BY DEF Counted
    <3>. QED BY <1>1, <1>2, <1>3, <2>1, <3>1
  <2>2. CASE attempts[cur] < MAX_SUBTASK_RETRIES BY <1>1, <1>2, <1>3, <2>2
  <2>. QED BY <2>1, <2>2
<1>. QED BY <1>1, <1>4, <1>5, <1>6, <1>7, <1>8 DEF Counted

LEMMA Marked ==
  ASSUME TypeOK, MarkedIfExhausted, stage = "judging"
  PROVE  /\ stuck \subseteq stuck'
         /\ cur \in stuck' \/ plan[cur] = "completed" \/ attempts[cur] < MAX_SUBTASK_RETRIES
<1>1. attempts[cur] \in Nat /\ MAX_SUBTASK_RETRIES \in Nat BY Limits, CurTyped DEF TypeOK, DirectoryOK
<1>. QED BY <1>1 DEF MarkedIfExhausted

\* A start takes the counts of the copy it restores.
LEMMA StartCounts == ASSUME TypeOK, Counted, Start PROVE Counted'
<1>0. [Next]_vars BY DEF Next
<1>1. /\ Kills \in Nat /\ Kills' \in Nat /\ Kills <= Kills'
      /\ stage' # "idle" => runs' >= 1
  BY <1>0, KillsGrow
<1>2. PICK old \in SpecDirectory, p \in [Subtasks -> Status] :
        /\ old = IF isolated THEN source ELSE Directory
        /\ p \in {old.plan, Unstuck(old.plan)} /\ plan' = p
        /\ attempts' = old.attempts /\ stuck' = old.stuck
        /\ source' = IF isolated THEN [source EXCEPT !.plan = p] ELSE source
        /\ stage' = IF old.planned THEN "picking" ELSE "planning"
  BY Restored
<1>3. MAX_SUBTASK_RETRIES \in Nat /\ source \in SpecDirectory /\ stage = "idle"
  BY Limits DEF TypeOK, DirectoryOK, Start
<1>4. \A s \in Subtasks : \/ s \in old.stuck \/ old.plan[s] = "completed"
                          \/ old.attempts[s] < MAX_SUBTASK_RETRIES + Kills
  BY <1>2, <1>3 DEF Counted, Directory
<1>5. \A s \in Subtasks : p[s] = "completed" <=> old.plan[s] = "completed"
  BY <1>2, UnstuckTyped DEF SpecDirectory
<1>6. \A s \in Subtasks : old.attempts[s] < MAX_SUBTASK_RETRIES + Kills => old.attempts[s] < MAX_SUBTASK_RETRIES + Kills'
  BY <1>1, <1>2, <1>3 DEF SpecDirectory
<1>7. \A s \in Subtasks : \/ s \in stuck' \/ plan'[s] = "completed"
                          \/ attempts'[s] < MAX_SUBTASK_RETRIES + Kills'
  BY <1>2, <1>4, <1>5, <1>6
<1>8. \A s \in Subtasks : source.attempts[s] < MAX_SUBTASK_RETRIES + Kills
                          => source.attempts[s] < MAX_SUBTASK_RETRIES + Kills'
  BY <1>1, <1>3 DEF SpecDirectory
<1>9. \A s \in Subtasks : \/ s \in source'.stuck \/ source'.plan[s] = "completed"
                          \/ source'.attempts[s] < MAX_SUBTASK_RETRIES + Kills'
  <2>1. CASE isolated
    <3>1. source'.stuck = old.stuck /\ source'.plan = p /\ source'.attempts = old.attempts
      BY <1>2, <1>3, <2>1 DEF SpecDirectory
    <3>. QED BY <1>4, <1>5, <1>6, <3>1
  <2>2. CASE ~isolated BY <1>2, <1>8, <2>2 DEF Counted
  <2>. QED BY <2>1, <2>2
<1>10. stage' \notin {"session", "judging"} BY <1>2
<1>. QED BY <1>1, <1>7, <1>9, <1>10 DEF Counted

\* What the loop copies back has the same counts.
LEMMA SyncCounts ==
  ASSUME TypeOK, Counted, [Next]_vars, stage # "judging", Syncs
  PROVE  \A s \in Subtasks : \/ s \in source'.stuck \/ source'.plan[s] = "completed"
                             \/ source'.attempts[s] < MAX_SUBTASK_RETRIES + Kills'
<1>1. Kills \in Nat /\ Kills' \in Nat /\ Kills <= Kills' BY KillsGrow
<1>2. source' \in SpecDirectory /\ MAX_SUBTASK_RETRIES \in Nat
  BY DirectoryTyped, Limits DEF TypeOK, DirectoryOK, Syncs
<1>3. \A s \in Subtasks : \/ s \in source'.stuck \/ source'.plan[s] = "completed"
                          \/ source'.attempts[s] < MAX_SUBTASK_RETRIES + Kills
  BY DEF Syncs, Directory, Counted
<1>4. \A s \in Subtasks : source'.attempts[s] \in Nat BY <1>2 DEF SpecDirectory
<1>. QED BY <1>1, <1>2, <1>3, <1>4

LEMMA SessionCounts == ASSUME TypeOK, Counted, SessionEnds PROVE Counted'
<1>0. [Next]_vars BY DEF Next, Process
<1>1. /\ Kills \in Nat /\ Kills' = Kills /\ stage = "session" /\ stage' = "judging" /\ runs' >= 1
  BY <1>0, KillsGrow DEF SessionEnds, Kills
<1>2. /\ MAX_SUBTASK_RETRIES \in Nat /\ attempts \in [Subtasks -> Nat] /\ cur \in Subtasks /\ cur' = cur
  BY <1>1, Limits, CurTyped DEF TypeOK, DirectoryOK, SessionEnds
<1>3. attempts[cur] < MAX_SUBTASK_RETRIES + Kills BY <1>1 DEF Counted
<1>4. \/ attempts' = record_attempt(cur) /\ stuck \subseteq stuck'
      \/ attempts' = [attempts EXCEPT ![cur] = 0] /\ stuck' = stuck \ {cur}
  BY DEF SessionEnds, Recover, ResetSubtask
<1>5. attempts'[cur] <= MAX_SUBTASK_RETRIES + Kills BY <1>1, <1>2, <1>3, <1>4 DEF record_attempt
<1>6. \A s \in Subtasks \ {cur} : /\ attempts'[s] = attempts[s] /\ (s \in stuck => s \in stuck')
                                  /\ plan[s] = "completed" => plan'[s] = "completed"
  BY <1>2, <1>4 DEF record_attempt, SessionEnds, TypeOK, DirectoryOK
<1>7. \A s \in Subtasks : s \in stuck \/ plan[s] = "completed" \/ attempts[s] < MAX_SUBTASK_RETRIES + Kills
  BY <1>1 DEF Counted
<1>8. \A s \in Subtasks : \/ s = cur \/ s \in stuck' \/ plan'[s] = "completed"
                          \/ attempts'[s] < MAX_SUBTASK_RETRIES + Kills
  <2>1. SUFFICES ASSUME NEW s \in Subtasks, s # cur, s \notin stuck', plan'[s] # "completed"
                 PROVE  attempts'[s] < MAX_SUBTASK_RETRIES + Kills
    OBVIOUS
  <2>2. attempts'[s] = attempts[s] /\ s \notin stuck /\ plan[s] # "completed" BY <1>6, <2>1
  <2>. QED BY <1>7, <2>2
<1>9. \A s \in Subtasks : \/ s \in source'.stuck \/ source'.plan[s] = "completed"
                          \/ source'.attempts[s] < MAX_SUBTASK_RETRIES + Kills'
  BY <1>0, <1>1, SyncCounts DEF SessionEnds
<1>10. \A s \in Subtasks : \/ stage' = "judging" /\ cur' = s
                           \/ s \in stuck' \/ plan'[s] = "completed"
                           \/ attempts'[s] < MAX_SUBTASK_RETRIES + Kills'
  BY <1>1, <1>2, <1>8
<1>11. attempts'[cur'] <= MAX_SUBTASK_RETRIES + Kills' BY <1>1, <1>2, <1>5
<1>. QED BY <1>1, <1>9, <1>10, <1>11 DEF Counted

LEMMA CountedStep == ASSUME TypeOK, Untouched, Counted, [Next]_vars PROVE Counted'
<1>0. /\ Kills \in Nat /\ Kills' \in Nat /\ Kills <= Kills'
      /\ stage' # "idle" => runs' >= 1
  BY KillsGrow
<1>21. MAX_SUBTASK_RETRIES \in Nat \ {0} /\ attempts \in [Subtasks -> Nat]
  BY Limits DEF TypeOK, DirectoryOK
<1>22. \A s \in Subtasks : \/ stage = "judging" \/ s \in stuck \/ plan[s] = "completed"
                          \/ attempts[s] < MAX_SUBTASK_RETRIES + Kills
  BY DEF Counted
<1>23. \A n \in Nat : n < MAX_SUBTASK_RETRIES + Kills => n < MAX_SUBTASK_RETRIES + Kills'
  BY <1>0, <1>21, Below
<1>24. \A s \in Subtasks : \/ s \in source.stuck \/ source.plan[s] = "completed"
                          \/ source.attempts[s] < MAX_SUBTASK_RETRIES + Kills'
  <2>1. \A s \in Subtasks : source.attempts[s] \in Nat BY DEF TypeOK, DirectoryOK, SpecDirectory
  <2>. QED BY <1>23, <2>1 DEF Counted
<1>. USE DEF session, file, memory, To, Leaves
<1>1. CASE Start BY <1>1, StartCounts
<1>2. CASE Killed
  <2>1. CASE stage = "judging" BY <1>2, <2>1, JudgedCounts DEF Killed
  <2>2. CASE stage # "judging" BY <1>2, <2>2, CountsKept DEF Killed
  <2>. QED BY <2>1, <2>2
<1>3. CASE PlannerWrites
  <2>1. plan' = plan BY <1>3 DEF PlannerWrites, Untouched, TypeOK, DirectoryOK
  <2>. QED BY <1>3, <2>1, CountsKept DEF PlannerWrites
<1>4. CASE AgentMarks
  <2>1. stage = "session" /\ UNCHANGED <<stage, cur, attempts, stuck, source>> BY <1>4 DEF AgentMarks
  <2>2. cur \in Subtasks BY <2>1, CurTyped DEF TypeOK
  <2>3. attempts[cur] < MAX_SUBTASK_RETRIES + Kills' BY <1>21, <1>23, <2>1, <2>2 DEF Counted
  <2>4. \A s \in Subtasks \ {cur} : plan'[s] = plan[s] BY <1>4 DEF AgentMarks, TypeOK, DirectoryOK
  <2>5. \A s \in Subtasks : \/ s \in stuck \/ plan'[s] = "completed"
                            \/ attempts[s] < MAX_SUBTASK_RETRIES + Kills'
    BY <1>21, <1>22, <1>23, <2>1, <2>3, <2>4
  <2>. QED BY <1>0, <1>24, <2>1, <2>3, <2>5 DEF Counted
<1>5. CASE AttemptsAge
  <2>1. attempts' = [s \in Subtasks |-> 0] /\ UNCHANGED <<stage, cur>> /\ stage # "judging" BY <1>5 DEF AttemptsAge
  <2>2. source'.attempts = attempts' BY <1>5 DEF AttemptsAge, TypeOK, DirectoryOK, SpecDirectory
  <2>3. \A s \in Subtasks : attempts'[s] < MAX_SUBTASK_RETRIES + Kills'
    <3>1. 0 < MAX_SUBTASK_RETRIES + Kills' BY <1>0, <1>21, Below
    <3>. QED BY <2>1, <3>1
  <2>4. stage = "session" => cur \in Subtasks BY CurTyped DEF TypeOK
  <2>. QED BY <1>0, <2>1, <2>2, <2>3, <2>4 DEF Counted
<1>6. CASE PlanValid \/ Transition
  <2>1. stage # "judging" /\ stage' = "picking" /\ Syncs /\ UNCHANGED <<plan, attempts, stuck>>
    BY <1>6 DEF PlanValid, Transition
  <2>2. \A s \in Subtasks : \/ s \in stuck \/ plan[s] = "completed"
                            \/ attempts[s] < MAX_SUBTASK_RETRIES + Kills'
    BY <1>21, <1>22, <1>23, <2>1
  <2>3. \A s \in Subtasks : \/ s \in source'.stuck \/ source'.plan[s] = "completed"
                            \/ source'.attempts[s] < MAX_SUBTASK_RETRIES + Kills'
    BY <2>1, SyncCounts
  <2>. QED BY <1>0, <2>1, <2>2, <2>3 DEF Counted
<1>7. CASE PlanInvalid BY <1>7, CountsKept DEF PlanInvalid
<1>8. CASE PlannerErrs BY <1>8, CountsKept DEF PlannerErrs, Pauses
<1>9. CASE NothingToDo BY <1>9, CountsKept DEF NothingToDo, Picking
<1>10. CASE ValidationFails
  <2>1. PICK s \in Subtasks :
          /\ attempts' = record_attempt(s)
          /\ stuck' = (IF attempts[s] + 1 >= MAX_SUBTASK_RETRIES THEN stuck \cup {s} ELSE stuck)
    BY <1>10 DEF ValidationFails, IsNext, Available
  <2>2. stage = "picking" /\ UNCHANGED <<stage, plan, source>> BY <1>10 DEF ValidationFails, Picking
  <2>3. s \in stuck' \/ attempts'[s] < MAX_SUBTASK_RETRIES + Kills' BY <1>0, <1>21, <2>1 DEF record_attempt
  <2>4. \A t \in Subtasks \ {s} : attempts'[t] = attempts[t] BY <1>21, <2>1 DEF record_attempt
  <2>5. \A t \in Subtasks : \/ t \in stuck' \/ plan[t] = "completed"
                            \/ attempts'[t] < MAX_SUBTASK_RETRIES + Kills'
    BY <1>21, <1>22, <1>23, <2>1, <2>2, <2>3, <2>4
  <2>. QED BY <1>0, <1>24, <2>2, <2>5 DEF Counted
<1>11. CASE SessionStarts
  <2>1. PICK s \in Subtasks : s \in Available /\ cur' = s BY <1>11 DEF SessionStarts, IsNext
  <2>2. stage = "picking" /\ stage' = "session" /\ UNCHANGED <<plan, attempts, stuck, source>>
    BY <1>11 DEF SessionStarts, Picking
  <2>3. s \notin stuck /\ plan[s] # "completed" BY <2>1 DEF Available
  <2>4. \A t \in Subtasks : \/ t \in stuck \/ plan[t] = "completed"
                            \/ attempts[t] < MAX_SUBTASK_RETRIES + Kills'
    BY <1>21, <1>22, <1>23, <2>2
  <2>5. attempts[s] < MAX_SUBTASK_RETRIES + Kills' BY <2>3, <2>4
  <2>. QED BY <1>0, <1>24, <2>1, <2>2, <2>4, <2>5 DEF Counted
<1>12. CASE SessionEnds BY <1>12, SessionCounts
<1>13. CASE GoesOn BY <1>13, JudgedCounts, Marked DEF GoesOn
<1>14. CASE ConcurrencyError
  <2>1. \/ MarkedIfExhausted \/ stuck' = stuck \cup {cur}
    BY <1>14 DEF ConcurrencyError
  <2>2. stage = "judging" /\ stage' \in {"idle", "picking"} /\ UNCHANGED <<plan, attempts, source>>
    BY <1>14 DEF ConcurrencyError
  <2>. QED BY <2>1, <2>2, JudgedCounts, Marked
<1>15. CASE RateLimited BY <1>15, JudgedCounts, Marked DEF RateLimited, Pauses
<1>16. CASE Unauthenticated BY <1>16, JudgedCounts, Marked DEF Unauthenticated, Pauses
<1>17. CASE OtherError BY <1>17, JudgedCounts, Marked DEF OtherError
<1>18. CASE WaitEnds BY <1>18, CountsKept DEF WaitEnds
<1>19. CASE UNCHANGED vars
  <2>1. UNCHANGED <<stage, cur, plan, attempts, stuck, source, runs>> BY <1>19 DEF vars, bounds
  <2>. QED BY <2>1 DEF Counted, Kills
<1>. QED BY <1>1, <1>2, <1>3, <1>4, <1>5, <1>6, <1>7, <1>8, <1>9, <1>10, <1>11, <1>12, <1>13,
            <1>14, <1>15, <1>16, <1>17, <1>18, <1>19 DEF Next, Process

------------------------------------------------------------------------------
(* What the project's copy lacks.                                          *)

\* A step that leaves both plans alone and begins no session.
LEMMA StillSaved ==
  ASSUME Saved, UNCHANGED <<isolated, plan>>, source'.plan = source.plan,
         stage' = "idle" \/ stage \notin {"session", "idle"} \/ UNCHANGED <<stage, cur>>
  PROVE  Saved'
<1>1. Unsaved' = Unsaved BY DEF Unsaved
<1>. QED BY <1>1 DEF Saved

LEMMA SavedStep == ASSUME TypeOK, Saved, [Next]_vars PROVE Saved'
<1>. USE StillSaved DEF session, file
<1>1. 1 \in Subtasks BY Limits DEF Subtasks
<1>2. CASE Start
  <2>1. SUFFICES ASSUME isolated PROVE Unsaved' = {}
    BY <1>1, <1>2 DEF Saved, Start
  <2>2. source'.plan = plan' BY <1>2, <2>1 DEF Start, TypeOK, DirectoryOK, SpecDirectory
  <2>. QED BY <2>2 DEF Unsaved
<1>3. CASE Killed BY <1>3 DEF Killed, Leaves
<1>4. CASE PlannerWrites
  <2>1. Unsaved' = {} /\ stage' = "planning" BY <1>4 DEF PlannerWrites, Unsaved
  <2>. QED BY <1>1, <2>1 DEF Saved
<1>5. CASE AgentMarks
  <2>1. \A s \in Subtasks \ {cur} : plan'[s] = plan[s] BY <1>5 DEF AgentMarks, TypeOK, DirectoryOK
  <2>2. stage = "session" /\ UNCHANGED <<isolated, stage, cur, source>> BY <1>5 DEF AgentMarks
  <2>3. cur \in Subtasks BY <2>2, CurTyped DEF TypeOK
  <2>4. isolated => Unsaved' \subseteq {cur} BY <2>1, <2>2 DEF Saved, Unsaved
  <2>. QED BY <2>2, <2>3, <2>4 DEF Saved
<1>6. CASE AttemptsAge
  <2>1. source'.plan = source.plan BY <1>6 DEF AttemptsAge, TypeOK, DirectoryOK, SpecDirectory
  <2>. QED BY <1>6, <2>1 DEF AttemptsAge
<1>7. CASE PlanValid \/ Transition
  <2>1. stage' = "picking" /\ Syncs /\ UNCHANGED <<isolated, plan>> BY <1>7 DEF PlanValid, Transition, To
  <2>2. isolated => Unsaved' = {} BY <2>1 DEF Syncs, Directory, Unsaved
  <2>. QED BY <1>1, <2>1, <2>2 DEF Saved
<1>8. CASE PlanInvalid BY <1>8 DEF PlanInvalid
<1>9. CASE PlannerErrs BY <1>9 DEF PlannerErrs
<1>10. CASE NothingToDo BY <1>10 DEF NothingToDo, Picking
<1>11. CASE ValidationFails BY <1>11 DEF ValidationFails, Picking
<1>12. CASE SessionStarts BY <1>12 DEF SessionStarts, Picking
<1>13. CASE SessionEnds
  <2>1. stage' = "judging" /\ Syncs /\ UNCHANGED isolated BY <1>13 DEF SessionEnds
  <2>2. \A s \in Subtasks : plan'[s] = "completed" => plan[s] = "completed"
    BY <1>13 DEF SessionEnds, TypeOK, DirectoryOK
  <2>3. isolated => Unsaved' = {} BY <2>1, <2>2 DEF Syncs, Directory, Unsaved
  <2>. QED BY <1>1, <2>1, <2>3 DEF Saved
<1>14. CASE GoesOn BY <1>14 DEF GoesOn
<1>15. CASE ConcurrencyError BY <1>15 DEF ConcurrencyError
<1>16. CASE RateLimited BY <1>16 DEF RateLimited
<1>17. CASE Unauthenticated BY <1>17 DEF Unauthenticated
<1>18. CASE OtherError BY <1>18 DEF OtherError
<1>19. CASE WaitEnds BY <1>19 DEF WaitEnds
<1>20. CASE UNCHANGED vars BY <1>20 DEF vars
<1>. QED BY <1>2, <1>3, <1>4, <1>5, <1>6, <1>7, <1>8, <1>9, <1>10, <1>11, <1>12, <1>13,
            <1>14, <1>15, <1>16, <1>17, <1>18, <1>19, <1>20 DEF Next, Process

------------------------------------------------------------------------------
(* The theorems.                                                           *)

LEMMA InvInit == Init => IInv
<1> SUFFICES ASSUME Init PROVE IInv
  OBVIOUS
<1>1. /\ stage = "idle" /\ plan = [s \in Subtasks |-> "pending"] /\ runs = 0
      /\ attempts = [s \in Subtasks |-> 0] /\ source = Directory
  BY DEF Init
<1>2. source.plan = plan /\ source.attempts = attempts BY <1>1 DEF Directory
<1>3. Ordered(plan) /\ Ordered(source.plan) BY <1>1, <1>2 DEF Ordered
<1>4. SessionIsDue /\ Untouched BY <1>1, <1>2 DEF SessionIsDue, Untouched
<1>5. Counted
  <2>1. 0 < MAX_SUBTASK_RETRIES + Kills
    <3>1. Kills = 0 BY <1>1 DEF Kills
    <3>. QED BY <3>1, Limits
  <2>. QED BY <1>1, <1>2, <2>1 DEF Counted
<1>6. Saved
  <2>1. Unsaved = {} /\ 1 \in Subtasks BY <1>1, Limits DEF Unsaved, Subtasks
  <2>. QED BY <1>1, <2>1 DEF Saved
<1>. QED BY <1>3, <1>4, <1>5, <1>6, TypeInit DEF IInv

LEMMA InvStep == IInv /\ [Next]_vars => IInv'
<1> SUFFICES ASSUME IInv, [Next]_vars PROVE IInv'
  OBVIOUS
<1>1. TypeOK' BY TypeStep DEF IInv
<1>2. Ordered(plan)' /\ Ordered(source.plan)'
  <2>1. Ordered(plan') /\ Ordered(source'.plan) BY OrderStep DEF IInv
  <2>. QED BY <2>1 DEF Ordered
<1>3. SessionIsDue' /\ Untouched' BY DueStep, UntouchedStep DEF IInv
<1>4. Counted' /\ Saved' BY CountedStep, SavedStep DEF IInv
<1>. QED BY <1>1, <1>2, <1>3, <1>4 DEF IInv

LEMMA CoderInvariant == Spec => []IInv
BY InvInit, InvStep, PTL DEF Spec

\* No kill, reset or lost copy of the plan lets a subtask begin before what it
\* depends on is done: what a start restores was in order when it was copied.
THEOREM SubtasksInOrder == Spec => []InOrder
<1>1. IInv => InOrder BY DEF IInv, Ordered, InOrder
<1>. QED BY <1>1, CoderInvariant, PTL

\* The limit of attempts is passed only as often as processes were killed
\* between the two writes, in the copy the next start restores too.
THEOREM AttemptsLimited == Spec => []AttemptsBounded
<1>1. IInv => AttemptsBounded
  <2>1. SUFFICES ASSUME IInv, NEW s \in Subtasks \ stuck,
                        plan[s] # "completed", ~(stage = "judging" /\ cur = s)
                 PROVE  attempts[s] < MAX_SUBTASK_RETRIES + (IF stage = "idle" THEN runs ELSE runs - 1)
    BY DEF AttemptsBounded
  <2>2. attempts[s] < MAX_SUBTASK_RETRIES + Kills BY <2>1 DEF IInv, Counted
  <2>. QED BY <2>2 DEF Kills
<1>. QED BY <1>1, CoderInvariant, PTL

\* At most the work of one session is lost with a worktree's spec directory.
THEOREM OneSessionLost == Spec => []OneSessionBehind
<1>1. IInv => OneSessionBehind
  <2>1. SUFFICES ASSUME IInv, isolated PROVE Cardinality(Unsaved) <= 1
    BY DEF OneSessionBehind, Unsaved
  <2>2. PICK x \in Subtasks : Unsaved \subseteq {x} BY <2>1 DEF IInv, Saved
  <2>3. Unsaved = {} \/ Unsaved = {x} BY <2>2
  <2>4. Cardinality({}) = 0 BY FS_EmptySet
  <2>5. Cardinality({x}) = 1 BY FS_Singleton
  <2>. QED BY <2>3, <2>4, <2>5
<1>. QED BY <1>1, CoderInvariant, PTL

\* A retry resets the mark of its own subtask only, which had none; a mark is
\* lost only with a worktree's spec directory.
THEOREM StuckStays == Spec => StuckIsFinal
<1>1. IInv /\ [Next]_vars =>
        stuck \subseteq stuck' \/ (isolated /\ stage = "idle" /\ source.stuck \subseteq stuck')
  <2>0. SUFFICES ASSUME IInv, [Next]_vars
                 PROVE  stuck \subseteq stuck' \/ (isolated /\ stage = "idle" /\ source.stuck \subseteq stuck')
    OBVIOUS
  <2>. USE DEF memory
  <2>1. CASE Start
    <3>1. stage = "idle" /\ stuck' = (IF isolated THEN source ELSE Directory).stuck BY <2>1 DEF Start
    <3>. QED BY <3>1 DEF Directory
  <2>2. CASE SessionEnds
    <3>1. cur \notin stuck BY <2>0, <2>2 DEF IInv, SessionIsDue, SessionEnds
    <3>. QED BY <2>2, <3>1 DEF SessionEnds, Recover, ResetSubtask
  <2>3. CASE ValidationFails BY <2>3 DEF ValidationFails
  <2>4. CASE GoesOn BY <2>4 DEF GoesOn, MarkedIfExhausted
  <2>5. CASE ConcurrencyError BY <2>5 DEF ConcurrencyError, MarkedIfExhausted
  <2>6. CASE RateLimited BY <2>6 DEF RateLimited, MarkedIfExhausted
  <2>7. CASE Unauthenticated BY <2>7 DEF Unauthenticated, MarkedIfExhausted
  <2>8. CASE OtherError BY <2>8 DEF OtherError, MarkedIfExhausted
  <2>9. CASE Killed \/ PlannerWrites \/ AgentMarks \/ AttemptsAge
    BY <2>9 DEF Killed, PlannerWrites, AgentMarks, AttemptsAge
  <2>10. CASE PlanValid \/ PlanInvalid \/ PlannerErrs \/ Transition
    BY <2>10 DEF PlanValid, PlanInvalid, PlannerErrs, Transition
  <2>11. CASE NothingToDo \/ SessionStarts \/ WaitEnds BY <2>11 DEF NothingToDo, SessionStarts, WaitEnds
  <2>12. CASE UNCHANGED vars BY <2>12 DEF vars
  <2>. QED BY <2>0, <2>1, <2>2, <2>3, <2>4, <2>5, <2>6, <2>7, <2>8, <2>9, <2>10, <2>11, <2>12 DEF Next, Process
<1>. QED BY <1>1, CoderInvariant, PTL DEF Spec, StuckIsFinal

\* A planner that runs again finds nothing to overwrite, and a reset of stuck
\* subtasks leaves the completed ones alone.
THEOREM CompletedStays == Spec => CompletedKept
<1> DEFINE Kept == \A s \in Subtasks :
                     plan[s] = "completed" /\ plan'[s] # "completed" =>
                       \/ stage = "session" /\ cur = s
                       \/ stage = "idle" /\ isolated /\ source.plan[s] # "completed"
<1>1. IInv /\ [Next]_vars => Kept
  <2>0. SUFFICES ASSUME IInv, [Next]_vars PROVE Kept
    OBVIOUS
  <2>1. CASE Quiet BY <2>1 DEF Quiet
  <2>2. CASE Start
    <3>1. PICK old \in SpecDirectory, p \in [Subtasks -> Status] :
            /\ old = IF isolated THEN source ELSE Directory
            /\ p \in {old.plan, Unstuck(old.plan)} /\ plan' = p
      BY <2>0, <2>2, Restored DEF IInv
    <3>2. \A s \in Subtasks : p[s] = "completed" <=> old.plan[s] = "completed"
      BY <3>1, UnstuckTyped DEF SpecDirectory
    <3>3. stage = "idle" BY <2>2 DEF Start
    <3>. QED BY <3>1, <3>2, <3>3 DEF Directory
  <2>3. CASE PlannerWrites BY <2>0, <2>3 DEF PlannerWrites, IInv, Untouched
  <2>4. CASE AgentMarks BY <2>0, <2>4 DEF AgentMarks, IInv, TypeOK, DirectoryOK
  <2>5. CASE PlanValid \/ Transition BY <2>5 DEF PlanValid, Transition, file
  <2>6. CASE SessionEnds BY <2>0, <2>6 DEF SessionEnds, IInv, TypeOK, DirectoryOK
  <2>. QED BY <2>0, <2>1, <2>2, <2>3, <2>4, <2>5, <2>6, QuietSteps DEF IInv
<1>. QED BY <1>1, CoderInvariant, PTL DEF Spec, CompletedKept

------------------------------------------------------------------------------
(* What keeps a process going.                                             *)

\* The subtasks on which the process may still work.
Open == {s \in Subtasks \ stuck : plan[s] # "completed" \/ (stage = "session" /\ cur = s)}

\* The attempts it may still make at them: as many as AttemptsBounded allows.
AttemptsLeft ==
  {x \in Subtasks \X (1..(MAX_SUBTASK_RETRIES + Kills)) : x[1] \in Open /\ attempts[x[1]] < x[2]}

\* Where it is between two attempts.  The planner is called again after an invalid
\* plan and, as often as conc allows, after an error.
Position ==
  CASE stage = "planning" ->
         4 + (MaxPlanningFailures - failures) * (MAX_CONCURRENCY_RETRIES + 1) - conc
    [] stage = "judging" -> 4
    [] stage \in {"rate_wait", "auth_wait"} -> 3
    [] stage = "picking" -> IF is_planning_phase THEN 2 ELSE 1
    [] stage \in {"session", "idle"} -> 0

\* Each step of the process ends it, resets a subtask for a retry, uses up an
\* attempt or brings it nearer to the next one; and nothing beside the process gives
\* it back an attempt, but that the attempts leave the time window.
AttemptsRunOut ==
  [][stage # "idle" /\ stage' # "idle" /\ resets' = resets =>
       /\ Process => /\ AttemptsLeft' \subseteq AttemptsLeft
                     /\ AttemptsLeft' = AttemptsLeft => Position' < Position
       /\ agings' = agings => /\ AttemptsLeft' \subseteq AttemptsLeft
                              /\ AttemptsLeft' = AttemptsLeft => Position' <= Position]_vars

\* Fewer subtasks, with no fewer attempts behind them, leave no more attempts.
LEMMA LeftFalls ==
  ASSUME TypeOK, TypeOK', UNCHANGED Kills, Open' \subseteq Open,
         \A s \in Open' : attempts[s] <= attempts'[s]
  PROVE  AttemptsLeft' \subseteq AttemptsLeft
<1>1. SUFFICES ASSUME NEW s \in Subtasks, NEW k \in 1..(MAX_SUBTASK_RETRIES + Kills),
                      s \in Open', attempts'[s] < k
               PROVE  s \in Open /\ attempts[s] < k
  BY DEF AttemptsLeft
<1>2. attempts[s] \in Nat /\ attempts'[s] \in Nat /\ attempts[s] <= attempts'[s]
  BY <1>1 DEF TypeOK, DirectoryOK
<1>3. k \in Int BY <1>1
<1>. QED BY <1>1, <1>2, <1>3

\* An attempt at an open subtask leaves one attempt less.
LEMMA LeftLess ==
  ASSUME TypeOK, TypeOK', NEW s \in Open, attempts[s] < MAX_SUBTASK_RETRIES + Kills, Kills \in Nat,
         s \notin Open' \/ attempts[s] < attempts'[s]
  PROVE  AttemptsLeft' # AttemptsLeft
<1>1. s \in Subtasks /\ attempts[s] \in Nat /\ attempts'[s] \in Nat
  BY DEF Open, TypeOK, DirectoryOK
<1>. DEFINE k == attempts[s] + 1
<1>2. k \in 1..(MAX_SUBTASK_RETRIES + Kills) /\ attempts[s] < k BY <1>1, Limits
<1>3. ~(s \in Open' /\ attempts'[s] < k) BY <1>1
<1>. HIDE DEF k
<1>4. <<s, k>> \in AttemptsLeft BY <1>1, <1>2 DEF AttemptsLeft
<1>5. <<s, k>> \notin AttemptsLeft' BY <1>3 DEF AttemptsLeft
<1>. QED BY <1>4, <1>5

\* Neither an invalid plan nor an error brings the planner back for ever.
LEMMA PlanningCounts ==
  ASSUME NEW a \in Nat, NEW n \in Nat \ {0}, NEW f \in 0..(a - 1), NEW c \in 0..(n - 1)
  PROVE  /\ (a - f) * n - c \in Nat \ {0}
         /\ f + 1 < a => (a - (f + 1)) * n - 0 < (a - f) * n - c
         /\ (a - f) * n - (c + 1) < (a - f) * n - c
<1>. DEFINE d == a - f
<1>1. d \in Nat \ {0} /\ a - (f + 1) = d - 1 OBVIOUS
<1>. HIDE DEF d
<1>2. \A x \in Nat \ {0} : x * n \in Nat /\ x * n >= n /\ (x - 1) * n = x * n - n
  <2>1. SUFFICES ASSUME NEW x \in Nat \ {0} PROVE x * n \in Nat /\ x * n >= n /\ (x - 1) * n = x * n - n
    OBVIOUS
  <2>2. x * n \in Nat /\ (x - 1) * n = x * n - n OBVIOUS
  <2>3. (x - 1) * n \in Nat
    <3>1. x - 1 \in Nat OBVIOUS
    <3>. QED BY <3>1
  <2>. QED BY <2>2, <2>3
<1>. DEFINE p == d * n
<1>3. p \in Nat /\ p >= n /\ (d - 1) * n = p - n BY <1>1, <1>2
<1>4. (a - f) * n = p /\ (a - (f + 1)) * n = p - n BY <1>1, <1>3 DEF d
<1>. HIDE DEF p
<1>. QED BY <1>3, <1>4

LEMMA PositionIs ==
  ASSUME ProcessOK
  PROVE  /\ Position \in Nat
         /\ stage = "planning" => Position > 4
         /\ stage = "judging" => Position = 4
         /\ stage \in {"rate_wait", "auth_wait"} => Position = 3
         /\ stage = "picking" => Position = IF is_planning_phase THEN 2 ELSE 1
         /\ stage = "session" => Position = 0
<1>. DEFINE q == (MaxPlanningFailures - failures) * (MAX_CONCURRENCY_RETRIES + 1) - conc
<1>1. q \in Nat \ {0}
  <2>1. /\ MAX_CONCURRENCY_RETRIES + 1 \in Nat \ {0}
        /\ conc \in 0..((MAX_CONCURRENCY_RETRIES + 1) - 1)
        /\ failures \in 0..(MaxPlanningFailures - 1) /\ MaxPlanningFailures \in Nat
    BY Limits DEF ProcessOK
  <2>. QED BY <2>1, PlanningCounts
<1>2. stage = "planning" => Position = 4 + q
  <2>1. CASE stage = "planning"
    <3>1. Position = 4 + (MaxPlanningFailures - failures) * (MAX_CONCURRENCY_RETRIES + 1) - conc
      BY <2>1 DEF Position
    <3>2. (MaxPlanningFailures - failures) * (MAX_CONCURRENCY_RETRIES + 1) \in Int /\ conc \in Int
      BY Limits DEF ProcessOK
    <3>. QED BY <3>1, <3>2
  <2>. QED BY <2>1
<1>. HIDE DEF q
<1>3. stage # "planning" => Position = CASE stage = "judging" -> 4
                                         [] stage \in {"rate_wait", "auth_wait"} -> 3
                                         [] stage = "picking" -> IF is_planning_phase THEN 2 ELSE 1
                                         [] stage \in {"session", "idle"} -> 0
  BY DEF Position, ProcessOK, Stage
<1>. QED BY <1>1, <1>2, <1>3 DEF ProcessOK, Stage

\* Steps that leave the plan and the attempts alone, and take no mark back.
LEMMA NothingDone ==
  ASSUME TypeOK, TypeOK', UNCHANGED <<plan, attempts, Kills>>, stuck \subseteq stuck',
         stage' # "session" \/ (stage = stage' /\ cur' = cur) \/ plan[cur'] # "completed"
  PROVE  AttemptsLeft' \subseteq AttemptsLeft
<1>1. Open' \subseteq Open BY DEF Open
<1>2. \A s \in Open' : attempts[s] <= attempts'[s] BY DEF Open, TypeOK, DirectoryOK
<1>. QED BY <1>1, <1>2, LeftFalls

\* The steps of a planner's session, and the waits.
LEMMA PlanningAdvances ==
  ASSUME TypeOK, TypeOK', UNCHANGED Kills, stage' # "idle",
         PlanValid \/ PlanInvalid \/ PlannerErrs \/ Transition \/ WaitEnds
  PROVE  AttemptsLeft' \subseteq AttemptsLeft /\ Position' < Position
<1>1. stage' # "session" /\ UNCHANGED <<plan, attempts, stuck>>
  BY DEF PlanValid, PlanInvalid, PlannerErrs, Transition, WaitEnds, To, Leaves, Pauses, file, memory
<1>2. AttemptsLeft' \subseteq AttemptsLeft BY <1>1, NothingDone
<1>3. /\ Position \in Nat
      /\ stage = "planning" => Position > 4
      /\ stage \in {"rate_wait", "auth_wait"} => Position = 3
      /\ stage = "picking" /\ is_planning_phase => Position = 2
  BY PositionIs DEF TypeOK
<1>4. /\ stage' \in {"rate_wait", "auth_wait"} => Position' = 3
      /\ stage' = "picking" /\ is_planning_phase' => Position' = 2
      /\ stage' = "picking" /\ ~is_planning_phase' => Position' = 1
  BY DEF Position
<1>5. CASE stage' \in {"rate_wait", "auth_wait", "picking"}
  <2>1. CASE stage = "planning" BY <1>2, <1>3, <1>4, <1>5, <2>1
  <2>2. CASE stage # "planning"
    <3>1. CASE Transition
      <4>1. stage = "picking" /\ is_planning_phase /\ ~is_planning_phase' /\ stage' = "picking"
        BY <3>1 DEF Transition
      <4>2. Position = 2 /\ Position' = 1 BY <1>3, <1>4, <4>1
      <4>. QED BY <1>2, <4>2
    <3>2. CASE WaitEnds
      <4>1. stage \in {"rate_wait", "auth_wait"} /\ stage' = "picking" BY <3>2 DEF WaitEnds, To
      <4>2. Position = 3 /\ (Position' = 2 \/ Position' = 1) BY <1>3, <1>4, <4>1
      <4>. QED BY <1>2, <4>2
    <3>. QED BY <2>2, <3>1, <3>2 DEF PlanValid, PlanInvalid, PlannerErrs
  <2>. QED BY <2>1, <2>2
<1>6. CASE stage' = "planning"
  <2>1. stage = "planning" /\ \/ failures' = failures + 1 /\ conc' = 0
                              \/ failures' = failures /\ conc' = conc + 1
    BY <1>6 DEF PlanValid, PlanInvalid, PlannerErrs, Transition, WaitEnds, To, Leaves, Pauses
  <2>. DEFINE n == MAX_CONCURRENCY_RETRIES + 1
              rest(f, c) == (MaxPlanningFailures - f) * n - c
  <2>2. /\ n \in Nat \ {0} /\ MaxPlanningFailures \in Nat
        /\ conc \in 0..(n - 1) /\ failures \in 0..(MaxPlanningFailures - 1)
        /\ conc' \in 0..(n - 1) /\ failures' \in 0..(MaxPlanningFailures - 1)
    BY Limits DEF TypeOK, ProcessOK
  <2>3. rest(failures, conc) \in Nat /\ rest(failures', conc') \in Nat BY <2>2, PlanningCounts
  <2>4. rest(failures', conc') < rest(failures, conc)
    <3>1. CASE failures' = failures + 1 /\ conc' = 0
      <4>1. failures + 1 < MaxPlanningFailures BY <2>2, <3>1
      <4>. QED BY <2>2, <3>1, <4>1, PlanningCounts
    <3>2. CASE failures' = failures /\ conc' = conc + 1 BY <2>2, <3>2, PlanningCounts
    <3>. QED BY <2>1, <3>1, <3>2
  <2>5. /\ Position = 4 + (MaxPlanningFailures - failures) * n - conc
        /\ Position' = 4 + (MaxPlanningFailures - failures') * n - conc'
    BY <1>6, <2>1 DEF Position
  <2>6. /\ (MaxPlanningFailures - failures) * n \in Int /\ conc \in Int
        /\ (MaxPlanningFailures - failures') * n \in Int /\ conc' \in Int
    BY <2>2
  <2>. HIDE DEF n
  <2>7. Position = 4 + rest(failures, conc) /\ Position' = 4 + rest(failures', conc')
    BY <2>5, <2>6
  <2>. HIDE DEF rest
  <2>8. Position' < Position BY <2>3, <2>4, <2>7
  <2>. QED BY <1>2, <2>8
<1>. QED BY <1>5, <1>6 DEF PlanValid, PlanInvalid, PlannerErrs, Transition, WaitEnds, To, Leaves, Pauses

\* An attempt without a session.
LEMMA ValidationAdvances ==
  ASSUME TypeOK, TypeOK', Counted, UNCHANGED Kills, Kills \in Nat, ValidationFails
  PROVE  AttemptsLeft' \subseteq AttemptsLeft /\ AttemptsLeft' # AttemptsLeft
<1>1. PICK s \in outside : /\ IsNext(s) /\ attempts' = record_attempt(s)
                           /\ stuck \subseteq stuck'
  BY DEF ValidationFails
<1>2. s \in Open /\ s \in Subtasks /\ stage = "picking" /\ stage' = "picking"
      /\ UNCHANGED <<plan, cur>>
  BY <1>1 DEF IsNext, Available, Open, ValidationFails, Picking, session, file
<1>3. attempts \in [Subtasks -> Nat] BY DEF TypeOK, DirectoryOK
<1>4. attempts[s] < MAX_SUBTASK_RETRIES + Kills BY <1>2 DEF Counted, Open
<1>5. attempts'[s] = attempts[s] + 1 /\ \A t \in Subtasks : attempts[t] <= attempts'[t]
  BY <1>1, <1>2, <1>3 DEF record_attempt
<1>6. attempts[s] < attempts'[s] BY <1>2, <1>3, <1>5
<1>7. Open' \subseteq Open BY <1>1, <1>2 DEF Open
<1>8. \A t \in Open' : attempts[t] <= attempts'[t] BY <1>5 DEF Open
<1>. QED BY <1>2, <1>4, <1>6, <1>7, <1>8, LeftFalls, LeftLess

\* A session that ends was an attempt, unless its subtask is reset for a retry.
LEMMA SessionAdvances ==
  ASSUME TypeOK, TypeOK', Counted, SessionIsDue, UNCHANGED Kills, Kills \in Nat, SessionEnds,
         resets' = resets
  PROVE  AttemptsLeft' \subseteq AttemptsLeft /\ AttemptsLeft' # AttemptsLeft
<1>1. /\ stage = "session" /\ stage' = "judging" /\ cur' = cur
      /\ cur \in Subtasks /\ cur \notin stuck /\ attempts[cur] < MAX_SUBTASK_RETRIES + Kills
  BY CurTyped DEF SessionEnds, SessionIsDue, Counted, TypeOK
<1>2. attempts \in [Subtasks -> Nat] /\ resets \in [Subtasks -> Nat]
  BY Limits DEF TypeOK, DirectoryOK, BoundsOK
<1>3. ~ResetSubtask(cur)
  <2>1. ASSUME ResetSubtask(cur) PROVE FALSE
    <3>1. resets'[cur] = resets[cur] + 1 BY <1>1, <1>2, <2>1 DEF ResetSubtask
    <3>2. resets[cur] \in Nat BY <1>1, <1>2
    <3>. QED BY <3>1, <3>2
  <2>. QED BY <2>1
<1>4. attempts' = record_attempt(cur) /\ stuck \subseteq stuck' /\ plan' = plan
  BY <1>3 DEF SessionEnds, Recover
<1>5. attempts'[cur] = attempts[cur] + 1 /\ \A t \in Subtasks : attempts[t] <= attempts'[t]
  BY <1>1, <1>2, <1>4 DEF record_attempt
<1>6. attempts[cur] < attempts'[cur] BY <1>1, <1>2, <1>5
<1>7. cur \in Open /\ Open' \subseteq Open BY <1>1, <1>4 DEF Open
<1>8. \A t \in Open' : attempts[t] <= attempts'[t] BY <1>5 DEF Open
<1>. QED BY <1>1, <1>6, <1>7, <1>8, LeftFalls, LeftLess

\* Back in the loop.
LEMMA JudgingAdvances ==
  ASSUME TypeOK, TypeOK', UNCHANGED Kills, stage' # "idle",
         GoesOn \/ ConcurrencyError \/ RateLimited \/ Unauthenticated \/ OtherError
  PROVE  AttemptsLeft' \subseteq AttemptsLeft /\ Position' < Position
<1>1. stage = "judging" /\ stage' \in {"picking", "rate_wait", "auth_wait"}
  BY DEF GoesOn, ConcurrencyError, RateLimited, Unauthenticated, OtherError, To, Leaves, Pauses
<1>2. UNCHANGED <<plan, attempts>>
  BY DEF GoesOn, ConcurrencyError, RateLimited, Unauthenticated, OtherError, file
<1>3. stuck \subseteq stuck'
  BY DEF GoesOn, ConcurrencyError, RateLimited, Unauthenticated, OtherError, MarkedIfExhausted
<1>4. AttemptsLeft' \subseteq AttemptsLeft BY <1>1, <1>2, <1>3, NothingDone
<1>5. Position = 4 /\ Position' \in {1, 2, 3} BY <1>1 DEF Position
<1>. QED BY <1>4, <1>5

\* A session begins on a subtask that is to be done.
LEMMA StartAdvances ==
  ASSUME TypeOK, TypeOK', UNCHANGED Kills, SessionStarts
  PROVE  AttemptsLeft' \subseteq AttemptsLeft /\ Position' < Position
<1>1. /\ stage = "picking" /\ ~is_planning_phase /\ stage' = "session"
      /\ UNCHANGED <<plan, attempts, stuck>> /\ plan[cur'] = "pending"
  BY DEF SessionStarts, Picking, file, memory, IsNext, Available
<1>2. AttemptsLeft' \subseteq AttemptsLeft BY <1>1, NothingDone
<1>3. Position = 1 /\ Position' = 0 BY <1>1 DEF Position
<1>. QED BY <1>2, <1>3

\* What happens beside the process.
LEMMA BesideStays ==
  ASSUME TypeOK, TypeOK', Untouched, UNCHANGED <<Kills, agings>>, stage # "idle", stage' # "idle",
         Start \/ Killed \/ PlannerWrites \/ AgentMarks \/ AttemptsAge \/ UNCHANGED vars
  PROVE  AttemptsLeft' \subseteq AttemptsLeft /\ Position' = Position
<1>1. ~Start /\ ~Killed BY DEF Start, Killed, Leaves
<1>2. ~AttemptsAge
  <2>1. agings \in Nat BY Limits DEF TypeOK, BoundsOK
  <2>. QED BY <2>1 DEF AttemptsAge
<1>3. UNCHANGED <<session, memory>>
  BY <1>1, <1>2 DEF PlannerWrites, AgentMarks, vars
<1>4. Position' = Position BY <1>3 DEF session, Position
<1>5. CASE PlannerWrites
  <2>1. \A s \in Subtasks : plan[s] = "pending" BY <1>5 DEF PlannerWrites, Untouched
  <2>2. Open' \subseteq Open /\ \A s \in Open' : attempts[s] <= attempts'[s]
    BY <1>3, <1>5, <2>1 DEF memory, Open, PlannerWrites, TypeOK, DirectoryOK
  <2>. QED BY <1>4, <2>2, LeftFalls
<1>6. CASE AgentMarks
  <2>1. stage = "session" /\ \A s \in Subtasks \ {cur} : plan'[s] = plan[s]
    BY <1>6 DEF AgentMarks, TypeOK, DirectoryOK
  <2>2. Open' \subseteq Open /\ \A s \in Open' : attempts[s] <= attempts'[s]
    BY <1>3, <2>1 DEF session, memory, Open, TypeOK, DirectoryOK
  <2>. QED BY <1>4, <2>2, LeftFalls
<1>7. CASE UNCHANGED vars
  <2>1. UNCHANGED <<plan, attempts, stuck, stage, cur>> BY <1>7 DEF vars, session, memory, file
  <2>2. AttemptsLeft' \subseteq AttemptsLeft BY <2>1, NothingDone
  <2>. QED BY <1>4, <2>2
<1>. QED BY <1>1, <1>2, <1>5, <1>6, <1>7

\* All that can keep a process in the loop for ever are resets by a retry, which
\* nothing counts, and attempts that leave the time window: neither pauses nor an
\* invalid plan nor any other error can.
THEOREM AttemptsOfAProcess == Spec => AttemptsRunOut
<1>1. IInv /\ IInv' /\ [Next]_vars =>
        (stage # "idle" /\ stage' # "idle" /\ resets' = resets =>
           /\ Process => /\ AttemptsLeft' \subseteq AttemptsLeft
                         /\ AttemptsLeft' = AttemptsLeft => Position' < Position
           /\ agings' = agings => /\ AttemptsLeft' \subseteq AttemptsLeft
                                  /\ AttemptsLeft' = AttemptsLeft => Position' <= Position)
  <2>1. SUFFICES ASSUME IInv, IInv', [Next]_vars, stage # "idle", stage' # "idle", resets' = resets
                 PROVE  /\ Process => /\ AttemptsLeft' \subseteq AttemptsLeft
                                      /\ AttemptsLeft' = AttemptsLeft => Position' < Position
                        /\ agings' = agings => /\ AttemptsLeft' \subseteq AttemptsLeft
                                               /\ AttemptsLeft' = AttemptsLeft => Position' <= Position
    OBVIOUS
  <2>2. TypeOK /\ TypeOK' /\ Untouched /\ Counted /\ SessionIsDue BY <2>1 DEF IInv
  <2>3. Position \in Nat
    BY <2>2, PositionIs DEF TypeOK
  <2>4. Position' \in Nat
    <3>1. CASE UNCHANGED session BY <2>3, <3>1 DEF session, Position
    <3>2. CASE stage' = "planning"
      <4>1. /\ MAX_CONCURRENCY_RETRIES + 1 \in Nat \ {0}
            /\ conc' \in 0..((MAX_CONCURRENCY_RETRIES + 1) - 1)
            /\ failures' \in 0..(MaxPlanningFailures - 1) /\ MaxPlanningFailures \in Nat
        BY <2>2, Limits DEF TypeOK, ProcessOK
      <4>2. \A x, c \in Int : x - c \in Nat => 4 + x - c \in Nat OBVIOUS
      <4>3. /\ (MaxPlanningFailures - failures') * (MAX_CONCURRENCY_RETRIES + 1) - conc' \in Nat
            /\ (MaxPlanningFailures - failures') * (MAX_CONCURRENCY_RETRIES + 1) \in Int
            /\ conc' \in Int
        BY <4>1, PlanningCounts
      <4>. QED BY <3>2, <4>2, <4>3 DEF Position
    <3>3. CASE stage' # "planning" BY <2>2, <3>3 DEF Position, TypeOK, ProcessOK, Stage
    <3>. QED BY <3>2, <3>3
  <2>5. Kills \in Nat /\ UNCHANGED Kills
    <3>1. Kills \in Nat BY <2>1, <2>2, KillsGrow
    <3>2. ~Start BY <2>1 DEF Start
    <3>3. runs' = runs
      BY <2>1, <3>2 DEF Next, Process, Killed, PlannerWrites, AgentMarks, AttemptsAge, PlanValid,
         PlanInvalid, PlannerErrs, Transition, NothingToDo, ValidationFails, SessionStarts,
         SessionEnds, GoesOn, ConcurrencyError, RateLimited, Unauthenticated, OtherError, WaitEnds,
         bounds, vars
    <3>. QED BY <2>1, <3>1, <3>3 DEF Kills
  <2>6. ASSUME Process
        PROVE  /\ AttemptsLeft' \subseteq AttemptsLeft
               /\ AttemptsLeft' = AttemptsLeft => Position' < Position
    <3>1. ~NothingToDo BY <2>1 DEF NothingToDo, Leaves
    <3>2. CASE PlanValid \/ PlanInvalid \/ PlannerErrs \/ Transition \/ WaitEnds
      BY <2>1, <2>2, <2>5, <3>2, PlanningAdvances
    <3>3. CASE ValidationFails BY <2>2, <2>5, <3>3, ValidationAdvances
    <3>4. CASE SessionStarts BY <2>2, <2>5, <3>4, StartAdvances
    <3>5. CASE SessionEnds BY <2>1, <2>2, <2>5, <3>5, SessionAdvances
    <3>6. CASE GoesOn \/ ConcurrencyError \/ RateLimited \/ Unauthenticated \/ OtherError
      BY <2>1, <2>2, <2>5, <3>6, JudgingAdvances
    <3>. QED BY <2>6, <3>1, <3>2, <3>3, <3>4, <3>5, <3>6 DEF Process
  <2>7. ASSUME ~Process, agings' = agings
        PROVE  AttemptsLeft' \subseteq AttemptsLeft /\ Position' = Position
    BY <2>1, <2>2, <2>5, <2>7, BesideStays DEF Next
  <2>. QED BY <2>3, <2>4, <2>6, <2>7
<1>. QED BY <1>1, CoderInvariant, PTL DEF Spec, AttemptsRunOut

==============================================================================
