-------------------------------- MODULE Board_proofs -------------------------
(***************************************************************************)
(* Proofs about what the board drives: its queue (TaskQueue) and the merge *)
(* of finished tasks (WorktreeMerge), which share no state.                *)
(***************************************************************************)
EXTENDS TaskQueue, WorktreeMerge, FiniteSetTheorems, WellFoundedInduction, TLAPS

(***************************************************************************)
(* The queue, for any tasks and any number of slots.                       *)
(*                                                                         *)
(* CapacityKept is not inductive: after a promotion failed, the next one   *)
(* is safe only because nothing else was on its way beside it.  OneAtATime *)
(* says so: as long as every check was made with no request open, a pass   *)
(* at work is the only one who asks.                                       *)
(***************************************************************************)

PassTyped ==
  /\ pass \in [busy : BOOLEAN, next : Tasks \cup {None}, attempted : SUBSET Tasks,
               failures : 0..(MAX_CONSECUTIVE_FAILURES - 1)]
  /\ pass.busy <=> pass.next \in Tasks

Others == starts \cup {m[1] : m \in {n \in moves : n[2] = "in_progress"}}

OneAtATime == ~oversold /\ pass.busy => Others = {}

QueuesTyped == queueing = NotQueueing \/ queueing \subseteq Tasks

QueueIInv ==
  /\ QueueTypeOK /\ PassTyped /\ QueuesTyped /\ oversold \in BOOLEAN
  /\ OneAtATime /\ CapacityKept /\ NoneForgotten

Running == In("in_progress", status)

------------------------------------------------------------------------------
(* Sets of tasks.                                                          *)

\* A set of tasks has a smallest member.
LEMMA MinIsMember ==
  ASSUME NEW S, S \subseteq Nat, S # {}
  PROVE  Min(S) \in S
<1> DEFINE smaller == {ss \in Nat \X Nat : ss[1] < ss[2]}
<1>1. IsWellFoundedOn(smaller, Nat)
  BY NatLessThanWellFounded, Zenon DEF OpToRel
<1>0. ASSUME NEW x \in Nat, NEW y \in Nat, y < x
      PROVE  <<y, x>> \in smaller
  <2>1. <<y, x>> \in Nat \X Nat /\ <<y, x>>[1] < <<y, x>>[2]
    BY <1>0
  <2> QED BY <2>1, Zenon
<1> HIDE DEF smaller
<1>2. \E x \in S : \A y \in S : ~ (<<y, x>> \in smaller)
  BY <1>1, WFMin, Zenon
<1>3. PICK x \in S : \A y \in S : ~ (<<y, x>> \in smaller)
  BY <1>2
<1>4. ASSUME NEW y \in S
      PROVE  x =< y
  <2>1. ~ (y < x)
    BY <1>0, <1>3
  <2> QED BY <2>1
<1> QED BY <1>4 DEF Min

\* Fewer tasks, and one task more in a free slot.
LEMMA Fewer ==
  ASSUME NEW S, NEW T, T \subseteq S, S \subseteq Tasks
  PROVE  /\ Cardinality(S) \in Nat /\ Cardinality(T) \in Nat
         /\ Cardinality(T) <= Cardinality(S)
<1>1. IsFiniteSet(S)
  BY FS_Subset, QueueAssumption DEF QueueAssumption
<1>2. IsFiniteSet(T) /\ Cardinality(T) <= Cardinality(S)
  BY <1>1, FS_Subset
<1> QED BY <1>1, <1>2, FS_CardinalityType

LEMMA RoomForOne ==
  ASSUME NEW S, S \subseteq Tasks, NEW t, Cardinality(S \ {t}) < maxParallelTasks
  PROVE  Cardinality(S \cup {t}) <= maxParallelTasks
<1>1. IsFiniteSet(S \ {t})
  BY FS_Subset, QueueAssumption DEF QueueAssumption
<1>2. Cardinality((S \ {t}) \cup {t}) = Cardinality(S \ {t}) + 1
  BY <1>1, FS_AddElement
<1>3. (S \ {t}) \cup {t} = S \cup {t}
  OBVIOUS
<1>4. Cardinality(S \ {t}) \in Nat
  BY <1>1, FS_CardinalityType
<1> QED BY <1>2, <1>3, <1>4, QueueAssumption DEF QueueAssumption

\* What an iteration of processQueue chooses, and when it ends the pass.
LEMMA LoopsChooses ==
  ASSUME NEW st, NEW attempted, attempted \subseteq Tasks, NEW failures \in Nat,
         NEW p, p = Loops(st, attempted, failures)
  PROVE  \/ /\ \E t \in Tasks \ attempted :
                 p = [busy |-> TRUE, next |-> t, attempted |-> attempted, failures |-> failures]
            /\ p.busy /\ ~Full(st, {}) /\ failures < MAX_CONSECUTIVE_FAILURES
         \/ /\ p = Idle /\ ~p.busy
            /\ \/ Full(st, {}) \/ In("queue", st) \subseteq attempted
               \/ failures >= MAX_CONSECUTIVE_FAILURES
<1> DEFINE waiting == In("queue", st) \ attempted
           oldest == Min(waiting)
<1>1. waiting \subseteq Tasks
  BY DEF In
<1>2. Tasks \subseteq Nat /\ MAX_CONSECUTIVE_FAILURES \in Nat
  BY QueueAssumption DEF QueueAssumption
<1>3. waiting # {} => oldest \in Tasks /\ oldest \notin attempted
  BY <1>1, <1>2, MinIsMember
<1>4. p = IF Full(st, {}) \/ waiting = {} \/ failures >= MAX_CONSECUTIVE_FAILURES THEN Idle
          ELSE [busy |-> TRUE, next |-> oldest, attempted |-> attempted, failures |-> failures]
  BY DEF Loops
<1>5. waiting = {} => In("queue", st) \subseteq attempted
  OBVIOUS
<1> HIDE DEF waiting, oldest
<1>6. CASE Full(st, {}) \/ waiting = {} \/ failures >= MAX_CONSECUTIVE_FAILURES
  BY <1>4, <1>5, <1>6 DEF Idle
<1>7. CASE ~(Full(st, {}) \/ waiting = {} \/ failures >= MAX_CONSECUTIVE_FAILURES)
  <2>1. p = [busy |-> TRUE, next |-> oldest, attempted |-> attempted, failures |-> failures]
    BY <1>4, <1>7
  <2>2. oldest \in Tasks \ attempted
    BY <1>3, <1>7
  <2>3. failures < MAX_CONSECUTIVE_FAILURES /\ p.busy /\ ~Full(st, {})
    BY <1>2, <1>7, <2>1
  <2> QED BY <2>1, <2>2, <2>3
<1> QED BY <1>6, <1>7

LEMMA NoTask == None \notin Tasks
BY QueueAssumption DEF QueueAssumption, None

\* A pass that begins or goes on has the right type.
LEMMA LoopsTyped ==
  ASSUME NEW st, NEW attempted, attempted \subseteq Tasks, NEW failures \in Nat,
         pass' = Loops(st, attempted, failures)
  PROVE  PassTyped'
<1>1. MAX_CONSECUTIVE_FAILURES \in Nat \ {0}
  BY QueueAssumption DEF QueueAssumption
<1>2. CASE pass' = Idle
  BY <1>1, <1>2, NoTask DEF PassTyped, Idle
<1>3. CASE pass' # Idle
  <2>1. /\ failures < MAX_CONSECUTIVE_FAILURES
        /\ \E t \in Tasks \ attempted :
             pass' = [busy |-> TRUE, next |-> t, attempted |-> attempted, failures |-> failures]
    BY <1>3, LoopsChooses
  <2>2. PICK t \in Tasks :
          pass' = [busy |-> TRUE, next |-> t, attempted |-> attempted, failures |-> failures]
    BY <2>1
  <2> QED BY <1>1, <2>1, <2>2 DEF PassTyped
<1> QED BY <1>2, <1>3

------------------------------------------------------------------------------
(* processQueue.                                                           *)

\* Requests that stay open, or are answered, leave no more tasks under way.
LEMMA OpenedSplit == PassTyped => Opened = Others \cup (IF pass.busy THEN {pass.next} ELSE {})
BY NoTask DEF PassTyped, Opened, Others

LEMMA TasksUnderWay == QueueTypeOK /\ PassTyped => Opened \subseteq Tasks
<1>1. QueueTypeOK => Others \subseteq Tasks
  BY DEF QueueTypeOK, Others
<1> QED BY <1>1, OpenedSplit DEF PassTyped

\* A call of processQueue after some tasks left "in_progress", or none.
LEMMA CallKeeps ==
  ASSUME QueueIInv, In("in_progress", status') \subseteq Running, Others' \subseteq Others,
         ProcessQueue(status')
  PROVE  /\ PassTyped' /\ oversold' \in BOOLEAN
         /\ OneAtATime' /\ CapacityKept' /\ NoneForgotten'
<1> USE DEF QueueIInv
<1>1. CASE pass.busy
  <2>1. UNCHANGED <<pass, oversold, passedOver>>
    BY <1>1 DEF ProcessQueue
  <2>2. PassTyped' /\ oversold' \in BOOLEAN /\ OneAtATime' /\ NoneForgotten'
    BY <1>1, <2>1 DEF PassTyped, OneAtATime, NoneForgotten
  <2>3. Opened' \subseteq Opened
    <3>1. Opened' = Others' \cup (IF pass'.busy THEN {pass'.next} ELSE {})
      BY <2>2, NoTask DEF PassTyped, Opened, Others
    <3> QED BY <2>1, <3>1, OpenedSplit
  <2>4. CapacityKept'
    <3> SUFFICES ASSUME ~oversold
                 PROVE  Cardinality(In("in_progress", status') \cup Opened') <= maxParallelTasks
      BY <2>1 DEF CapacityKept
    <3>1. Cardinality(Running \cup Opened) <= maxParallelTasks
      BY DEF CapacityKept, Running
    <3>2. Running \cup Opened \subseteq Tasks
      BY TasksUnderWay DEF Running, In
    <3> QED BY <2>3, <3>1, <3>2, Fewer, QueueAssumption DEF QueueAssumption
  <2> QED BY <2>2, <2>4
<1>2. CASE ~pass.busy
  <2>1. /\ pass' = Loops(status', {}, 0) /\ passedOver' = {}
        /\ oversold' = (oversold \/ (pass'.busy /\ Opened # {}))
    BY <1>2 DEF ProcessQueue
  <2>2. PassTyped'
    BY <2>1, LoopsTyped
  <2>3. Opened = Others
    BY <1>2, OpenedSplit
  <2>4. CASE pass' = Idle
    <3>1. ~pass'.busy /\ Opened' \subseteq Others'
      BY <2>4 DEF Idle, Opened, Others
    <3>2. Full(status', {}) \/ In("queue", status') = {}
      <4>1. 0 < MAX_CONSECUTIVE_FAILURES
        BY QueueAssumption DEF QueueAssumption
      <4> QED BY <2>1, <3>1, <4>1, LoopsChooses, QueueAssumption DEF QueueAssumption
    <3>3. NoneForgotten' /\ OneAtATime'
      BY <2>1, <3>1, <3>2 DEF NoneForgotten, OneAtATime
    <3>4. oversold' = oversold
      BY <2>1, <3>1
    <3>5. CapacityKept'
      <4> SUFFICES ASSUME ~oversold
                   PROVE  Cardinality(In("in_progress", status') \cup Opened') <= maxParallelTasks
        BY <3>4 DEF CapacityKept
      <4>1. Cardinality(Running \cup Opened) <= maxParallelTasks
        BY DEF CapacityKept, Running
      <4>2. Running \cup Opened \subseteq Tasks
        BY TasksUnderWay DEF Running, In
      <4>3. In("in_progress", status') \cup Opened' \subseteq Running \cup Opened
        BY <2>3, <3>1
      <4> QED BY <4>1, <4>2, <4>3, Fewer, QueueAssumption DEF QueueAssumption
    <3> QED BY <2>2, <3>3, <3>4, <3>5
  <2>5. CASE pass' # Idle
    <3>1. /\ pass'.busy /\ pass'.next \in Tasks /\ ~Full(status', {})
          /\ Opened' = Others' \cup {pass'.next}
      <4>2. pass'.busy /\ ~Full(status', {})
        BY <2>1, <2>5, LoopsChooses
      <4> QED BY <2>2, <4>2, NoTask DEF PassTyped, Opened, Others
    <3>2. oversold' = (oversold \/ Others # {})
      BY <2>1, <2>3, <3>1
    <3>3. NoneForgotten' /\ OneAtATime'
      BY <3>1, <3>2 DEF NoneForgotten, OneAtATime
    <3>4. CapacityKept'
      <4> SUFFICES ASSUME ~oversold'
                   PROVE  Cardinality(In("in_progress", status') \cup Opened') <= maxParallelTasks
        BY DEF CapacityKept
      <4>1. Opened' = {pass'.next}
        BY <3>1, <3>2
      <4>2. Cardinality(In("in_progress", status') \ {}) < maxParallelTasks
        <5>1. Cardinality(In("in_progress", status') \ {}) \in Nat
          BY Fewer DEF In
        <5> QED BY <3>1, <5>1, QueueAssumption DEF Full, QueueAssumption
      <4>3. Cardinality(In("in_progress", status') \ {pass'.next}) < maxParallelTasks
        BY <4>2, Fewer, QueueAssumption DEF In, QueueAssumption
      <4> QED BY <4>1, <4>3, RoomForOne DEF In
    <3> QED BY <2>2, <3>2, <3>3, <3>4
  <2> QED BY <2>4, <2>5
<1> QED BY <1>1, <1>2

\* The type invariant from what the steps show of their variables.
LEMMA TypedNext ==
  ASSUME status' \in [Tasks -> Columns], moves' \subseteq Tasks \X (Columns \ {"settled"}),
         starts' \subseteq Tasks, PassTyped', QueuesTyped'
  PROVE  QueueTypeOK'
<1>1. pass'.busy = (pass'.next \in Tasks)
  <2>1. pass'.busy \in BOOLEAN /\ (pass'.busy <=> pass'.next \in Tasks)
    BY DEF PassTyped
  <2> QED BY <2>1
<1>2. pass'.attempted \subseteq Tasks /\ pass'.failures \in 0..(MAX_CONSECUTIVE_FAILURES - 1)
  BY DEF PassTyped
<1> QED BY <1>1, <1>2 DEF QueueTypeOK, QueuesTyped

\* What the board shows of a task, and the listener.
LEMMA ShownKeeps ==
  ASSUME QueueIInv, NEW t \in Tasks, NEW column \in Columns,
         Applied(t, column), Listened(t, column),
         starts' \subseteq starts, moves' \subseteq moves,
         column = "in_progress" => t \in Opened,
         QueuesTyped', queueing' = NotQueueing => queueing = NotQueueing
  PROVE  QueueIInv'
<1>1. status' = [status EXCEPT ![t] = column] /\ status' \in [Tasks -> Columns]
  BY DEF QueueIInv, QueueTypeOK, Applied
<1>2. Others' \subseteq Others
  BY DEF Others
<1>3. /\ PassTyped' /\ oversold' \in BOOLEAN
      /\ OneAtATime' /\ CapacityKept' /\ NoneForgotten'
  <2>1. CASE status[t] = "in_progress" /\ column # "in_progress"
    <3>1. In("in_progress", status') \subseteq Running
      BY <1>1, <2>1 DEF In, Running, QueueIInv, QueueTypeOK
    <3>2. ProcessQueue(status')
      BY <2>1 DEF Listened
    <3> QED BY <1>2, <3>1, <3>2, CallKeeps
  <2>2. CASE ~(status[t] = "in_progress" /\ column # "in_progress")
    <3>1. /\ UNCHANGED <<pass, oversold>>
          /\ passedOver' = IF column = "queue" /\ ~pass.busy THEN passedOver \cup {t}
                           ELSE passedOver \ {t}
      BY <2>2 DEF Listened
    <3>2. PassTyped' /\ oversold' \in BOOLEAN /\ OneAtATime'
      BY <1>2, <3>1 DEF QueueIInv, PassTyped, OneAtATime
    <3>3. Running \subseteq In("in_progress", status') /\ In("in_progress", status') \subseteq Running \cup {t}
      BY <1>1, <2>2 DEF In, Running, QueueIInv, QueueTypeOK
    <3>4. CapacityKept'
      <4>1. Opened' \subseteq Opened
        BY <3>1 DEF Opened
      <4>2. In("in_progress", status') \cup Opened' \subseteq Running \cup Opened
        BY <1>1, <2>2, <3>3, <4>1 DEF In, Running, QueueIInv, QueueTypeOK
      <4>3. Running \cup Opened \subseteq Tasks
        BY TasksUnderWay DEF Running, In, QueueIInv
      <4> QED BY <3>1, <4>2, <4>3, Fewer, QueueAssumption DEF CapacityKept, Running,
             QueueIInv, QueueAssumption
    <3>5. NoneForgotten'
      <4> SUFFICES ASSUME ~pass.busy, queueing = NotQueueing, ~Full(status', {}),
                          NEW u \in In("queue", status')
                   PROVE  u \in passedOver'
        BY <3>1 DEF NoneForgotten
      <4>1. ~Full(status, {})
        <5>1. Running \ {} \subseteq In("in_progress", status') \ {} /\ In("in_progress", status') \ {} \subseteq Tasks
          BY <3>3 DEF In
        <5> QED BY <5>1, Fewer, QueueAssumption DEF Full, Running, QueueAssumption
      <4>2. In("queue", status) \subseteq passedOver
        BY <4>1 DEF QueueIInv, NoneForgotten
      <4> QED BY <1>1, <3>1, <4>2 DEF In, QueueIInv, QueueTypeOK
    <3> QED BY <3>2, <3>4, <3>5
  <2> QED BY <2>1, <2>2
<1>4. QueueTypeOK'
  BY <1>1, <1>3, TypedNext DEF QueueIInv, QueueTypeOK
<1> QED BY <1>3, <1>4 DEF QueueIInv

------------------------------------------------------------------------------
(* The steps.                                                              *)

\* An iteration after an await: the requests in `left` stay open.
LEMMA IterationKeeps ==
  ASSUME QueueIInv, pass.busy, status' \in [Tasks -> Columns],
         NEW left, Opened' = left \cup (IF pass'.busy THEN {pass'.next} ELSE {}),
         In("in_progress", status') \cup left \subseteq Running \cup Opened,
         oversold' = (oversold \/ (pass'.busy /\ left # {})),
         NEW attempted, attempted \subseteq Tasks, NEW failures \in Nat,
         pass' = Loops(status', attempted, failures)
  PROVE  PassTyped' /\ oversold' \in BOOLEAN /\ CapacityKept'
<1>1. PassTyped'
  BY LoopsTyped
<1>2. oversold' \in BOOLEAN
  BY <1>1 DEF QueueIInv, PassTyped
<1>3. CapacityKept'
  <2> SUFFICES ASSUME ~oversold'
               PROVE  Cardinality(In("in_progress", status') \cup Opened') <= maxParallelTasks
    BY DEF CapacityKept
  <2>1. CASE ~pass'.busy
    <3>1. Running \cup Opened \subseteq Tasks
      BY TasksUnderWay DEF Running, In, QueueIInv
    <3>2. Cardinality(Running \cup Opened) <= maxParallelTasks
      BY DEF CapacityKept, Running, QueueIInv
    <3>3. In("in_progress", status') \cup Opened' \subseteq Running \cup Opened
      BY <2>1
    <3> QED BY <3>1, <3>2, <3>3, Fewer, QueueAssumption DEF QueueAssumption
  <2>2. CASE pass'.busy
    <3>1. Opened' = {pass'.next}
      BY <2>2
    <3>2. ~Full(status', {})
      BY <2>2, LoopsChooses
    <3>3. Cardinality(In("in_progress", status') \ {}) < maxParallelTasks
      <4>1. Cardinality(In("in_progress", status') \ {}) \in Nat
        BY Fewer DEF In
      <4> QED BY <3>2, <4>1, QueueAssumption DEF Full, QueueAssumption
    <3>4. Cardinality(In("in_progress", status') \ {pass'.next}) < maxParallelTasks
      BY <3>3, Fewer, QueueAssumption DEF In, QueueAssumption
    <3> QED BY <3>1, <3>4, RoomForOne DEF In
  <2> QED BY <2>1, <2>2
<1> QED BY <1>1, <1>2, <1>3

LEMMA PromotedKeeps == QueueIInv /\ Promoted => QueueIInv'
<1> SUFFICES ASSUME QueueIInv, Promoted PROVE QueueIInv'
  OBVIOUS
<1>1. /\ pass.busy /\ pass.next \in Tasks /\ pass.attempted \subseteq Tasks
      /\ Opened = Others \cup {pass.next} /\ UNCHANGED <<moves, starts, queueing>>
  BY OpenedSplit DEF Promoted, QueueIInv, PassTyped
<1>2. status' = [status EXCEPT ![pass.next] = "in_progress"] /\ status' \in [Tasks -> Columns]
  BY <1>1 DEF Promoted, Applied, QueueIInv, QueueTypeOK, Columns
<1>3. /\ pass' = Loops(status', pass.attempted, 0)
      /\ passedOver' = IF pass'.busy THEN {} ELSE pass.attempted
      /\ oversold' = (oversold \/ (pass'.busy /\ Opened \ {pass.next} # {}))
  BY DEF Promoted
<1>4. PassTyped'
  BY <1>1, <1>3, LoopsTyped
<1>5. Opened' = Others \cup (IF pass'.busy THEN {pass'.next} ELSE {})
  BY <1>1, <1>4, NoTask DEF PassTyped, Opened, Others
<1>6. oversold' \in BOOLEAN /\ CapacityKept'
  <2> DEFINE left == Opened \ {pass.next}
  <2>1. CASE pass.next \in Others
    <3>1. oversold /\ oversold'
      BY <1>1, <1>3, <2>1 DEF QueueIInv, OneAtATime
    <3> QED BY <3>1, <1>3, <1>4 DEF CapacityKept, QueueIInv, PassTyped
  <2>2. CASE pass.next \notin Others
    <3>1. left = Others
      BY <1>1, <2>2
    <3>2. In("in_progress", status') \cup left \subseteq Running \cup Opened
      BY <1>1, <1>2, <3>1 DEF In, Running, QueueIInv, QueueTypeOK
    <3> HIDE DEF left
    <3>3. oversold' = (oversold \/ (pass'.busy /\ left # {}))
      BY <1>3 DEF left
    <3> QED BY <1>1, <1>2, <1>3, <1>5, <3>1, <3>2, <3>3, IterationKeeps
  <2> QED BY <2>1, <2>2
<1>7. OneAtATime'
  BY <1>1, <1>3 DEF OneAtATime, Others, QueueIInv
<1>8. NoneForgotten'
  <2> SUFFICES ASSUME ~pass'.busy, ~Full(status', {})
               PROVE  In("queue", status') \subseteq pass.attempted
    BY <1>3 DEF NoneForgotten
  <2>1. 0 < MAX_CONSECUTIVE_FAILURES
    BY QueueAssumption DEF QueueAssumption
  <2> QED BY <1>1, <1>3, <2>1, LoopsChooses, QueueAssumption DEF QueueAssumption
<1>9. QueueTypeOK' /\ QueuesTyped'
  BY <1>1, <1>2, <1>4, TypedNext DEF QueueIInv, QueueTypeOK, QueuesTyped
<1> QED BY <1>4, <1>6, <1>7, <1>8, <1>9 DEF QueueIInv

LEMMA NotPromotedKeeps == QueueIInv /\ NotPromoted => QueueIInv'
<1> SUFFICES ASSUME QueueIInv, NotPromoted PROVE QueueIInv'
  OBVIOUS
<1> DEFINE tried == pass.attempted \cup {pass.next}
           failed == pass.failures + 1
           left == starts' \cup (Opened \ {pass.next})
<1>1. /\ pass.busy /\ pass.next \in Tasks /\ tried \subseteq Tasks /\ failed \in Nat
      /\ Opened = Others \cup {pass.next} /\ UNCHANGED <<status, moves, queueing>>
      /\ starts' \in {starts, starts \cup {pass.next}}
  BY OpenedSplit DEF NotPromoted, QueueIInv, PassTyped
<1>2. /\ pass' = Loops(status', tried, failed)
      /\ passedOver' = IF pass'.busy THEN {}
                       ELSE IF failed >= MAX_CONSECUTIVE_FAILURES THEN In("queue", status')
                       ELSE tried
      /\ oversold' = (oversold \/ (pass'.busy /\ left # {}))
  BY <1>1 DEF NotPromoted
<1> HIDE DEF tried, failed
<1>3. PassTyped'
  BY <1>1, <1>2, LoopsTyped
<1>4. oversold' \in BOOLEAN
  BY <1>2, <1>3 DEF QueueIInv, PassTyped
<1>5. ~oversold => Others = {}
  BY <1>1 DEF QueueIInv, OneAtATime
<1>6. ASSUME ~oversold
      PROVE  /\ left = starts' /\ Others' = starts'
             /\ Opened' = left \cup (IF pass'.busy THEN {pass'.next} ELSE {})
             /\ In("in_progress", status') \cup left \subseteq Running \cup Opened
  <2>1. Others = {} /\ Opened = {pass.next}
    BY <1>1, <1>5, <1>6
  <2>2. left = starts'
    BY <2>1
  <2>3. starts = {} /\ {m[1] : m \in {n \in moves' : n[2] = "in_progress"}} = {}
    BY <1>1, <2>1 DEF Others
  <2>4. Others' = starts'
    BY <2>3 DEF Others
  <2>5. Opened' = Others' \cup (IF pass'.busy THEN {pass'.next} ELSE {})
    BY <1>3, NoTask DEF PassTyped, Opened, Others
  <2>6. starts' \subseteq {pass.next}
    BY <1>1, <2>3
  <2> QED BY <1>1, <2>1, <2>2, <2>4, <2>5, <2>6 DEF Running
<1> HIDE DEF left
<1>7. CapacityKept'
  <2>1. CASE oversold
    BY <1>2, <2>1 DEF CapacityKept
  <2>2. CASE ~oversold
    <3>1. status' \in [Tasks -> Columns]
      BY <1>1 DEF QueueIInv, QueueTypeOK
    <3> QED BY <1>1, <1>2, <1>6, <2>2, <3>1, IterationKeeps
  <2> QED BY <2>1, <2>2
<1>8. OneAtATime'
  BY <1>2, <1>6 DEF OneAtATime
<1>9. NoneForgotten'
  <2> SUFFICES ASSUME ~pass'.busy, ~Full(status', {}), failed < MAX_CONSECUTIVE_FAILURES
               PROVE  In("queue", status') \subseteq tried
    BY <1>1, <1>2, QueueAssumption DEF NoneForgotten, QueueAssumption
  <2>1. ~ (failed >= MAX_CONSECUTIVE_FAILURES)
    BY <1>1, QueueAssumption DEF QueueAssumption
  <2>2. \/ pass'.busy
        \/ Full(status', {}) \/ In("queue", status') \subseteq tried \/ failed >= MAX_CONSECUTIVE_FAILURES
    BY <1>1, <1>2, LoopsChooses
  <2> QED BY <2>1, <2>2
<1>10. QueueTypeOK' /\ QueuesTyped'
  BY <1>1, <1>3, TypedNext DEF QueueIInv, QueueTypeOK, QueuesTyped
<1> QED BY <1>3, <1>4, <1>7, <1>8, <1>9, <1>10 DEF QueueIInv

\* A request to run a task, made when the column had a free slot.
LEMMA RequestKeeps ==
  ASSUME QueueIInv, NEW t \in Tasks, UNCHANGED <<status, pass, queueing, passedOver>>,
         starts' \subseteq starts \cup {t}, moves' \subseteq Tasks \X (Columns \ {"settled"}),
         Opened' \subseteq Opened \cup {t}, ~Full(status, {t}),
         oversold' = (oversold \/ Opened # {})
  PROVE  QueueIInv'
<1>1. QueueTypeOK' /\ PassTyped' /\ QueuesTyped' /\ NoneForgotten' /\ oversold' \in BOOLEAN
  BY DEF QueueIInv, QueueTypeOK, PassTyped, QueuesTyped, NoneForgotten, In, Full
<1>2. OneAtATime'
  BY OpenedSplit DEF QueueIInv, OneAtATime
<1>3. CapacityKept'
  <2> SUFFICES ASSUME ~oversold'
               PROVE  Cardinality(Running \cup Opened') <= maxParallelTasks
    BY DEF CapacityKept, Running
  <2>1. Opened' \subseteq {t}
    OBVIOUS
  <2>2. Cardinality(Running \ {t}) < maxParallelTasks
    <3>1. Cardinality(Running \ {t}) \in Nat
      BY Fewer DEF Running, In
    <3> QED BY <3>1, QueueAssumption DEF Full, Running, QueueAssumption
  <2>3. Cardinality(Running \cup {t}) <= maxParallelTasks
    BY <2>2, RoomForOne DEF Running, In
  <2>4. Running \cup {t} \subseteq Tasks /\ Running \cup Opened' \subseteq Running \cup {t}
    BY <2>1 DEF Running, In
  <2> QED BY <2>3, <2>4, Fewer, QueueAssumption DEF QueueAssumption
<1> QED BY <1>1, <1>2, <1>3 DEF QueueIInv

\* A step that shows nothing and opens no request.
LEMMA QuietKeeps ==
  ASSUME QueueIInv, UNCHANGED <<status, pass, oversold, passedOver>>,
         moves' \subseteq Tasks \X (Columns \ {"settled"}), starts' \subseteq Tasks,
         Others' \subseteq Others,
         QueuesTyped', queueing' = NotQueueing => queueing = NotQueueing
  PROVE  QueueIInv'
<1>1. QueueTypeOK' /\ PassTyped' /\ OneAtATime'
  BY DEF QueueIInv, QueueTypeOK, PassTyped, QueuesTyped, OneAtATime
<1>2. NoneForgotten'
  BY DEF QueueIInv, NoneForgotten, In, Full
<1>3. CapacityKept'
  <2>1. Opened' = Others' \cup (IF pass'.busy THEN {pass'.next} ELSE {})
    BY <1>1, NoTask DEF PassTyped, Opened, Others
  <2>2. Running \cup Opened' \subseteq Running \cup Opened
    BY <2>1, OpenedSplit DEF QueueIInv
  <2>3. Running \cup Opened \subseteq Tasks
    BY TasksUnderWay DEF Running, In, QueueIInv
  <2> QED BY <2>2, <2>3, Fewer, QueueAssumption DEF CapacityKept, Running,
             QueueIInv, QueueAssumption
<1> QED BY <1>1, <1>2, <1>3 DEF QueueIInv

LEMMA InitKeeps == QueueInit => QueueIInv
<1> SUFFICES ASSUME QueueInit PROVE QueueIInv
  OBVIOUS
<1>1. PassTyped
  BY NoTask, QueueAssumption DEF QueueInit, PassTyped, Idle, QueueAssumption
<1>2. QueueTypeOK /\ QueuesTyped
  <2>1. pass.busy = (pass.next \in Tasks)
    <3>1. pass.busy \in BOOLEAN /\ (pass.busy <=> pass.next \in Tasks)
      BY <1>1 DEF PassTyped
    <3> QED BY <3>1
  <2>2. pass.failures \in 0..(MAX_CONSECUTIVE_FAILURES - 1) /\ pass.attempted \subseteq Tasks
    BY <1>1 DEF PassTyped
  <2>3. status \in [Tasks -> Columns]
    BY DEF QueueInit, Columns
  <2> QED BY <2>1, <2>2, <2>3 DEF QueueInit, QueueTypeOK, QueuesTyped
<1>3. ~pass.busy /\ Others = {} /\ Running = {}
  BY DEF QueueInit, Idle, Others, Running, In
<1>4. Opened = {}
  BY <1>1, <1>3, OpenedSplit
<1>5. CapacityKept
  BY <1>3, <1>4, FS_EmptySet, QueueAssumption DEF CapacityKept, Running, QueueAssumption
<1>6. OneAtATime /\ NoneForgotten /\ oversold \in BOOLEAN
  BY <1>3 DEF OneAtATime, NoneForgotten, QueueInit
<1> QED BY <1>1, <1>2, <1>5, <1>6 DEF QueueIInv

LEMMA DragKeeps ==
  ASSUME QueueIInv, NEW t \in Tasks, NEW requested \in Columns \ {"settled"}, Drag(t, requested)
  PROVE  QueueIInv'
<1> DEFINE column == IF requested = "in_progress" /\ Full(status, {t}) THEN "queue" ELSE requested
<1>1. column \in Columns \ {"settled"}
  BY DEF Columns
<1>2. /\ moves' = moves \cup {<<t, column>>}
      /\ oversold' = (oversold \/ (column = "in_progress" /\ Opened # {}))
      /\ UNCHANGED <<status, starts, pass, queueing, passedOver>>
  BY DEF Drag
<1>3. column = "in_progress" => ~Full(status, {t})
  OBVIOUS
<1> HIDE DEF column
<1>4. moves' \subseteq Tasks \X (Columns \ {"settled"}) /\ starts' \subseteq Tasks /\ QueuesTyped'
  BY <1>1, <1>2 DEF QueueIInv, QueueTypeOK, QueuesTyped
<1>5. CASE column = "in_progress"
  <2>1. Opened' \subseteq Opened \cup {t}
    BY <1>2 DEF Opened
  <2>2. oversold' = (oversold \/ Opened # {})
    BY <1>2, <1>5
  <2> QED BY <1>2, <1>3, <1>4, <1>5, <2>1, <2>2, RequestKeeps
<1>6. CASE column # "in_progress"
  <2>1. Others' \subseteq Others
    BY <1>2, <1>6 DEF Others
  <2>2. oversold' = oversold
    BY <1>2, <1>6 DEF QueueIInv
  <2> QED BY <1>2, <1>4, <2>1, <2>2, QuietKeeps
<1> QED BY <1>5, <1>6

LEMMA StartTaskOrQueueKeeps ==
  ASSUME QueueIInv, NEW t \in Tasks, StartTaskOrQueue(t)
  PROVE  QueueIInv'
<1>1. UNCHANGED <<status, pass, queueing, passedOver>>
  BY DEF StartTaskOrQueue
<1>2. CASE Full(status, {t})
  <2>1. moves' = moves \cup {<<t, "queue">>} /\ UNCHANGED <<starts, oversold>>
    BY <1>2 DEF StartTaskOrQueue
  <2>2. moves' \subseteq Tasks \X (Columns \ {"settled"}) /\ starts' \subseteq Tasks /\ QueuesTyped'
    BY <1>1, <2>1 DEF QueueIInv, QueueTypeOK, QueuesTyped, Columns
  <2>3. Others' \subseteq Others
    BY <2>1 DEF Others
  <2> QED BY <1>1, <2>1, <2>2, <2>3, QuietKeeps
<1>3. CASE ~Full(status, {t})
  <2>1. /\ starts' = starts \cup {t} /\ UNCHANGED moves
        /\ oversold' = (oversold \/ Opened # {})
    BY <1>3 DEF StartTaskOrQueue
  <2>2. Opened' \subseteq Opened \cup {t}
    BY <1>1, <2>1 DEF Opened
  <2>3. moves' \subseteq Tasks \X (Columns \ {"settled"})
    BY <2>1 DEF QueueIInv, QueueTypeOK
  <2> QED BY <1>1, <1>3, <2>1, <2>2, <2>3, RequestKeeps
<1> QED BY <1>2, <1>3

LEMMA MoveKeeps ==
  ASSUME QueueIInv, NEW t \in Tasks, NEW column \in Columns \ {"settled"},
         MoveAnswered(<<t, column>>) \/ MoveRefused(<<t, column>>)
  PROVE  QueueIInv'
<1> DEFINE m == <<t, column>>
<1>1. m \in moves /\ moves' = moves \ {m} /\ m[1] = t /\ m[2] = column /\ UNCHANGED queueing
  BY DEF MoveAnswered, MoveRefused
<1>2. QueuesTyped' /\ (column = "in_progress" => t \in Opened)
  BY <1>1 DEF QueueIInv, QueuesTyped, Opened
<1>3. CASE MoveAnswered(m)
  BY <1>1, <1>2, <1>3, ShownKeeps DEF MoveAnswered
<1>4. CASE MoveRefused(m)
  <2>1. starts' \subseteq starts \cup {u \in {t} : column = "in_progress"}
    BY <1>1, <1>4 DEF MoveRefused
  <2>2. Others' \subseteq Others
    BY <1>1, <2>1 DEF Others
  <2>3. moves' \subseteq Tasks \X (Columns \ {"settled"}) /\ starts' \subseteq Tasks
    BY <1>1, <2>1 DEF QueueIInv, QueueTypeOK
  <2> QED BY <1>1, <1>2, <1>4, <2>2, <2>3, QuietKeeps DEF MoveRefused
<1> QED BY <1>3, <1>4

\* The messages about a task.
LEMMA MessageKeeps ==
  ASSUME QueueIInv, NEW t \in Tasks,
         StartShown(t) \/ RestoredShown(t) \/ StartFails(t) \/ Settles(t)
  PROVE  QueueIInv'
<1>1. UNCHANGED <<moves, queueing>> /\ starts' \subseteq starts
  BY DEF StartShown, RestoredShown, StartFails, Settles
<1>2. QueuesTyped'
  BY <1>1 DEF QueueIInv, QueuesTyped
<1>3. CASE StartShown(t)
  <2>1. t \in Opened
    BY <1>3 DEF StartShown, Opened
  <2> QED BY <1>1, <1>2, <1>3, <2>1, ShownKeeps DEF StartShown, Columns
<1>4. CASE RestoredShown(t)
  BY <1>1, <1>2, <1>4, ShownKeeps DEF RestoredShown, Columns
<1>5. CASE StartFails(t)
  <2>1. Others' \subseteq Others /\ starts' \subseteq Tasks /\ moves' \subseteq Tasks \X (Columns \ {"settled"})
    BY <1>1 DEF Others, QueueIInv, QueueTypeOK
  <2> QED BY <1>1, <1>2, <1>5, <2>1, QuietKeeps DEF StartFails
<1>6. CASE Settles(t)
  BY <1>1, <1>2, <1>6, ShownKeeps DEF Settles, Columns
<1> QED BY <1>3, <1>4, <1>5, <1>6

\* handleQueueAll.
LEMMA QueueAllKeeps ==
  ASSUME QueueIInv, QueueAll \/ QueueNext \/ QueuedAll
  PROVE  QueueIInv'
<1>1. NotQueueing # {}
  BY DEF NotQueueing
<1>2. \A q : q \subseteq Tasks => q # NotQueueing
  BY NoTask DEF NotQueueing
<1>3. CASE QueueAll
  <2>1. queueing' = In("backlog", status) /\ UNCHANGED <<status, moves, starts, pass, oversold, passedOver>>
    BY <1>3 DEF QueueAll
  <2>2. In("backlog", status) \subseteq Tasks
    BY DEF In
  <2>3. QueuesTyped' /\ queueing' # NotQueueing
    BY <1>2, <2>1, <2>2 DEF QueuesTyped
  <2>4. Others' = Others /\ moves' \subseteq Tasks \X (Columns \ {"settled"}) /\ starts' \subseteq Tasks
    BY <2>1 DEF Others, QueueIInv, QueueTypeOK
  <2> QED BY <2>1, <2>3, <2>4, QuietKeeps
<1>4. CASE QueueNext
  <2> DEFINE t == Min(queueing)
  <2>1. queueing # {} /\ queueing \subseteq Tasks
    BY <1>4 DEF QueueNext, QueueIInv, QueuesTyped
  <2>2. t \in queueing
    BY <2>1, MinIsMember, QueueAssumption DEF QueueAssumption
  <2>3. /\ queueing' = queueing \ {t} /\ UNCHANGED <<moves, starts>>
        /\ \/ Applied(t, "queue") /\ Listened(t, "queue")
           \/ UNCHANGED <<status, pass, oversold, passedOver>>
    BY <1>4 DEF QueueNext
  <2> HIDE DEF t
  <2>4. QueuesTyped' /\ queueing' # NotQueueing /\ t \in Tasks
    BY <1>2, <2>1, <2>2, <2>3 DEF QueuesTyped
  <2>5. CASE Applied(t, "queue") /\ Listened(t, "queue")
    BY <2>3, <2>4, <2>5, ShownKeeps DEF Columns
  <2>6. CASE UNCHANGED <<status, pass, oversold, passedOver>>
    <3>1. Others' = Others /\ moves' \subseteq Tasks \X (Columns \ {"settled"}) /\ starts' \subseteq Tasks
      BY <2>3 DEF Others, QueueIInv, QueueTypeOK
    <3> QED BY <2>4, <2>6, <3>1, QuietKeeps
  <2> QED BY <2>3, <2>5, <2>6
<1>5. CASE QueuedAll
  <2>1. /\ queueing' = NotQueueing /\ ProcessQueue(status') /\ UNCHANGED <<status, moves, starts>>
    BY <1>5 DEF QueuedAll, ProcessQueue
  <2>2. Others' = Others /\ In("in_progress", status') = Running
    BY <2>1 DEF Others, Running, In
  <2>3. PassTyped' /\ oversold' \in BOOLEAN /\ OneAtATime' /\ CapacityKept' /\ NoneForgotten'
    BY <2>1, <2>2, CallKeeps
  <2>4. QueueTypeOK' /\ QueuesTyped'
    BY <2>1, <2>3, TypedNext DEF QueueIInv, QueueTypeOK, QueuesTyped
  <2> QED BY <2>3, <2>4 DEF QueueIInv
<1> QED BY <1>3, <1>4, <1>5

LEMMA StutterKeeps == QueueIInv /\ UNCHANGED queueVars => QueueIInv'
<1> SUFFICES ASSUME QueueIInv, UNCHANGED queueVars PROVE QueueIInv'
  OBVIOUS
<1>1. /\ UNCHANGED <<status, moves, starts, pass, queueing, oversold, passedOver>>
      /\ moves' \subseteq Tasks \X (Columns \ {"settled"}) /\ starts' \subseteq Tasks /\ QueuesTyped'
  BY DEF queueVars, QueueIInv, QueueTypeOK, QueuesTyped
<1>2. Others' = Others
  BY <1>1 DEF Others
<1> QED BY <1>1, <1>2, QuietKeeps

LEMMA QueueKeeps == QueueSpec => []QueueIInv
<1>1. QueueInit => QueueIInv
  BY InitKeeps
<1>2. QueueIInv /\ [QueueStep]_queueVars => QueueIInv'
  <2> SUFFICES ASSUME QueueIInv, QueueStep PROVE QueueIInv'
    BY StutterKeeps
  <2>1. CASE Promoted
    BY <2>1, PromotedKeeps
  <2>2. CASE NotPromoted
    BY <2>2, NotPromotedKeeps
  <2>3. CASE QueueAll \/ QueueNext \/ QueuedAll
    BY <2>3, QueueAllKeeps
  <2>4. ASSUME NEW t \in Tasks, StartTaskOrQueue(t) PROVE QueueIInv'
    BY <2>4, StartTaskOrQueueKeeps
  <2>5. ASSUME NEW t \in Tasks, StartShown(t) \/ RestoredShown(t) \/ StartFails(t) \/ Settles(t)
        PROVE  QueueIInv'
    BY <2>5, MessageKeeps
  <2>6. ASSUME NEW t \in Tasks, NEW column \in Columns \ {"settled"}, Drag(t, column)
        PROVE  QueueIInv'
    BY <2>6, DragKeeps
  <2>7. ASSUME NEW t \in Tasks, NEW column \in Columns \ {"settled"},
               MoveAnswered(<<t, column>>) \/ MoveRefused(<<t, column>>)
        PROVE  QueueIInv'
    BY <2>7, MoveKeeps
  <2> QED BY <2>1, <2>2, <2>3, <2>4, <2>5, <2>6, <2>7 DEF QueueStep
<1> QED BY <1>1, <1>2, PTL DEF QueueSpec

------------------------------------------------------------------------------
\* Columns, requests and the pass of processQueue keep their types; a pass at work
\* waits for one task, and never goes on after MAX_CONSECUTIVE_FAILURES failures.
THEOREM QueueTyped == QueueSpec => []QueueTypeOK
<1>1. QueueIInv => QueueTypeOK
  BY DEF QueueIInv
<1> QED BY <1>1, QueueKeeps, PTL

\* isQueueAtCapacity and processQueue keep the limit for any tasks and slots, unless
\* one of them checked it while a request to run a task was open.
THEOREM CapacityIsKept == QueueSpec => []CapacityKept
<1>1. QueueIInv => CapacityKept
  BY DEF QueueIInv
<1> QED BY <1>1, QueueKeeps, PTL

\* No pass of processQueue ends with a free slot and a waiting task, but for the tasks
\* it tried in vain or that came by hand after it.
THEOREM NoneIsForgotten == QueueSpec => []NoneForgotten
<1>1. QueueIInv => NoneForgotten
  BY DEF QueueIInv
<1> QED BY <1>1, QueueKeeps, PTL

------------------------------------------------------------------------------
(***************************************************************************)
(* The merge, for any tasks and any number of commits and requests.        *)
(*                                                                         *)
(* That no commit is lost (WorkKept) is not inductive: a branch is deleted *)
(* because of a merge that ended some steps before.  MergedIsKept says     *)
(* what is still known of that merge then, in the handler and of a task    *)
(* that is flagged as staged; RequestCarries says what a request under way *)
(* will bring in.                                                          *)
(***************************************************************************)

Places == {"idle"} \cup InProcess \cup InHandler

Requests == [at : Places, noCommit : BOOLEAN, staged : BOOLEAN, carried : SUBSET written]

GitTyped ==
  /\ branch \in [Specs -> SUBSET written] /\ merge \in [Specs -> Requests]
  /\ IsFiniteSet(written)

\* What reached the project, or was on its way when it was dropped.
Kept == head \cup mergeHead \cup dropped \cup overtaken

MergedIsKept ==
  \A t \in Specs :
    t \in flagged \/ merge[t].at \in {"exited"} \cup InHandler => branch[t] \subseteq Kept

RequestCarries ==
  \A t \in Specs :
    /\ merge[t].at \in {"checking", "trying", "merging"} => merge[t].carried \subseteq branch[t]
    /\ ~misjudged /\ merge[t].at = "exited" /\ ~merge[t].noCommit => merge[t].carried \subseteq head

MergeIInv ==
  /\ MergeTypeOK /\ GitTyped
  /\ MergedIsKept /\ RequestCarries
  /\ WorkKept /\ MergedIsCommitted

------------------------------------------------------------------------------
(* Type correctness.                                                       *)

\* The initial states are typed.
LEMMA InitTyped == MergeInit => MergeTypeOK /\ GitTyped
<1> SUFFICES ASSUME MergeInit PROVE MergeTypeOK /\ GitTyped
  OBVIOUS
<1>1. IsFiniteSet(written)
  BY FS_EmptySet DEF MergeInit
<1>2. NoRequest \in Requests
  BY DEF NoRequest, Requests, Places
<1>3. GitTyped
  BY <1>1, <1>2 DEF MergeInit, GitTyped
<1>4. MergeTypeOK
  BY MergeAssumption DEF MergeInit, MergeTypeOK, Commits, NoRequest
<1> QED BY <1>3, <1>4

\* Every step keeps the branches and the records of the requests typed.
LEMMA StepTyped ==
  ASSUME GitTyped, [MergeNext]_mergeVars
  PROVE  GitTyped'
<1> USE DEF GitTyped, Requests, Places, InProcess, InHandler
<1>1. ASSUME NEW t \in Specs, CreateWorktree(t) PROVE GitTyped'
  BY <1>1 DEF CreateWorktree, history
<1>2. ASSUME NEW t \in Specs, Commit(t) PROVE GitTyped'
  <2>1. PICK c : written' = written \cup {c} /\ branch' = [branch EXCEPT ![t] = @ \cup {c}]
                 /\ merge' = merge
    BY <1>2 DEF Commit
  <2>2. IsFiniteSet(written')
    BY <2>1, FS_AddElement
  <2>3. branch' \in [Specs -> SUBSET written'] /\ merge' \in [Specs -> Requests']
    BY <2>1
  <2> QED BY <2>2, <2>3
<1>3. ASSUME NEW t \in Specs, NEW n \in BOOLEAN, StartMerge(t, n) PROVE GitTyped'
  BY <1>3 DEF StartMerge, gitVars, history
<1>4. ASSUME NEW t \in Specs, CheckConflicts(t) PROVE GitTyped'
  BY <1>4 DEF CheckConflicts, GoesTo, gitVars, history
<1>5. ASSUME NEW t \in Specs, TryMerge(t) PROVE GitTyped'
  BY <1>5 DEF TryMerge, GoesTo, Stages, Aborts, history
<1>6. ASSUME NEW t \in Specs, MergeWorktree(t) PROVE GitTyped'
  <2>1. /\ branch' = branch /\ written' = written
        /\ GoesTo(t, "exited") \/ Answered(t)
    BY <1>6 DEF MergeWorktree, Stages, Merges, Aborts
  <2>2. CASE GoesTo(t, "exited")
    BY <2>1, <2>2 DEF GoesTo
  <2>3. CASE Answered(t)
    BY <2>1, <2>3 DEF Answered, NoRequest
  <2> QED BY <2>1, <2>2, <2>3
<1>7. ASSUME NEW t \in Specs, MergeTimesOut(t) PROVE GitTyped'
  BY <1>7 DEF MergeTimesOut, Answered, NoRequest, gitVars, history
<1>8. ASSUME NEW t \in Specs, HandleExit(t) PROVE GitTyped'
  <2>1. branch' = branch /\ written' = written
    BY <1>8 DEF HandleExit, gitVars, history
  <2>2. CASE merge[t].noCommit
    <3>1. (mergeHead # {}) \in BOOLEAN
      OBVIOUS
    <3>2. merge' = [merge EXCEPT ![t] = [@ EXCEPT !.at = "saving", !.staged = mergeHead # {}]]
      BY <1>8, <2>2 DEF HandleExit
    <3>3. [merge[t] EXCEPT !.at = "saving", !.staged = mergeHead # {}] \in Requests
      BY <3>1
    <3> QED BY <2>1, <3>2, <3>3
  <2>3. CASE ~merge[t].noCommit
    BY <1>8, <2>1, <2>3 DEF HandleExit
  <2> QED BY <2>2, <2>3
<1>9. ASSUME NEW t \in Specs, CleanUp(t) PROVE GitTyped'
  BY <1>9 DEF CleanUp, GoesTo, Removed, gitVars, history
<1>10. ASSUME NEW t \in Specs, SavePlan(t) PROVE GitTyped'
  BY <1>10 DEF SavePlan, Answered, NoRequest, gitVars, history
<1>11. ASSUME NEW t \in Specs, Discard(t) PROVE GitTyped'
  BY <1>11 DEF Discard, Removed
<1>12. ASSUME NEW t \in Specs, DeleteWorktreeAndMarkDone(t) PROVE GitTyped'
  BY <1>12 DEF DeleteWorktreeAndMarkDone, Removed, history
<1>13. ASSUME NEW t \in Specs, ClearStagedState(t) PROVE GitTyped'
  BY <1>13 DEF ClearStagedState, gitVars, history
<1>14. CASE CommitStaged
  BY <1>14 DEF CommitStaged, history
<1>15. CASE AppQuits
  BY <1>15 DEF AppQuits, NoRequest, gitVars, history
<1>16. CASE UNCHANGED mergeVars
  BY <1>16 DEF mergeVars, gitVars, history
<1>17. ASSUME NEW t \in Specs, RejectReview(t) PROVE GitTyped'
  BY <1>17 DEF RejectReview
<1> QED
  BY <1>1, <1>2, <1>3, <1>4, <1>5, <1>6, <1>7, <1>8, <1>9, <1>10, <1>11, <1>12, <1>13, <1>14,
     <1>15, <1>16, <1>17 DEF MergeNext

------------------------------------------------------------------------------
(* What the steps of the handler do, task by task.                         *)

\* The exit code 0 of the process brings a request back to the handler.
LEMMA HandleExitMoves ==
  ASSUME GitTyped, NEW t \in Specs, HandleExit(t)
  PROVE  /\ merge[t].at = "exited" /\ merge'[t].at \in InHandler
         /\ merge'[t].noCommit <=> merge[t].noCommit
         /\ merge'[t].carried = merge[t].carried
         /\ \A u \in Specs : u # t => merge'[u] = merge[u]
         /\ misjudged' = misjudged /\ flagged' = flagged /\ requests' = requests
         /\ worktrees' = worktrees /\ branch' = branch /\ head' = head /\ mergeHead' = mergeHead
         /\ written' = written /\ overtaken' = overtaken /\ dropped' = dropped
<1> USE DEF GitTyped, Requests
<1>1. /\ merge[t].at = "exited"
      /\ misjudged' = misjudged /\ flagged' = flagged /\ requests' = requests
      /\ worktrees' = worktrees /\ branch' = branch /\ head' = head /\ mergeHead' = mergeHead
      /\ written' = written /\ overtaken' = overtaken /\ dropped' = dropped
  BY DEF HandleExit, At, gitVars, history
<1>2. CASE merge[t].noCommit
  <2>1. merge' = [merge EXCEPT ![t] = [@ EXCEPT !.at = "saving", !.staged = mergeHead # {}]]
    BY <1>2 DEF HandleExit
  <2>2. /\ merge'[t].at = "saving" /\ merge'[t].carried = merge[t].carried
        /\ merge'[t].noCommit = merge[t].noCommit
        /\ \A u \in Specs : u # t => merge'[u] = merge[u]
    BY <2>1
  <2> QED BY <1>1, <2>2 DEF InHandler
<1>3. CASE ~merge[t].noCommit
  <2>1. /\ merge'[t].at = "cleaning" /\ merge'[t].carried = merge[t].carried
        /\ merge'[t].noCommit = merge[t].noCommit
        /\ \A u \in Specs : u # t => merge'[u] = merge[u]
    BY <1>3 DEF HandleExit
  <2> QED BY <1>1, <2>1 DEF InHandler
<1> QED BY <1>2, <1>3

\* Cleaning up removes the branch of the task at most.
LEMMA CleanUpRemoves ==
  ASSUME GitTyped, NEW t \in Specs, CleanUp(t)
  PROVE  /\ merge[t].at = "cleaning" /\ merge'[t].at = "saving"
         /\ merge'[t].noCommit <=> merge[t].noCommit
         /\ merge'[t].carried = merge[t].carried
         /\ \A u \in Specs : u # t => merge'[u] = merge[u]
         /\ branch'[t] = branch[t] \/ branch'[t] = {}
         /\ \A u \in Specs : u # t => branch'[u] = branch[u]
         /\ misjudged' = misjudged /\ flagged' = flagged /\ head' = head /\ mergeHead' = mergeHead
         /\ written' = written /\ overtaken' = overtaken /\ dropped' = dropped
  BY DEF GitTyped, Requests, CleanUp, At, GoesTo, Removed, gitVars, history

------------------------------------------------------------------------------
\* Every step keeps the types, and a commit is its task's own.
LEMMA StepTypeOK ==
  ASSUME MergeTypeOK, GitTyped, GitTyped', [MergeNext]_mergeVars
  PROVE  MergeTypeOK'
<1> USE DEF MergeTypeOK, GitTyped, Requests, Places, InProcess, InHandler, Commits
<1>1. ASSUME NEW t \in Specs, CreateWorktree(t) PROVE MergeTypeOK'
  BY <1>1, MergeAssumption DEF CreateWorktree, history
<1>2. ASSUME NEW t \in Specs, Commit(t) PROVE MergeTypeOK'
  <2> DEFINE c == <<t, Cardinality(written) + 1>>
  <2>1. Cardinality(written) \in Nat /\ Cardinality(written) < MaxCommits
    BY <1>2, FS_CardinalityType DEF Commit
  <2>2. c \in Specs \X (1..MaxCommits) /\ c[1] = t
    BY <2>1, MergeAssumption
  <2>3. /\ written' = written \cup {c} /\ branch' = [branch EXCEPT ![t] = @ \cup {c}]
        /\ overtaken' = overtaken \/ overtaken' = overtaken \cup {c}
        /\ misjudged' = misjudged /\ worktrees' = worktrees /\ head' = head /\ mergeHead' = mergeHead
        /\ merge' = merge /\ flagged' = flagged /\ dropped' = dropped /\ requests' = requests
    BY <1>2 DEF Commit
  <2> HIDE DEF c
  <2> QED BY <2>2, <2>3
<1>3. ASSUME NEW t \in Specs, NEW n \in BOOLEAN, StartMerge(t, n) PROVE MergeTypeOK'
  BY <1>3, MergeAssumption DEF StartMerge, MayAsk, At, gitVars, history
<1>4. ASSUME NEW t \in Specs, CheckConflicts(t) PROVE MergeTypeOK'
  BY <1>4, MergeAssumption DEF CheckConflicts, At, GoesTo, gitVars, history
<1>5. ASSUME NEW t \in Specs, TryMerge(t) PROVE MergeTypeOK'
  BY <1>5, MergeAssumption DEF TryMerge, At, GoesTo, Stages, Aborts
<1>6. ASSUME NEW t \in Specs, MergeWorktree(t) PROVE MergeTypeOK'
  BY <1>6, MergeAssumption DEF MergeWorktree, At, GoesTo, Answered, NoRequest, Stages, Merges, Aborts
<1>7. ASSUME NEW t \in Specs, MergeTimesOut(t) PROVE MergeTypeOK'
  BY <1>7, MergeAssumption DEF MergeTimesOut, Answered, NoRequest, gitVars, history
<1>8. ASSUME NEW t \in Specs, HandleExit(t) PROVE MergeTypeOK'
  BY <1>8, HandleExitMoves
<1>9. ASSUME NEW t \in Specs, CleanUp(t) PROVE MergeTypeOK'
  BY <1>9, MergeAssumption DEF CleanUp, At, GoesTo, Removed, gitVars, history
<1>10. ASSUME NEW t \in Specs, SavePlan(t) PROVE MergeTypeOK'
  BY <1>10, MergeAssumption DEF SavePlan, At, Answered, NoRequest, gitVars, history
<1>11. ASSUME NEW t \in Specs, Discard(t) PROVE MergeTypeOK'
  BY <1>11, MergeAssumption DEF Discard, At, MayAsk, Removed
<1>12. ASSUME NEW t \in Specs, DeleteWorktreeAndMarkDone(t) PROVE MergeTypeOK'
  BY <1>12, MergeAssumption DEF DeleteWorktreeAndMarkDone, At, MayAsk, Removed, history
<1>13. ASSUME NEW t \in Specs, ClearStagedState(t) PROVE MergeTypeOK'
  BY <1>13, MergeAssumption DEF ClearStagedState, MayAsk, gitVars, history
<1>14. CASE CommitStaged
  BY <1>14, MergeAssumption DEF CommitStaged, MayAsk, history
<1>15. CASE AppQuits
  BY <1>15, MergeAssumption DEF AppQuits, NoRequest, gitVars, history
<1>16. CASE UNCHANGED mergeVars
  BY <1>16, MergeAssumption DEF mergeVars, gitVars, history
<1>17. ASSUME NEW t \in Specs, RejectReview(t) PROVE MergeTypeOK'
  BY <1>17, MergeAssumption DEF RejectReview, At, MayAsk
<1> QED
  BY <1>1, <1>2, <1>3, <1>4, <1>5, <1>6, <1>7, <1>8, <1>9, <1>10,
     <1>11, <1>12, <1>13, <1>14, <1>15, <1>16, <1>17 DEF MergeNext

------------------------------------------------------------------------------
(* Safety.                                                                 *)

\* What let a branch be deleted stays true of it until then.
LEMMA StepKept ==
  ASSUME MergeTypeOK, GitTyped, GitTyped', MergedIsKept, WorkKept, [MergeNext]_mergeVars
  PROVE  MergedIsKept'
<1> USE DEF MergedIsKept, Kept, GitTyped, Requests, InHandler
<1>1. ASSUME NEW t \in Specs, CreateWorktree(t) PROVE MergedIsKept'
  BY <1>1 DEF CreateWorktree, history
<1>2. ASSUME NEW t \in Specs, Commit(t) PROVE MergedIsKept'
  BY <1>2 DEF Commit, At
<1>3. ASSUME NEW t \in Specs, NEW n \in BOOLEAN, StartMerge(t, n) PROVE MergedIsKept'
  BY <1>3 DEF StartMerge, MayAsk, At, gitVars, history
<1>4. ASSUME NEW t \in Specs, CheckConflicts(t) PROVE MergedIsKept'
  BY <1>4 DEF CheckConflicts, At, GoesTo, gitVars, history
<1>5. ASSUME NEW t \in Specs, TryMerge(t) PROVE MergedIsKept'
  BY <1>5 DEF TryMerge, At, GoesTo, Stages, Aborts
<1>6. ASSUME NEW t \in Specs, MergeWorktree(t) PROVE MergedIsKept'
  BY <1>6 DEF MergeWorktree, At, GoesTo, Answered, NoRequest, Stages, Merges, Aborts
<1>7. ASSUME NEW t \in Specs, MergeTimesOut(t) PROVE MergedIsKept'
  BY <1>7 DEF MergeTimesOut, Answered, NoRequest, gitVars, history
<1>8. ASSUME NEW t \in Specs, HandleExit(t) PROVE MergedIsKept'
  BY <1>8, HandleExitMoves
<1>9. ASSUME NEW t \in Specs, CleanUp(t) PROVE MergedIsKept'
  BY <1>9, CleanUpRemoves
<1>10. ASSUME NEW t \in Specs, SavePlan(t) PROVE MergedIsKept'
  BY <1>10 DEF SavePlan, At, Answered, NoRequest, gitVars, history
<1>11. ASSUME NEW t \in Specs, Discard(t) PROVE MergedIsKept'
  BY <1>11 DEF Discard, At, MayAsk, Removed
<1>12. ASSUME NEW t \in Specs, DeleteWorktreeAndMarkDone(t) PROVE MergedIsKept'
  BY <1>12 DEF DeleteWorktreeAndMarkDone, At, MayAsk, Removed, history
<1>13. ASSUME NEW t \in Specs, ClearStagedState(t) PROVE MergedIsKept'
  BY <1>13 DEF ClearStagedState, MayAsk, gitVars, history
<1>14. CASE CommitStaged
  BY <1>14 DEF CommitStaged, MayAsk, history
<1>15. CASE AppQuits
  BY <1>15 DEF AppQuits, NoRequest, gitVars, history
<1>16. CASE UNCHANGED mergeVars
  BY <1>16 DEF mergeVars, gitVars, history
<1>17. ASSUME NEW t \in Specs, RejectReview(t) PROVE MergedIsKept'
  BY <1>17 DEF RejectReview, At, MayAsk
<1> QED
  BY <1>1, <1>2, <1>3, <1>4, <1>5, <1>6, <1>7, <1>8, <1>9, <1>10,
     <1>11, <1>12, <1>13, <1>14, <1>15, <1>16, <1>17 DEF MergeNext

\* A request brings in what was on the branch when the user asked.
LEMMA StepCarries ==
  ASSUME MergeTypeOK, GitTyped, GitTyped', RequestCarries, [MergeNext]_mergeVars
  PROVE  RequestCarries'
<1> USE DEF RequestCarries, GitTyped, Requests
<1>1. ASSUME NEW t \in Specs, CreateWorktree(t) PROVE RequestCarries'
  BY <1>1 DEF CreateWorktree, history
<1>2. ASSUME NEW t \in Specs, Commit(t) PROVE RequestCarries'
  BY <1>2 DEF Commit, At
<1>3. ASSUME NEW t \in Specs, NEW n \in BOOLEAN, StartMerge(t, n) PROVE RequestCarries'
  BY <1>3 DEF StartMerge, MayAsk, At, gitVars, history
<1>4. ASSUME NEW t \in Specs, CheckConflicts(t) PROVE RequestCarries'
  BY <1>4 DEF CheckConflicts, At, GoesTo, gitVars, history
<1>5. ASSUME NEW t \in Specs, TryMerge(t) PROVE RequestCarries'
  BY <1>5 DEF TryMerge, At, GoesTo, Stages, Aborts
<1>6. ASSUME NEW t \in Specs, MergeWorktree(t) PROVE RequestCarries'
  BY <1>6 DEF MergeWorktree, At, GoesTo, Answered, NoRequest, Stages, Merges, Aborts
<1>7. ASSUME NEW t \in Specs, MergeTimesOut(t) PROVE RequestCarries'
  BY <1>7 DEF MergeTimesOut, Answered, NoRequest, gitVars, history
<1>8. ASSUME NEW t \in Specs, HandleExit(t) PROVE RequestCarries'
  BY <1>8, HandleExitMoves DEF InHandler
<1>9. ASSUME NEW t \in Specs, CleanUp(t) PROVE RequestCarries'
  BY <1>9 DEF CleanUp, At, GoesTo, Removed, gitVars, history
<1>10. ASSUME NEW t \in Specs, SavePlan(t) PROVE RequestCarries'
  BY <1>10 DEF SavePlan, At, Answered, NoRequest, gitVars, history
<1>11. ASSUME NEW t \in Specs, Discard(t) PROVE RequestCarries'
  BY <1>11 DEF Discard, At, MayAsk, Removed
<1>12. ASSUME NEW t \in Specs, DeleteWorktreeAndMarkDone(t) PROVE RequestCarries'
  BY <1>12 DEF DeleteWorktreeAndMarkDone, At, MayAsk, Removed, history
<1>13. ASSUME NEW t \in Specs, ClearStagedState(t) PROVE RequestCarries'
  BY <1>13 DEF ClearStagedState, MayAsk, gitVars, history
<1>14. CASE CommitStaged
  BY <1>14 DEF CommitStaged, MayAsk, history
<1>15. CASE AppQuits
  BY <1>15 DEF AppQuits, NoRequest, gitVars, history
<1>16. CASE UNCHANGED mergeVars
  BY <1>16 DEF mergeVars, gitVars, history
<1>17. ASSUME NEW t \in Specs, RejectReview(t) PROVE RequestCarries'
  BY <1>17 DEF RejectReview, At, MayAsk
<1> QED
  BY <1>1, <1>2, <1>3, <1>4, <1>5, <1>6, <1>7, <1>8, <1>9, <1>10,
     <1>11, <1>12, <1>13, <1>14, <1>15, <1>16, <1>17 DEF MergeNext

\* No step loses a commit.
LEMMA StepWork ==
  ASSUME MergeTypeOK, GitTyped, GitTyped', MergedIsKept, WorkKept, [MergeNext]_mergeVars
  PROVE  WorkKept'
<1> USE DEF MergedIsKept, WorkKept, Kept, GitTyped, Requests, InHandler
<1>1. ASSUME NEW t \in Specs, CreateWorktree(t) PROVE WorkKept'
  BY <1>1 DEF CreateWorktree, history
<1>2. ASSUME NEW t \in Specs, Commit(t) PROVE WorkKept'
  BY <1>2 DEF Commit, At
<1>3. ASSUME NEW t \in Specs, NEW n \in BOOLEAN, StartMerge(t, n) PROVE WorkKept'
  BY <1>3 DEF StartMerge, MayAsk, At, gitVars, history
<1>4. ASSUME NEW t \in Specs, CheckConflicts(t) PROVE WorkKept'
  BY <1>4 DEF CheckConflicts, At, GoesTo, gitVars, history
<1>5. ASSUME NEW t \in Specs, TryMerge(t) PROVE WorkKept'
  BY <1>5 DEF TryMerge, At, GoesTo, Stages, Aborts
<1>6. ASSUME NEW t \in Specs, MergeWorktree(t) PROVE WorkKept'
  BY <1>6 DEF MergeWorktree, At, GoesTo, Answered, NoRequest, Stages, Merges, Aborts
<1>7. ASSUME NEW t \in Specs, MergeTimesOut(t) PROVE WorkKept'
  BY <1>7 DEF MergeTimesOut, Answered, NoRequest, gitVars, history
<1>8. ASSUME NEW t \in Specs, HandleExit(t) PROVE WorkKept'
  BY <1>8, HandleExitMoves
<1>9. ASSUME NEW t \in Specs, CleanUp(t) PROVE WorkKept'
  BY <1>9, CleanUpRemoves
<1>10. ASSUME NEW t \in Specs, SavePlan(t) PROVE WorkKept'
  BY <1>10 DEF SavePlan, At, Answered, NoRequest, gitVars, history
<1>11. ASSUME NEW t \in Specs, Discard(t) PROVE WorkKept'
  BY <1>11 DEF Discard, At, MayAsk, Removed
<1>12. ASSUME NEW t \in Specs, DeleteWorktreeAndMarkDone(t) PROVE WorkKept'
  BY <1>12 DEF DeleteWorktreeAndMarkDone, At, MayAsk, Removed, history
<1>13. ASSUME NEW t \in Specs, ClearStagedState(t) PROVE WorkKept'
  BY <1>13 DEF ClearStagedState, MayAsk, gitVars, history
<1>14. CASE CommitStaged
  BY <1>14 DEF CommitStaged, MayAsk, history
<1>15. CASE AppQuits
  BY <1>15 DEF AppQuits, NoRequest, gitVars, history
<1>16. CASE UNCHANGED mergeVars
  BY <1>16 DEF mergeVars, gitVars, history
<1>17. ASSUME NEW t \in Specs, RejectReview(t) PROVE WorkKept'
  BY <1>17 DEF RejectReview, At, MayAsk
<1> QED
  BY <1>1, <1>2, <1>3, <1>4, <1>5, <1>6, <1>7, <1>8, <1>9, <1>10,
     <1>11, <1>12, <1>13, <1>14, <1>15, <1>16, <1>17 DEF MergeNext

\* Nor does one get to cleaning up before the work is committed.
LEMMA StepCommitted ==
  ASSUME MergeTypeOK, GitTyped, GitTyped', RequestCarries, MergedIsCommitted, [MergeNext]_mergeVars
  PROVE  MergedIsCommitted'
<1> USE DEF RequestCarries, MergedIsCommitted, GitTyped, Requests, InHandler
<1>1. ASSUME NEW t \in Specs, CreateWorktree(t) PROVE MergedIsCommitted'
  BY <1>1 DEF CreateWorktree, history
<1>2. ASSUME NEW t \in Specs, Commit(t) PROVE MergedIsCommitted'
  BY <1>2 DEF Commit, At
<1>3. ASSUME NEW t \in Specs, NEW n \in BOOLEAN, StartMerge(t, n) PROVE MergedIsCommitted'
  BY <1>3 DEF StartMerge, MayAsk, At, gitVars, history
<1>4. ASSUME NEW t \in Specs, CheckConflicts(t) PROVE MergedIsCommitted'
  BY <1>4 DEF CheckConflicts, At, GoesTo, gitVars, history
<1>5. ASSUME NEW t \in Specs, TryMerge(t) PROVE MergedIsCommitted'
  BY <1>5 DEF TryMerge, At, GoesTo, Stages, Aborts
<1>6. ASSUME NEW t \in Specs, MergeWorktree(t) PROVE MergedIsCommitted'
  BY <1>6 DEF MergeWorktree, At, GoesTo, Answered, NoRequest, Stages, Merges, Aborts
<1>7. ASSUME NEW t \in Specs, MergeTimesOut(t) PROVE MergedIsCommitted'
  BY <1>7 DEF MergeTimesOut, Answered, NoRequest, gitVars, history
<1>8. ASSUME NEW t \in Specs, HandleExit(t) PROVE MergedIsCommitted'
  BY <1>8, HandleExitMoves
<1>9. ASSUME NEW t \in Specs, CleanUp(t) PROVE MergedIsCommitted'
  BY <1>9, CleanUpRemoves
<1>10. ASSUME NEW t \in Specs, SavePlan(t) PROVE MergedIsCommitted'
  BY <1>10 DEF SavePlan, At, Answered, NoRequest, gitVars, history
<1>11. ASSUME NEW t \in Specs, Discard(t) PROVE MergedIsCommitted'
  BY <1>11 DEF Discard, At, MayAsk, Removed
<1>12. ASSUME NEW t \in Specs, DeleteWorktreeAndMarkDone(t) PROVE MergedIsCommitted'
  BY <1>12 DEF DeleteWorktreeAndMarkDone, At, MayAsk, Removed, history
<1>13. ASSUME NEW t \in Specs, ClearStagedState(t) PROVE MergedIsCommitted'
  BY <1>13 DEF ClearStagedState, MayAsk, gitVars, history
<1>14. CASE CommitStaged
  BY <1>14 DEF CommitStaged, MayAsk, history
<1>15. CASE AppQuits
  BY <1>15 DEF AppQuits, NoRequest, gitVars, history
<1>16. CASE UNCHANGED mergeVars
  BY <1>16 DEF mergeVars, gitVars, history
<1>17. ASSUME NEW t \in Specs, RejectReview(t) PROVE MergedIsCommitted'
  BY <1>17 DEF RejectReview, At, MayAsk
<1> QED
  BY <1>1, <1>2, <1>3, <1>4, <1>5, <1>6, <1>7, <1>8, <1>9, <1>10,
     <1>11, <1>12, <1>13, <1>14, <1>15, <1>16, <1>17 DEF MergeNext

------------------------------------------------------------------------------
(* The theorems.                                                           *)

\* The invariant the theorems follow from is inductive.
LEMMA MergeInvariant == MergeSpec => []MergeIInv
<1>1. MergeInit => MergeIInv
  <2> SUFFICES ASSUME MergeInit PROVE MergeIInv
    OBVIOUS
  <2>1. MergeTypeOK /\ GitTyped
    BY InitTyped
  <2>2. MergedIsKept /\ RequestCarries /\ WorkKept /\ MergedIsCommitted
    BY DEF MergeInit, NoRequest, MergedIsKept, RequestCarries, WorkKept, MergedIsCommitted, InHandler
  <2> QED BY <2>1, <2>2 DEF MergeIInv
<1>2. MergeIInv /\ [MergeNext]_mergeVars => MergeIInv'
  <2> SUFFICES ASSUME MergeIInv, [MergeNext]_mergeVars PROVE MergeIInv'
    OBVIOUS
  <2> USE DEF MergeIInv
  <2>1. GitTyped'
    BY StepTyped
  <2>2. MergeTypeOK'
    BY <2>1, StepTypeOK
  <2>3. MergedIsKept'
    BY <2>1, StepKept
  <2>4. RequestCarries'
    BY <2>1, StepCarries
  <2>5. WorkKept'
    BY <2>1, StepWork
  <2>6. MergedIsCommitted'
    BY <2>1, StepCommitted
  <2> QED BY <2>1, <2>2, <2>3, <2>4, <2>5, <2>6
<1> QED BY <1>1, <1>2, PTL DEF MergeSpec

\* Type correctness: the commits on a branch are the task's own, all others are
\* known commits, and a merge is not staged of what is committed already.
THEOREM MergeTypes == MergeSpec => []MergeTypeOK
BY MergeInvariant, PTL DEF MergeIInv

\* No commit of a task is lost, with any number of tasks whose merges, time-outs
\* and clean-ups overlap, but for the three kinds WorkKept excepts.
THEOREM NoWorkLost == MergeSpec => []WorkKept
BY MergeInvariant, PTL DEF MergeIInv

\* A full merge has the branch of a task deleted only when all that was on it at
\* the request is committed in the project.
THEOREM DeletedIsMerged == MergeSpec => []MergedIsCommitted
BY MergeInvariant, PTL DEF MergeIInv

==============================================================================
