------------------------------ MODULE TaskQueue ------------------------------
(***************************************************************************)
(* The queue of the board: at most maxParallelTasks tasks are in progress, *)
(* the others wait in the column "queue" (KanbanBoard.tsx, task-store.ts). *)
(*                                                                         *)
(* The store follows the main process: a change the board asks for is      *)
(* applied when the answer comes, a start when its first status comes, and *)
(* every check of the capacity was made before.  processQueue runs from    *)
(* one await to the next, and again whenever a task leaves "in_progress".  *)
(***************************************************************************)
EXTENDS Integers, FiniteSets, FiniteSetsExt

CONSTANTS
  Tasks,                     \* in the order of their creation
  maxParallelTasks,
  MAX_CONSECUTIVE_FAILURES,
  MaxAsked,                  \* bound: what the user asks for
  MaxRefused                 \* bound: changes and starts that fail

ASSUME QueueAssumption ==
  /\ Tasks \subseteq Nat /\ IsFiniteSet(Tasks)
  /\ maxParallelTasks \in Nat \ {0} /\ MAX_CONSECUTIVE_FAILURES \in Nat \ {0}
  /\ MaxAsked \in Nat /\ MaxRefused \in Nat

VARIABLES
  status,       \* the column of a task
  moves,        \* changes asked for by hand and not answered: <<task, column>>
  starts,       \* tasks started whose status did not come yet
  pass,         \* processQueue: the task it asked for, or none, and what failed
  queueing,     \* the tasks handleQueueAll has still to move, or nothing
  oversold,     \* history: the capacity was checked while a request to run was open
  passedOver,   \* history: loaded, or queued by hand, after the last pass, or failed in it
  asked, refused

queueVars == <<status, moves, starts, pass, queueing, oversold, passedOver, asked, refused>>

Columns == {"backlog", "queue", "in_progress", "settled"}
None    == -1
Idle    == [busy |-> FALSE, next |-> None, attempted |-> {}, failures |-> 0]

NotQueueing == {None}

In(column, st)  == {t \in Tasks : st[t] = column}

\* Fault: off by one.
OverFull(st, exclude) == Cardinality(In("in_progress", st) \ exclude) > maxParallelTasks

\* isQueueAtCapacity, and the same test of processQueue.
Full(st, exclude) == Cardinality(In("in_progress", st) \ exclude) >= maxParallelTasks

\* Requests to run a task that are under way.
Opened == starts \cup {m[1] : m \in {n \in moves : n[2] = "in_progress"}} \cup ({pass.next} \ {None})

------------------------------------------------------------------------------
(* processQueue.                                                           *)

\* Fault: one task for each call.
LoopsOnce(st, attempted, failures) ==
  LET waiting == In("queue", st) \ attempted
  IN IF Full(st, {}) \/ waiting = {} \/ pass.busy THEN Idle
     ELSE [busy |-> TRUE, next |-> Min(waiting), attempted |-> attempted, failures |-> failures]

\* Fault: one failure too many.
LoopsTooLong(st, attempted, failures) ==
  LET waiting == In("queue", st) \ attempted
  IN IF Full(st, {}) \/ waiting = {} \/ failures > MAX_CONSECUTIVE_FAILURES THEN Idle
     ELSE [busy |-> TRUE, next |-> Min(waiting), attempted |-> attempted, failures |-> failures]

\* An iteration up to its await: the oldest waiting task, if there is room.
Loops(st, attempted, failures) ==
  LET waiting == In("queue", st) \ attempted
  IN IF Full(st, {}) \/ waiting = {} \/ failures >= MAX_CONSECUTIVE_FAILURES THEN Idle
     ELSE [busy |-> TRUE, next |-> Min(waiting), attempted |-> attempted, failures |-> failures]

\* A call, which does nothing while another one is at work.
ProcessQueue(st) ==
  IF pass.busy THEN UNCHANGED <<pass, oversold, passedOver>>
  ELSE /\ pass' = Loops(st, {}, 0) /\ passedOver' = {}
       /\ oversold' = (oversold \/ (pass'.busy /\ Opened # {}))

\* updateTaskStatus of the store.
Applied(t, column) == status' = [status EXCEPT ![t] = column]

\* The listener: whatever moves a task out of "in_progress" calls processQueue.
Listened(t, column) ==
  IF status[t] = "in_progress" /\ column # "in_progress" THEN ProcessQueue(status')
  ELSE /\ UNCHANGED <<pass, oversold>>
       /\ passedOver' = IF column = "queue" /\ ~pass.busy THEN passedOver \cup {t} ELSE passedOver \ {t}

\* The promotion succeeded, and the loop goes on.
Promoted ==
  /\ pass.busy
  /\ Applied(pass.next, "in_progress")
  /\ pass' = Loops(status', pass.attempted, 0)
  /\ passedOver' = IF pass'.busy THEN {} ELSE pass.attempted
  /\ oversold' = (oversold \/ (pass'.busy /\ (Opened \ {pass.next}) # {}))
  /\ UNCHANGED <<moves, starts, queueing, asked, refused>>

\* It failed: the task is not tried again in this pass, though the machine may
\* have resumed it before.
NotPromoted ==
  /\ pass.busy /\ refused < MaxRefused /\ refused' = refused + 1
  /\ starts' \in {starts, starts \cup {pass.next}}
  /\ pass' = Loops(status, pass.attempted \cup {pass.next}, pass.failures + 1)
  /\ passedOver' = IF pass'.busy THEN {}
                   ELSE IF pass.failures + 1 >= MAX_CONSECUTIVE_FAILURES THEN In("queue", status)
                   ELSE pass.attempted \cup {pass.next}
  /\ oversold' = (oversold \/ (pass'.busy /\ (starts' \cup (Opened \ {pass.next})) # {}))
  /\ UNCHANGED <<status, moves, queueing, asked>>

------------------------------------------------------------------------------
(* The user.                                                               *)

Asks == asked < MaxAsked /\ asked' = asked + 1

\* handleStatusChange up to its await: a move into a full column goes to the queue.
Drag(t, requested) ==
  LET column == IF requested = "in_progress" /\ Full(status, {t}) THEN "queue" ELSE requested
  IN /\ Asks /\ requested # status[t]
     /\ moves' = moves \cup {<<t, column>>}
     /\ oversold' = (oversold \/ (column = "in_progress" /\ Opened # {}))
     /\ UNCHANGED <<status, starts, pass, queueing, passedOver, refused>>

\* startTaskOrQueue.
StartTaskOrQueue(t) ==
  /\ Asks
  /\ IF Full(status, {t})
     THEN moves' = moves \cup {<<t, "queue">>} /\ UNCHANGED <<starts, oversold>>
     ELSE /\ starts' = starts \cup {t} /\ UNCHANGED moves
          /\ oversold' = (oversold \/ Opened # {})
  /\ UNCHANGED <<status, pass, queueing, passedOver, refused>>

MoveAnswered(m) ==
  /\ m \in moves /\ moves' = moves \ {m}
  /\ Applied(m[1], m[2])
  /\ Listened(m[1], m[2])
  /\ UNCHANGED <<starts, queueing, asked, refused>>

\* The machine may have resumed the task before the start was refused: then its
\* status comes all the same.
MoveRefused(m) ==
  /\ m \in moves /\ moves' = moves \ {m}
  /\ refused < MaxRefused /\ refused' = refused + 1
  /\ starts' \in {starts, starts \cup {t \in {m[1]} : m[2] = "in_progress"}}
  /\ UNCHANGED <<status, pass, queueing, oversold, passedOver, asked>>

\* handleQueueAll: one task after the other, then a pass.
QueueAll ==
  /\ Asks /\ queueing = NotQueueing /\ In("backlog", status) # {}
  /\ queueing' = In("backlog", status)
  /\ UNCHANGED <<status, moves, starts, pass, oversold, passedOver, refused>>

QueueNext ==
  /\ queueing \notin {NotQueueing, {}}
  /\ LET t == Min(queueing)
     IN /\ queueing' = queueing \ {t}
        /\ \/ Applied(t, "queue") /\ Listened(t, "queue") /\ UNCHANGED refused
           \/ /\ refused < MaxRefused /\ refused' = refused + 1
              /\ UNCHANGED <<status, pass, oversold, passedOver>>
  /\ UNCHANGED <<moves, starts, asked>>

QueuedAll ==
  /\ queueing = {} /\ queueing' = NotQueueing
  /\ ProcessQueue(status)
  /\ UNCHANGED <<status, moves, starts, asked, refused>>

------------------------------------------------------------------------------
(* The main process, through the messages about a task.                    *)

StartShown(t) ==
  /\ t \in starts /\ starts' = starts \ {t}
  /\ Applied(t, "in_progress") /\ Listened(t, "in_progress")
  /\ UNCHANGED <<moves, queueing, asked, refused>>

\* The first status of a new actor is that of the machine it restores, which
\* knows no queue.
RestoredShown(t) ==
  /\ t \in Opened /\ status[t] = "queue"
  /\ Applied(t, "backlog") /\ Listened(t, "backlog")
  /\ UNCHANGED <<moves, starts, queueing, asked, refused>>

StartFails(t) ==
  /\ t \in starts /\ starts' = starts \ {t}
  /\ refused < MaxRefused /\ refused' = refused + 1
  /\ UNCHANGED <<status, moves, pass, queueing, oversold, passedOver, asked>>

Settles(t) ==
  /\ status[t] = "in_progress"
  /\ Applied(t, "settled") /\ Listened(t, "settled")
  /\ UNCHANGED <<moves, starts, queueing, asked, refused>>

QueueInit ==
  /\ status \in [Tasks -> {"backlog", "queue"}]
  /\ moves = {} /\ starts = {} /\ pass = Idle /\ queueing = NotQueueing
  /\ oversold = FALSE /\ passedOver = In("queue", status) /\ asked = 0 /\ refused = 0

QueueStep ==
  \/ Promoted \/ NotPromoted \/ QueueAll \/ QueueNext \/ QueuedAll
  \/ \E t \in Tasks :
       \/ StartTaskOrQueue(t) \/ StartShown(t) \/ RestoredShown(t) \/ StartFails(t) \/ Settles(t)
       \/ \E column \in Columns \ {"settled"} :
            Drag(t, column) \/ MoveAnswered(<<t, column>>) \/ MoveRefused(<<t, column>>)

QueueSpec == QueueInit /\ [][QueueStep]_queueVars

------------------------------------------------------------------------------
QueueTypeOK ==
  /\ status \in [Tasks -> Columns]
  /\ moves \subseteq (Tasks \X (Columns \ {"settled"})) /\ starts \subseteq Tasks
  /\ pass.busy = (pass.next \in Tasks) /\ pass.attempted \subseteq Tasks
  /\ pass.failures \in 0..(MAX_CONSECUTIVE_FAILURES - 1)
  /\ queueing = NotQueueing \/ queueing \subseteq Tasks

\* No more tasks than allowed are in progress, or are about to be, unless the
\* capacity was checked while another task was on its way.
CapacityKept ==
  ~oversold => Cardinality(In("in_progress", status) \cup Opened) <= maxParallelTasks

\* No slot stays free while a task waits for it, unless the task was loaded or
\* put into the queue by hand since the last pass, or that pass failed with it.
NoneForgotten ==
  ~pass.busy /\ queueing = NotQueueing /\ ~Full(status, {}) => In("queue", status) \subseteq passedOver

==============================================================================
