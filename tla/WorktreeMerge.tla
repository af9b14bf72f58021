---------------------------- MODULE WorktreeMerge ----------------------------
(***************************************************************************)
(* How the work of a task gets from its worktree into the project: the     *)
(* merge the user asks for (worktree-handlers.ts), the process that does   *)
(* it (core/workspace.py, core/worktree.py), what is deleted afterwards,   *)
(* and the user who commits what is staged, discards, or marks as done.    *)
(*                                                                         *)
(* A commit is a pair of its task and a number.  All tasks are merged into *)
(* the branch that is checked out in the project, whose index they share.  *)
(* The AI resolution of conflicts is left out: it is for files git         *)
(* merge-tree names in a line with CONFLICT, and with --no-messages there  *)
(* is no such line.  Left out as well: changes that were not committed in  *)
(* the worktree, and a second request for a task while one is under way.   *)
(***************************************************************************)
EXTENDS Integers, FiniteSets

CONSTANTS
  Specs,       \* tasks with a worktree
  MaxCommits,  \* bound: commits of all tasks together
  MaxRequests  \* bound: on what the user does

ASSUME MergeAssumption == MaxCommits \in Nat /\ MaxRequests \in Nat

VARIABLES
  misjudged,   \* the verdict of merge-tree is none: git does not know --write-tree, or the
               \* conflict it found is gone when git merges
  worktrees,   \* tasks whose worktree exists, and with it the branch auto-claude/{spec}
  branch,      \* the commits of a task on its branch
  head,        \* the commits in the project's branch
  mergeHead,   \* MERGE_HEAD: the commits of a merge that is staged, none without one
  merge,       \* the request of a task: where it is
  flagged,     \* stagedInMainProject
  written,     \* history: all commits
  overtaken,   \* history: commits the user discarded, or made after the merge began
               \* that was to bring them in
  dropped,     \* history: commits of a staged merge that was aborted, or cleaned away
  requests     \* what the user did so far

gitVars   == <<worktrees, branch, head, mergeHead>>
history   == <<written, overtaken, dropped>>
mergeVars == <<misjudged, gitVars, merge, flagged, history, requests>>

NoRequest == [at |-> "idle", noCommit |-> FALSE, staged |-> FALSE, carried |-> {}]

\* Where a request is: in the process that merges, or back in the handler.
InProcess == {"checking", "trying", "merging", "exited"}
InHandler == {"cleaning", "saving"}

At(t, place)  == merge[t].at = place
GoesTo(t, place) == merge' = [merge EXCEPT ![t].at = place]
Answered(t)      == merge' = [merge EXCEPT ![t] = NoRequest]

MayAsk == requests < MaxRequests /\ requests' = requests + 1

Commits(t) == {c \in written : c[1] = t}

------------------------------------------------------------------------------
(* The agents.                                                             *)

\* get_or_create_worktree, when the task is started again.
CreateWorktree(t) ==
  /\ t \notin worktrees
  /\ worktrees' = worktrees \cup {t}
  /\ UNCHANGED <<misjudged, branch, head, mergeHead, merge, flagged, history, requests>>

\* The agent of a task commits, also of one whose review the user rejected just now.
Commit(t) ==
  /\ t \in worktrees /\ Cardinality(written) < MaxCommits
  /\ LET c == <<t, Cardinality(written) + 1>>
     IN /\ written' = written \cup {c}
        /\ branch' = [branch EXCEPT ![t] = @ \cup {c}]
        /\ overtaken' = IF At(t, "idle") /\ t \notin flagged THEN overtaken ELSE overtaken \cup {c}
  /\ UNCHANGED <<misjudged, worktrees, head, mergeHead, merge, flagged, dropped, requests>>

------------------------------------------------------------------------------
(* The process.                                                            *)

\* TASK_WORKTREE_MERGE, up to the process.  Without a worktree it would end at
\* once, and so does a request to stage if anything is staged.
StartMerge(t, noCommit) ==
  /\ MayAsk /\ At(t, "idle") /\ t \in worktrees
  /\ noCommit => mergeHead = {}
  /\ merge' = [merge EXCEPT ![t] = [at |-> "checking", noCommit |-> noCommit,
                                    staged |-> FALSE, carried |-> branch[t]]]
  /\ UNCHANGED <<misjudged, gitVars, flagged, history>>

\* _check_git_conflicts.  An exit code without CONFLICT lines counts as branches
\* that diverged without a conflict, and an old git always exits with one.  What the
\* analysis finds after that leads to a plain git merge in any case.
CheckConflicts(t) ==
  /\ At(t, "checking")
  /\ \/ GoesTo(t, "trying")
     \/ GoesTo(t, "merging")
  /\ UNCHANGED <<misjudged, gitVars, flagged, history, requests>>

\* Fault: what is merged already is staged once more.
StagesAll(t) ==
  /\ mergeHead = {} /\ t \in worktrees
  /\ mergeHead' = branch[t]
  /\ UNCHANGED <<worktrees, branch, head, dropped>>

\* git merge --no-commit, and git merge.  There is nothing to do for an old branch.
Stages(t) ==
  /\ mergeHead = {} /\ t \in worktrees
  /\ mergeHead' = branch[t] \ head
  /\ UNCHANGED <<worktrees, branch, head, dropped>>

Merges(t) ==
  /\ mergeHead = {} /\ t \in worktrees
  /\ head' = head \cup branch[t]
  /\ UNCHANGED <<worktrees, branch, mergeHead, dropped>>

\* A conflict, a hook, or a merge that is not concluded: git merge --abort follows,
\* whoever's merge it is that git aborts then.
Aborts(t) ==
  /\ mergeHead' = {} /\ dropped' = dropped \cup mergeHead
  /\ UNCHANGED <<worktrees, branch, head>>

\* Fault: the changes are staged although the merge reported a conflict.
TryMergeAnyway(t) ==
  /\ At(t, "trying")
  /\ \/ Stages(t) /\ GoesTo(t, "exited")
     \/ Aborts(t) /\ GoesTo(t, "merging")
  /\ UNCHANGED <<misjudged, flagged, written, overtaken, requests>>

\* _try_smart_merge_inner for diverged branches: a merge that is staged only.  The
\* conflict merge-tree found is there again, but for a verdict that is none.
TryMerge(t) ==
  /\ At(t, "trying")
  /\ \/ misjudged /\ Stages(t) /\ GoesTo(t, "exited")
     \/ Aborts(t) /\ GoesTo(t, "merging")
  /\ UNCHANGED <<misjudged, flagged, written, overtaken, requests>>

\* Fault: the process ends with code 0 whatever merge_worktree returns.
MergeWorktreeAnyway(t) ==
  /\ At(t, "merging")
  /\ \/ merge[t].noCommit /\ Stages(t)
     \/ ~merge[t].noCommit /\ Merges(t)
     \/ Aborts(t)
  /\ GoesTo(t, "exited")
  /\ UNCHANGED <<misjudged, flagged, written, overtaken, requests>>

\* merge_worktree; exit code 1 is only answered.
MergeWorktree(t) ==
  /\ At(t, "merging")
  /\ \/ merge[t].noCommit /\ Stages(t) /\ GoesTo(t, "exited")
     \/ ~merge[t].noCommit /\ Merges(t) /\ GoesTo(t, "exited")
     \/ Aborts(t) /\ Answered(t)
  /\ UNCHANGED <<misjudged, flagged, written, overtaken, requests>>

------------------------------------------------------------------------------
(* The handler again.                                                      *)

\* Ten minutes are over, maybe while a commit message is written: the process is
\* killed, and the answer depends on its output.
MergeTimesOut(t) ==
  /\ merge[t].at \in InProcess
  /\ Answered(t)
  /\ UNCHANGED <<misjudged, gitVars, flagged, history, requests>>

\* handleProcessExit, exit code 0.  git diff --staged tells whether to flag the task.
HandleExit(t) ==
  /\ At(t, "exited")
  /\ merge' = IF merge[t].noCommit
              THEN [merge EXCEPT ![t].at = "saving", ![t].staged = mergeHead # {}]
              ELSE [merge EXCEPT ![t].at = "cleaning"]
  /\ UNCHANGED <<misjudged, gitVars, flagged, history, requests>>

\* cleanupWorktree: the directory, then git branch -D, which may fail.
Removed(t) ==
  /\ worktrees' = worktrees \ {t}
  /\ \E left \in {{}, branch[t]} : branch' = [branch EXCEPT ![t] = left]
  /\ UNCHANGED <<head, mergeHead>>

\* After a full merge; a directory that cannot be deleted is not fatal.
CleanUp(t) ==
  /\ At(t, "cleaning")
  /\ Removed(t) \/ UNCHANGED gitVars
  /\ GoesTo(t, "saving")
  /\ UNCHANGED <<misjudged, flagged, history, requests>>

\* The plan is written and the machine told.
SavePlan(t) ==
  /\ At(t, "saving")
  /\ flagged' = IF merge[t].staged THEN flagged \cup {t} ELSE flagged
  /\ Answered(t)
  /\ UNCHANGED <<misjudged, gitVars, history, requests>>

\* The application ends, and with it the pipe of the processes.
AppQuits ==
  /\ merge' = [t \in Specs |-> NoRequest]
  /\ UNCHANGED <<misjudged, gitVars, flagged, history, requests>>

------------------------------------------------------------------------------
(* The user, who cannot act on a task in the dialog that merges it.        *)

CommitStaged ==
  /\ MayAsk /\ mergeHead # {}
  /\ head' = head \cup mergeHead /\ mergeHead' = {}
  /\ UNCHANGED <<misjudged, worktrees, branch, merge, flagged, history>>

\* TASK_WORKTREE_DISCARD, or "done" for a task whose worktree the user agrees to delete.
Discard(t) ==
  /\ MayAsk /\ At(t, "idle") /\ t \in worktrees
  /\ Removed(t)
  /\ overtaken' = overtaken \cup branch[t]
  /\ UNCHANGED <<misjudged, merge, flagged, written, dropped>>

\* Offered for a flagged task, whose changes "have been staged in your main project".
DeleteWorktreeAndMarkDone(t) ==
  /\ MayAsk /\ At(t, "idle") /\ t \in worktrees /\ t \in flagged
  /\ Removed(t)
  /\ UNCHANGED <<misjudged, merge, flagged, history>>

\* TASK_REVIEW, rejected: git reset HEAD, checkout -- . and clean in the project,
\* whoever's changes are staged there; nobody is told.
RejectReview(t) ==
  /\ MayAsk /\ At(t, "idle") /\ t \in worktrees
  /\ mergeHead' = {} /\ dropped' = dropped \cup mergeHead
  /\ UNCHANGED <<misjudged, worktrees, branch, head, merge, flagged, written, overtaken>>

\* "Review again": TASK_CLEAR_STAGED_STATE.
ClearStagedState(t) ==
  /\ MayAsk /\ At(t, "idle") /\ t \in worktrees /\ t \in flagged
  /\ flagged' = flagged \ {t}
  /\ UNCHANGED <<misjudged, gitVars, merge, history>>

------------------------------------------------------------------------------
MergeInit ==
  /\ misjudged \in BOOLEAN
  /\ worktrees = Specs /\ branch = [t \in Specs |-> {}]
  /\ head = {} /\ mergeHead = {}
  /\ merge = [t \in Specs |-> NoRequest]
  /\ flagged = {} /\ requests = 0
  /\ written = {} /\ overtaken = {} /\ dropped = {}

MergeNext ==
  \/ \E t \in Specs :
       \/ CreateWorktree(t) \/ Commit(t)
       \/ StartMerge(t, TRUE) \/ StartMerge(t, FALSE)
       \/ CheckConflicts(t) \/ TryMerge(t) \/ MergeWorktree(t) \/ MergeTimesOut(t)
       \/ HandleExit(t) \/ CleanUp(t) \/ SavePlan(t)
       \/ Discard(t) \/ RejectReview(t)
       \/ DeleteWorktreeAndMarkDone(t) \/ ClearStagedState(t)
  \/ CommitStaged \/ AppQuits

MergeSpec == MergeInit /\ [][MergeNext]_mergeVars

------------------------------------------------------------------------------
MergeTypeOK ==
  /\ misjudged \in BOOLEAN
  /\ worktrees \subseteq Specs /\ flagged \subseteq Specs /\ requests \in 0..MaxRequests
  /\ \A t \in Specs :
       /\ branch[t] \subseteq Commits(t)
       /\ merge[t].at \in {"idle"} \cup InProcess \cup InHandler
       /\ merge[t].carried \subseteq Commits(t)
  /\ written \subseteq Specs \X (1..MaxCommits)
  /\ head \cup mergeHead \cup overtaken \cup dropped \subseteq written
  /\ head \cap mergeHead = {}

\* No commit of a task is lost: it is on the task's branch, staged in the project
\* or merged, however merges of several tasks, time-outs, restarts and the user's
\* cleaning up overlap.  But for what the user discards, what was committed after
\* the merge began that let the branch be deleted, and what was only staged when
\* a merge that failed or a review that was rejected dropped it.
WorkKept ==
  written \subseteq head \cup mergeHead \cup (UNION {branch[t] : t \in Specs})
                    \cup overtaken \cup dropped

\* When a full merge has the worktree and the branch deleted, all that was on the
\* branch when the user asked for it is committed; but if what merge-tree said does
\* not hold for the merge, it is staged at best.
MergedIsCommitted ==
  \A t \in Specs :
    ~misjudged /\ merge[t].at \in InHandler /\ ~merge[t].noCommit => merge[t].carried \subseteq head

\* "This task's changes have been staged in your main project" of a flagged task:
\* they are still, or are committed by now, but for what came after.
StagedIsStaged ==
  \A t \in flagged : branch[t] \ overtaken \subseteq head \cup mergeHead

==============================================================================
