--------------------------- MODULE SpecNumberLock ---------------------------
(***************************************************************************)
(* Numbering of new specs: a lock file with the holder's pid, written by   *)
(* the application (utils/spec-number-lock.ts) and by the command line     *)
(* (core/workspace/models.py, whose MergeLock is the same lock), and the   *)
(* handlers of the application that number a spec without it.              *)
(*                                                                         *)
(* A file can be there before its pid is: both write it in two steps.  The *)
(* application is one process that runs from one await to the next without *)
(* another of its handlers in between; commands are processes of their own *)
(* and come between any two steps.                                         *)
(***************************************************************************)
EXTENDS Integers, FiniteSets, FiniteSetsExt

CONSTANTS
  Creators,      \* requests for a new spec
  Mixes,         \* who may ask together
  MaxWaits,      \* bound: checks of the lock within max_wait
  OldSpecs,      \* numbers in use in the project
  OldWorktrees   \* numbers in use in worktrees

Kinds == {"locked", "plain", "cli"}

ASSUME NumbersAssumption ==
  /\ Mixes \subseteq [Creators -> Kinds] /\ MaxWaits \in Nat
  /\ OldSpecs \subseteq Nat /\ IsFiniteSet(OldSpecs)
  /\ OldWorktrees \subseteq Nat /\ IsFiniteSet(OldWorktrees)

VARIABLES
  kind,        \* who asks: "locked" and "plain" handlers, or the "cli"
  at,          \* where the request is
  lockFile,    \* spec-numbering.lock
  waits,       \* how often a request found the lock held
  nextNumber,  \* what get_next_spec_number returned
  created,     \* requests whose directory was created
  epoch,       \* restarts of the application
  broken       \* history: a waiter removed the lock of a request at work

numbersVars == <<kind, at, lockFile, waits, nextNumber, created, epoch, broken>>

Places == {"idle", "trying", "reading", "removing", "waiting", "owning", "holding",
           "numbered", "made", "done", "failed", "dead"}
Over   == {"done", "failed", "dead"}

NoPid  == <<>>
NoLock == [pid |-> NoPid, maker |-> {}]
Locked == lockFile # NoLock

\* process.pid of a request, if it is still running.
Pid(c) == IF kind[c] = "cli" THEN <<"cli", c>> ELSE <<"app", epoch>>

IsProcessRunning(pid) ==
  \/ pid = <<"app", epoch>>
  \/ \E c \in Creators : pid = <<"cli", c>> /\ at[c] \notin Over

\* The requests that passed the lock and did not release it.
AtWork(c) == kind[c] # "plain" /\ at[c] \in {"owning", "holding", "numbered", "made"}

\* The application is between two awaits.
Busy == \E c \in Creators : kind[c] # "cli" /\ at[c] \notin {"idle", "waiting"} \cup Over

Go(c, place) == at' = [at EXCEPT ![c] = place]

------------------------------------------------------------------------------
(* acquire, __enter__.                                                     *)

Begin(c) ==
  /\ at[c] = "idle" /\ (kind[c] # "cli" => ~Busy)
  /\ Go(c, IF kind[c] = "plain" THEN "holding" ELSE "trying")
  /\ UNCHANGED <<kind, lockFile, waits, nextNumber, created, epoch, broken>>

\* The exclusive creation, empty at first.
Create(c) ==
  /\ at[c] = "trying" /\ ~Locked
  /\ lockFile' = [pid |-> NoPid, maker |-> {c}]
  /\ Go(c, "owning")
  /\ UNCHANGED <<kind, waits, nextNumber, created, epoch, broken>>

Found(c) ==
  /\ at[c] = "trying" /\ Locked
  /\ Go(c, "reading")
  /\ UNCHANGED <<kind, lockFile, waits, nextNumber, created, epoch, broken>>

\* Whose lock a waiter takes for stale: a dead process's, and the command line
\* also one without a pid.
Stale(c) == IF lockFile.pid = NoPid THEN kind[c] = "cli" ELSE ~IsProcessRunning(lockFile.pid)

\* A file that vanished was gone at the test of its existence, or at the
\* reading: then the application goes on to remove it, the command line fails.
ReadHolder(c) ==
  /\ at[c] = "reading"
  /\ IF Locked THEN Go(c, IF Stale(c) THEN "removing" ELSE "waiting")
     ELSE \E place \in {"waiting", IF kind[c] = "cli" THEN "failed" ELSE "removing"} : Go(c, place)
  /\ UNCHANGED <<kind, lockFile, waits, nextNumber, created, epoch, broken>>

\* Removes whatever file is there now.
RemoveStale(c) ==
  /\ at[c] = "removing"
  /\ IF Locked
     THEN /\ lockFile' = NoLock /\ Go(c, "trying")
          /\ broken' = (broken \/ \E d \in Creators : AtWork(d))
     ELSE Go(c, IF kind[c] = "cli" THEN "failed" ELSE "waiting") /\ UNCHANGED <<lockFile, broken>>
  /\ UNCHANGED <<kind, waits, nextNumber, created, epoch>>

\* Fault: the time is not looked at.
RetryForEver(c) ==
  /\ at[c] = "waiting" /\ (kind[c] # "cli" => ~Busy)
  /\ Go(c, "trying")
  /\ UNCHANGED <<kind, lockFile, waits, nextNumber, created, epoch, broken>>

\* Fault: the release after a timeout does not ask whether the lock was acquired.
RetryOrRelease(c) ==
  /\ at[c] = "waiting" /\ (kind[c] # "cli" => ~Busy)
  /\ IF waits[c] < MaxWaits
     THEN waits' = [waits EXCEPT ![c] = @ + 1] /\ Go(c, "trying") /\ UNCHANGED lockFile
     ELSE Go(c, "failed") /\ lockFile' = NoLock /\ UNCHANGED waits
  /\ UNCHANGED <<kind, nextNumber, created, epoch, broken>>

\* Fault: one try too many.
RetryOnceMore(c) ==
  /\ at[c] = "waiting" /\ (kind[c] # "cli" => ~Busy)
  /\ IF waits[c] <= MaxWaits
     THEN waits' = [waits EXCEPT ![c] = @ + 1] /\ Go(c, "trying")
     ELSE Go(c, "failed") /\ UNCHANGED waits
  /\ UNCHANGED <<kind, lockFile, nextNumber, created, epoch, broken>>

\* The sleep between two tries, and the timeout.
Retry(c) ==
  /\ at[c] = "waiting" /\ (kind[c] # "cli" => ~Busy)
  /\ IF waits[c] < MaxWaits
     THEN waits' = [waits EXCEPT ![c] = @ + 1] /\ Go(c, "trying")
     ELSE Go(c, "failed") /\ UNCHANGED waits
  /\ UNCHANGED <<kind, lockFile, nextNumber, created, epoch, broken>>

\* The application writes to the file it created, even if it was removed
\* since; the command line opens it by name, and creates it again.
WritePid(c) ==
  /\ at[c] = "owning"
  /\ lockFile' =
       IF kind[c] = "cli"
       THEN [pid |-> Pid(c), maker |-> IF Locked THEN lockFile.maker ELSE {c}]
       ELSE IF lockFile.maker = {c} THEN [lockFile EXCEPT !.pid = Pid(c)] ELSE lockFile
  /\ Go(c, "holding")
  /\ UNCHANGED <<kind, waits, nextNumber, created, epoch, broken>>

------------------------------------------------------------------------------
(* The work under the lock, and the release.                               *)

\* The directories in use.
SpecNumbers == OldSpecs \cup {nextNumber[c] : c \in created}

\* Fault: the worktrees are not scanned.
ScannedProject(c) == {n \in SpecNumbers : n < 1000}

\* What a scan takes for spec numbers: three digits, but in the handlers
\* without the lock, which look into the project only.
Scanned(c) ==
  IF kind[c] = "plain" THEN SpecNumbers
  ELSE {n \in SpecNumbers \cup OldWorktrees : n < 1000}

GetNextSpecNumber(c) ==
  /\ at[c] = "holding"
  /\ nextNumber' = [nextNumber EXCEPT ![c] = Max(Scanned(c) \cup {0}) + 1]
  /\ Go(c, "numbered")
  /\ UNCHANGED <<kind, lockFile, waits, created, epoch, broken>>

\* mkdir, which does not mind a directory that is there.
CreateSpec(c) ==
  /\ at[c] = "numbered"
  /\ created' = created \cup {c}
  /\ Go(c, "made")
  /\ UNCHANGED <<kind, lockFile, waits, nextNumber, epoch, broken>>

\* release, __exit__: removes the file whosoever it is.
Release(c) ==
  /\ at[c] = "made"
  /\ lockFile' = IF kind[c] = "plain" THEN lockFile ELSE NoLock
  /\ Go(c, "done")
  /\ UNCHANGED <<kind, waits, nextNumber, created, epoch, broken>>

------------------------------------------------------------------------------
(* Crashes.                                                                *)

CommandDies(c) ==
  /\ kind[c] = "cli" /\ at[c] \notin {"idle"} \cup Over
  /\ Go(c, "dead")
  /\ UNCHANGED <<kind, lockFile, waits, nextNumber, created, epoch, broken>>

\* All its requests are lost; those not yet made are made in the next process.
ApplicationDies ==
  /\ epoch = 0 /\ epoch' = 1
  /\ at' = [c \in Creators |->
              IF kind[c] # "cli" /\ at[c] \notin {"idle"} \cup Over THEN "dead" ELSE at[c]]
  /\ UNCHANGED <<kind, lockFile, waits, nextNumber, created, broken>>

NumbersInit ==
  /\ kind \in Mixes
  /\ at = [c \in Creators |-> "idle"] /\ lockFile = NoLock
  /\ waits = [c \in Creators |-> 0] /\ nextNumber = [c \in Creators |-> 0]
  /\ created = {} /\ epoch = 0 /\ broken = FALSE

CreatorStep(c) ==
  \/ Create(c) \/ Found(c) \/ ReadHolder(c) \/ RemoveStale(c) \/ Retry(c) \/ WritePid(c)
  \/ GetNextSpecNumber(c) \/ CreateSpec(c) \/ Release(c)

NumbersNext ==
  \/ \E c \in Creators : Begin(c) \/ CreatorStep(c) \/ CommandDies(c)
  \/ ApplicationDies

NumbersSpec == NumbersInit /\ [][NumbersNext]_numbersVars

\* Whoever began goes on: a sleep ends, and nothing in between waits.
NumbersFairSpec == NumbersSpec /\ \A c \in Creators : WF_numbersVars(CreatorStep(c))

------------------------------------------------------------------------------
NumbersTypeOK ==
  /\ kind \in Mixes /\ at \in [Creators -> Places]
  /\ waits \in [Creators -> 0..MaxWaits] /\ nextNumber \in [Creators -> Nat]
  /\ created \subseteq Creators /\ epoch \in 0..1 /\ broken \in BOOLEAN

\* Two requests are at work under the lock together only after a waiter removed
\* it from under one of them, and among the application's requests alone that
\* does not happen, not even when it is restarted.
OneHolder ==
  /\ (\E c, d \in Creators : c # d /\ AtWork(c) /\ AtWork(d)) => broken
  /\ broken => \E c \in Creators : kind[c] = "cli"

\* Two specs get the same number, or a spec that of a worktree, only if the
\* lock was broken, if a handler without the lock was one of them (and another
\* process the other), or beyond the three digits a scan looks for.
NumbersUnique ==
  \A c \in created :
    LET n == nextNumber[c]
    IN \/ broken \/ n >= 1000
       \/ /\ n \in OldWorktrees => kind[c] = "plain"
          /\ \A d \in created \ {c} :
               nextNumber[d] = n => {kind[c], kind[d]} = {"plain", "cli"}

\* All who ask for the lock get an answer, though the lock may stay with a dead
\* process: a lock without a pid is removed by no request of the application, and
\* then each of them ends with the timeout.
RequestEnds ==
  (\E c \in Creators : at[c] = "trying") ~> (\A c \in Creators : at[c] \in {"idle"} \cup Over)

==============================================================================
