------------------------------- MODULE MCParts -------------------------------
(***************************************************************************)
(* Four components that share no state, checked in one run: `part` says    *)
(* which of them moves, and the others stay where they begin.              *)
(***************************************************************************)
EXTENDS MCCoder, SpecNumberLock, TaskQueue, WorktreeMerge

VARIABLE part

coderVars == vars
partsVars == <<coderVars, numbersVars, queueVars, mergeVars, part>>

\* Who asks for a number: three requests under the lock, or two and one without.
Together(a, b, c) == [i \in 1..3 |-> <<a, b, c>>[i]]
SomeMixes ==
  {Together("locked", "locked", "cli"), Together("locked", "plain", "cli"),
   Together("plain", "cli", "cli"), Together("locked", "locked", "plain")}

PartsInit ==
  /\ part \in {"coder", "numbers", "queue", "merge"}
  /\ Init /\ (part # "coder" => ~isolated)
  /\ NumbersInit /\ (part # "numbers" => kind = Together("locked", "locked", "cli"))
  /\ QueueInit /\ (part # "queue" => In("queue", status) = {})
  /\ MergeInit /\ (part # "merge" => ~misjudged)

PartsNext ==
  /\ \/ part = "coder" /\ Next /\ UNCHANGED <<numbersVars, queueVars, mergeVars>>
     \/ part = "numbers" /\ NumbersNext /\ UNCHANGED <<coderVars, queueVars, mergeVars>>
     \/ part = "merge" /\ MergeNext /\ UNCHANGED <<coderVars, numbersVars, queueVars>>
     \/ part = "queue" /\ QueueStep /\ UNCHANGED <<coderVars, numbersVars, mergeVars>>
  /\ UNCHANGED part

PartsSpec ==
  /\ PartsInit /\ [][PartsNext]_partsVars
  /\ WF_coderVars(part = "coder" /\ Process)
  /\ \A c \in Creators : WF_numbersVars(part = "numbers" /\ CreatorStep(c))

==============================================================================
