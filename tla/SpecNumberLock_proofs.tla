------------------------ MODULE SpecNumberLock_proofs -------------------------
(***************************************************************************)
(* Proofs about SpecNumberLock, for any requests and any numbers in use.   *)
(*                                                                         *)
(* Two mutual exclusions carry the numbering, and neither is an invariant  *)
(* of the module by itself: while the lock was not broken, one request     *)
(* under it is at work and its file is there (SoleHolder); and of the      *)
(* application's requests one is between two awaits (SoleApplication).     *)
(* A pair of requests that one of the two separates gets two numbers; a    *)
(* handler without the lock and a command are the pair that none does.     *)
(*                                                                         *)
(* The last part measures how far a request is from its end.               *)
(***************************************************************************)
EXTENDS SpecNumberLock, FiniteSetTheorems, WellFoundedInduction, TLAPS

Pids == {NoPid} \cup ({"cli"} \X Creators) \cup ({"app"} \X (0..1))

LockTyped ==
  /\ lockFile \in [pid : Pids, maker : SUBSET Creators]
  /\ lockFile.maker = {} => lockFile = NoLock

KindTyped == kind \in [Creators -> Kinds]

Moving(c) == kind[c] # "cli" /\ at[c] \notin {"idle", "waiting"} \cup Over

SoleApplication == \A c, d \in Creators : Moving(c) /\ Moving(d) => c = d

SoleHolder ==
  ~broken => /\ \A c \in Creators : AtWork(c) => Locked
             /\ \A c, d \in Creators : AtWork(c) /\ AtWork(d) => c = d

BrokenByCommand == broken => \E c \in Creators : kind[c] = "cli"

LockInv ==
  /\ KindTyped /\ kind \in Mixes /\ at \in [Creators -> Places] /\ broken \in BOOLEAN /\ epoch \in 0..1
  /\ LockTyped /\ SoleApplication /\ SoleHolder /\ BrokenByCommand

------------------------------------------------------------------------------
(* The lock.                                                               *)

\* A request of the application begins to move only while none moves.
LEMMA StaysSole ==
  ASSUME LockInv, NEW c \in Creators, NEW place \in Places, Go(c, place), UNCHANGED kind,
         \/ at[c] \notin {"idle", "waiting"} \cup Over
         \/ kind[c] # "cli" => ~Busy
  PROVE  SoleApplication' /\ at' = [at EXCEPT ![c] = place] /\ at' \in [Creators -> Places]
<1>1. at' = [at EXCEPT ![c] = place] /\ at' \in [Creators -> Places]
  BY DEF Go, LockInv
<1>2. \A d \in Creators : Moving(d)' => d = c \/ Moving(d)
  BY <1>1 DEF Moving, LockInv
<1>3. CASE Moving(c)
  BY <1>1, <1>2, <1>3 DEF LockInv, SoleApplication
<1>4. CASE ~Moving(c) /\ ~Moving(c)'
  BY <1>1, <1>2, <1>4 DEF LockInv, SoleApplication
<1>5. CASE ~Moving(c) /\ Moving(c)'
  <2>1. ~Busy
    BY <1>1, <1>5 DEF Moving, LockInv
  <2>2. \A d \in Creators : ~Moving(d)
    BY <2>1 DEF Busy, Moving
  <2> QED BY <1>1, <1>2, <2>2 DEF SoleApplication
<1> QED BY <1>3, <1>4, <1>5

\* A request that moves and leaves the lock alone, without getting to work.
LEMMA WalkKeeps ==
  ASSUME LockInv, NEW c \in Creators, NEW place \in Places, Go(c, place),
         UNCHANGED <<kind, lockFile, broken, epoch>>,
         \/ at[c] \notin {"idle", "waiting"} \cup Over
         \/ kind[c] # "cli" => ~Busy,
         kind[c] = "plain" \/ place \notin {"owning", "holding", "numbered", "made"} \/ AtWork(c)
  PROVE  LockInv'
<1>1. SoleApplication' /\ at' = [at EXCEPT ![c] = place] /\ at' \in [Creators -> Places]
  BY StaysSole
<1>2. \A d \in Creators : AtWork(d)' => AtWork(d)
  BY <1>1 DEF AtWork, LockInv
<1>3. SoleHolder'
  BY <1>2 DEF SoleHolder, LockInv, Locked
<1> QED BY <1>1, <1>3 DEF LockInv, LockTyped, KindTyped, BrokenByCommand

LEMMA CreateKeeps ==
  ASSUME LockInv, NEW c \in Creators, Create(c)
  PROVE  LockInv'
<1>1. /\ at[c] = "trying" /\ ~Locked /\ lockFile' = [pid |-> NoPid, maker |-> {c}]
      /\ Go(c, "owning") /\ UNCHANGED <<kind, broken, epoch>>
  BY DEF Create
<1>2. SoleApplication' /\ at' = [at EXCEPT ![c] = "owning"] /\ at' \in [Creators -> Places]
  BY <1>1, StaysSole DEF Places, Over
<1>3. LockTyped' /\ Locked'
  <2>1. lockFile'.maker # {} /\ NoLock.maker = {}
    BY <1>1 DEF NoLock
  <2>2. lockFile' \in [pid : Pids, maker : SUBSET Creators]
    BY <1>1 DEF Pids
  <2> QED BY <2>1, <2>2 DEF LockTyped, Locked
<1>4. SoleHolder'
  <2> SUFFICES ASSUME ~broken PROVE \A d \in Creators : AtWork(d)' => d = c
    BY <1>1, <1>3 DEF SoleHolder
  <2>1. \A d \in Creators : ~AtWork(d)
    BY <1>1 DEF LockInv, SoleHolder
  <2> QED BY <1>1, <1>2, <2>1 DEF AtWork, LockInv
<1> QED BY <1>1, <1>2, <1>3, <1>4 DEF LockInv, KindTyped, BrokenByCommand

LEMMA RemoveStaleKeeps ==
  ASSUME LockInv, NEW c \in Creators, RemoveStale(c)
  PROVE  LockInv'
<1>1. at[c] = "removing" /\ UNCHANGED <<kind, epoch>>
  BY DEF RemoveStale
<1>2. CASE ~Locked
  <2>1. /\ Go(c, IF kind[c] = "cli" THEN "failed" ELSE "waiting") /\ UNCHANGED <<lockFile, broken>>
    BY <1>2 DEF RemoveStale
  <2> QED BY <1>1, <2>1, WalkKeeps DEF Places, Over
<1>3. CASE Locked
  <2>1. /\ lockFile' = NoLock /\ Go(c, "trying")
        /\ broken' = (broken \/ \E d \in Creators : AtWork(d))
    BY <1>3 DEF RemoveStale
  <2>2. SoleApplication' /\ at' = [at EXCEPT ![c] = "trying"] /\ at' \in [Creators -> Places]
    BY <1>1, <2>1, StaysSole DEF Places, Over
  <2>3. LockTyped'
    BY <2>1 DEF LockTyped, NoLock, Pids
  <2>4. \A d \in Creators : AtWork(d)' => AtWork(d)
    BY <1>1, <2>2 DEF AtWork, LockInv
  <2>5. SoleHolder' /\ broken' \in BOOLEAN
    BY <2>1, <2>4 DEF SoleHolder, LockInv
  <2>6. BrokenByCommand'
    <3> SUFFICES ASSUME broken', \A d \in Creators : kind[d] # "cli" PROVE FALSE
      BY <1>1 DEF BrokenByCommand
    <3>1. PICK d \in Creators : AtWork(d)
      BY <2>1 DEF LockInv, BrokenByCommand
    <3>2. Moving(c) /\ Moving(d)
      BY <1>1, <3>1 DEF Moving, AtWork, Over
    <3>3. c = d
      BY <3>2 DEF LockInv, SoleApplication
    <3> QED BY <1>1, <3>1, <3>3 DEF AtWork
  <2> QED BY <1>1, <2>2, <2>3, <2>5, <2>6 DEF LockInv, KindTyped
<1> QED BY <1>2, <1>3

LEMMA WritePidKeeps ==
  ASSUME LockInv, NEW c \in Creators, WritePid(c)
  PROVE  LockInv'
<1>1. at[c] = "owning" /\ Go(c, "holding") /\ UNCHANGED <<kind, broken, epoch>>
  BY DEF WritePid
<1>2. SoleApplication' /\ at' = [at EXCEPT ![c] = "holding"] /\ at' \in [Creators -> Places]
  BY <1>1, StaysSole DEF Places, Over
<1>3. Pid(c) \in Pids
  BY DEF Pid, Pids, LockInv
<1>4. LockTyped' /\ (Locked => Locked')
  <2>1. NoLock.maker = {}
    BY DEF NoLock
  <2>2. Locked => lockFile.maker # {}
    BY DEF LockInv, LockTyped, Locked
  <2>3. CASE kind[c] = "cli"
    <3>1. lockFile' = [pid |-> Pid(c), maker |-> IF Locked THEN lockFile.maker ELSE {c}]
      BY <2>3 DEF WritePid
    <3>2. lockFile'.maker # {} /\ lockFile'.maker \subseteq Creators
      BY <2>2, <3>1 DEF LockInv, LockTyped
    <3>3. lockFile' \in [pid : Pids, maker : SUBSET Creators]
      BY <1>3, <3>1, <3>2
    <3> QED BY <2>1, <3>2, <3>3 DEF LockTyped, Locked
  <2>4. CASE kind[c] # "cli" /\ lockFile.maker = {c}
    <3>1. lockFile' = [lockFile EXCEPT !.pid = Pid(c)]
      BY <2>4 DEF WritePid
    <3>2. lockFile' \in [pid : Pids, maker : SUBSET Creators] /\ lockFile'.maker = {c}
      BY <1>3, <2>4, <3>1 DEF LockInv, LockTyped
    <3> QED BY <2>1, <3>2 DEF LockTyped, Locked
  <2>5. CASE kind[c] # "cli" /\ lockFile.maker # {c}
    BY <2>5 DEF WritePid, LockInv, LockTyped, Locked
  <2> QED BY <2>3, <2>4, <2>5
<1>5. \A d \in Creators : AtWork(d)' => AtWork(d)
  BY <1>1, <1>2 DEF AtWork, LockInv
<1>6. SoleHolder'
  BY <1>1, <1>4, <1>5 DEF SoleHolder, LockInv
<1> QED BY <1>1, <1>2, <1>4, <1>6 DEF LockInv, KindTyped, BrokenByCommand

LEMMA ReleaseKeeps ==
  ASSUME LockInv, NEW c \in Creators, Release(c)
  PROVE  LockInv'
<1>1. /\ at[c] = "made" /\ Go(c, "done") /\ UNCHANGED <<kind, broken, epoch>>
      /\ lockFile' = IF kind[c] = "plain" THEN lockFile ELSE NoLock
  BY DEF Release
<1>2. CASE kind[c] = "plain"
  BY <1>1, <1>2, WalkKeeps DEF Places, Over
<1>3. CASE kind[c] # "plain"
  <2>1. SoleApplication' /\ at' = [at EXCEPT ![c] = "done"] /\ at' \in [Creators -> Places]
    BY <1>1, StaysSole DEF Places, Over
  <2>2. AtWork(c) /\ \A d \in Creators : AtWork(d)' => AtWork(d) /\ d # c
    BY <1>1, <1>3, <2>1 DEF AtWork, LockInv
  <2>3. LockTyped'
    BY <1>1, <1>3 DEF LockTyped, NoLock, Pids
  <2>4. SoleHolder'
    BY <1>1, <2>2 DEF SoleHolder, LockInv
  <2> QED BY <1>1, <2>1, <2>3, <2>4 DEF LockInv, KindTyped, BrokenByCommand
<1> QED BY <1>2, <1>3

\* A crash of the application, or of a command.
LEMMA CrashKeeps ==
  ASSUME LockInv, ApplicationDies \/ \E c \in Creators : CommandDies(c)
  PROVE  LockInv'
<1>1. /\ at' \in [Creators -> Places] /\ epoch' \in 0..1 /\ UNCHANGED <<kind, lockFile, broken>>
      /\ \A d \in Creators : at'[d] \in {at[d], "dead"}
  <2>1. CASE ApplicationDies
    BY <2>1 DEF ApplicationDies, LockInv, Places
  <2>2. ASSUME NEW c \in Creators, CommandDies(c)
        PROVE  /\ at' \in [Creators -> Places] /\ epoch' = epoch /\ UNCHANGED <<kind, lockFile, broken>>
               /\ \A d \in Creators : at'[d] \in {at[d], "dead"}
    BY <2>2 DEF CommandDies, Go, LockInv, Places
  <2> QED BY <2>1, <2>2 DEF LockInv
<1>2. SoleApplication' /\ SoleHolder'
  BY <1>1 DEF SoleApplication, SoleHolder, Moving, AtWork, Over, Locked, LockInv
<1> QED BY <1>1, <1>2 DEF LockInv, LockTyped, KindTyped, BrokenByCommand

LEMMA LockStepKeeps ==
  ASSUME LockInv, NEW c \in Creators, Begin(c) \/ CreatorStep(c)
  PROVE  LockInv'
<1>1. CASE Begin(c)
  BY <1>1, WalkKeeps DEF Begin, Places
<1>2. CASE Create(c)
  BY <1>2, CreateKeeps
<1>3. CASE Found(c)
  BY <1>3, WalkKeeps DEF Found, Places, Over
<1>4. CASE ReadHolder(c)
  <2>1. \E place \in {"removing", "waiting", "failed"} : Go(c, place)
    BY <1>4 DEF ReadHolder
  <2> QED BY <1>4, <2>1, WalkKeeps DEF ReadHolder, Places, Over
<1>5. CASE RemoveStale(c)
  BY <1>5, RemoveStaleKeeps
<1>6. CASE Retry(c)
  <2>1. \E place \in {"trying", "failed"} : Go(c, place)
    BY <1>6 DEF Retry
  <2> QED BY <1>6, <2>1, WalkKeeps DEF Retry, Places, Over
<1>7. CASE WritePid(c)
  BY <1>7, WritePidKeeps
<1>8. CASE GetNextSpecNumber(c)
  BY <1>8, WalkKeeps DEF GetNextSpecNumber, AtWork, Places, Over
<1>9. CASE CreateSpec(c)
  BY <1>9, WalkKeeps DEF CreateSpec, AtWork, Places, Over
<1>10. CASE Release(c)
  BY <1>10, ReleaseKeeps
<1> QED BY <1>1, <1>2, <1>3, <1>4, <1>5, <1>6, <1>7, <1>8, <1>9, <1>10 DEF CreatorStep

------------------------------------------------------------------------------
(* The numbers.                                                            *)

\* A finite set of numbers has a largest member.
LEMMA MaxIsMember ==
  ASSUME NEW S, S \subseteq Nat, IsFiniteSet(S), S # {}
  PROVE  Max(S) \in S /\ \A n \in S : n <= Max(S)
<1> DEFINE Topped(T) == \E m \in T : \A n \in T : n <= m
           smaller == StrictSubsetOrdering(S)
           odd == {T \in SUBSET S : T # {} /\ ~Topped(T)}
<1>1. IsWellFoundedOn(smaller, SUBSET S)
  BY FS_StrictSubsetOrderingWellFounded, FS_FiniteSubsetsOfFinite
<1>2. ASSUME NEW T \in odd
      PROVE  \E U \in odd : <<U, T>> \in smaller
  <2>1. PICK x \in T : TRUE
    OBVIOUS
  <2> DEFINE U == T \ {x}
  <2>2. U \in SUBSET S /\ T \in SUBSET S /\ U \subseteq T /\ U # T
    BY <2>1
  <2>3. <<U, T>> \in smaller
    <3>1. <<U, T>> \in (SUBSET S) \X (SUBSET S) /\ <<U, T>>[1] = U /\ <<U, T>>[2] = T
      BY <2>2
    <3> QED BY <2>2, <3>1, Zenon DEF StrictSubsetOrdering
  <2>4. U # {}
    <3> SUFFICES ASSUME U = {} PROVE FALSE
      OBVIOUS
    <3>1. T = {x} /\ x \in Nat
      BY <2>1
    <3>2. Topped(T)
      BY <3>1
    <3> QED BY <3>2
  <2>5. ~Topped(U)
    <3> SUFFICES ASSUME NEW m \in U, \A n \in U : n <= m PROVE FALSE
      OBVIOUS
    <3>1. x \in Nat /\ m \in Nat /\ m \in T
      BY <2>1
    <3>2. CASE x <= m
      BY <3>1, <3>2
    <3>3. CASE m <= x
      <4>1. \A n \in T : n \in Nat /\ n <= x
        BY <2>1, <3>1, <3>3
      <4> QED BY <2>1, <4>1
    <3> QED BY <3>1, <3>2, <3>3
  <2> QED BY <2>2, <2>3, <2>4, <2>5
<1>3. odd = {}
  <2> SUFFICES ASSUME odd # {} PROVE FALSE
    OBVIOUS
  <2> HIDE DEF odd, smaller
  <2>1. odd \subseteq SUBSET S
    BY DEF odd
  <2>2. \E T \in odd : \A U \in odd : ~ (<<U, T>> \in smaller)
    BY <1>1, <2>1, WFMin, Zenon
  <2> QED BY <1>2, <2>2
<1>4. PICK m \in S : \A n \in S : n <= m
  BY <1>3
<1>5. \A n \in S : m >= n
  BY <1>4
<1> QED BY <1>5 DEF Max

\* Who has a number, of a spec that is there or is about to be.
Numbered(c) == c \in created \/ at[c] = "numbered"

\* The lock, or the application's one thread, keeps the two apart.
KeptApart(c, d) ==
  \/ kind[c] # "plain" /\ kind[d] # "plain"
  \/ kind[c] # "cli" /\ kind[d] # "cli"

CreatedAfterwards == \A c \in created : at[c] \in {"made", "done", "dead"}

Fresh ==
  ~broken => \A c \in created, d \in Creators :
    /\ c # d /\ Numbered(d) /\ KeptApart(c, d) /\ nextNumber[c] = nextNumber[d]
    => nextNumber[c] >= 1000

BesideWorktrees ==
  \A c \in Creators :
    Numbered(c) /\ kind[c] # "plain" /\ nextNumber[c] \in OldWorktrees => nextNumber[c] >= 1000

NumbersInv ==
  /\ LockInv /\ NumbersTypeOK /\ IsFiniteSet(SpecNumbers)
  /\ CreatedAfterwards /\ Fresh /\ BesideWorktrees

LEMMA NumbersInUse == NumbersTypeOK => SpecNumbers \subseteq Nat
BY NumbersAssumption DEF NumbersAssumption, NumbersTypeOK, SpecNumbers

\* What a scan sees is below the number it gives.
LEMMA NextIsAbove ==
  ASSUME NumbersTypeOK, IsFiniteSet(SpecNumbers), NEW c
  PROVE  /\ Max(Scanned(c) \cup {0}) + 1 \in Nat
         /\ \A n \in Scanned(c) : n < Max(Scanned(c) \cup {0}) + 1
<1>1. OldWorktrees \subseteq Nat /\ IsFiniteSet(OldWorktrees)
  BY NumbersAssumption DEF NumbersAssumption
<1>2. SpecNumbers \subseteq Nat
  BY NumbersInUse
<1>3. IsFiniteSet(SpecNumbers \cup OldWorktrees)
  BY <1>1, FS_Union
<1>4. Scanned(c) \subseteq SpecNumbers \cup OldWorktrees
  BY DEF Scanned
<1>5. IsFiniteSet(Scanned(c) \cup {0})
  BY <1>3, <1>4, FS_Subset, FS_AddElement
<1> DEFINE S == Scanned(c) \cup {0}
<1>6. S \subseteq Nat /\ S # {} /\ IsFiniteSet(S)
  <2>1. Scanned(c) \subseteq Nat
    BY <1>1, <1>2, <1>4
  <2>2. S \subseteq Nat /\ 0 \in S
    BY <2>1
  <2> QED BY <1>5, <2>2
<1>7. Scanned(c) \subseteq S
  OBVIOUS
<1> HIDE DEF S
<1>8. Max(S) \in S /\ \A n \in S : n <= Max(S)
  BY <1>6, MaxIsMember
<1>9. Max(S) \in Nat
  BY <1>6, <1>8
<1>10. ASSUME NEW n \in Scanned(c) PROVE n < Max(S) + 1
  <2>1. n \in Nat /\ n <= Max(S)
    BY <1>6, <1>7, <1>8
  <2> QED BY <1>9, <2>1
<1>11. Max(S) + 1 \in Nat
  BY <1>9
<1> QED BY <1>10, <1>11 DEF S

\* A step of one request that keeps the numbers and makes no spec.
LEMMA NoNumberKeeps ==
  ASSUME NumbersInv, LockInv', NumbersTypeOK', broken => broken',
         UNCHANGED <<kind, nextNumber, created>>,
         \A d \in Creators : at'[d] = "numbered" => at[d] = "numbered",
         \A d \in created : at'[d] \in {"made", "done", "dead"}
  PROVE  NumbersInv'
<1>1. \A d \in Creators : Numbered(d)' => Numbered(d)
  BY DEF Numbered
<1>2. created \subseteq Creators
  BY DEF NumbersInv, NumbersTypeOK
<1>3. Fresh'
  BY <1>1, <1>2 DEF Fresh, NumbersInv, KeptApart
<1>4. BesideWorktrees'
  BY <1>1 DEF BesideWorktrees, NumbersInv
<1>5. IsFiniteSet(SpecNumbers)' /\ CreatedAfterwards'
  BY DEF NumbersInv, SpecNumbers, CreatedAfterwards
<1> QED BY <1>3, <1>4, <1>5 DEF NumbersInv

LEMMA GetNumberKeeps ==
  ASSUME NumbersInv, LockInv', NEW c \in Creators, GetNextSpecNumber(c)
  PROVE  NumbersInv'
<1> DEFINE number == Max(Scanned(c) \cup {0}) + 1
<1>1. /\ at[c] = "holding" /\ at' = [at EXCEPT ![c] = "numbered"]
      /\ nextNumber' = [nextNumber EXCEPT ![c] = number]
      /\ UNCHANGED <<kind, lockFile, waits, created, epoch, broken>>
  BY DEF GetNextSpecNumber, Go
<1>2. number \in Nat /\ \A n \in Scanned(c) : n < number
  BY NextIsAbove DEF NumbersInv
<1> HIDE DEF number
<1>3. NumbersTypeOK'
  BY <1>1, <1>2 DEF NumbersInv, NumbersTypeOK, LockInv
<1>4. /\ c \notin created /\ created \subseteq Creators
      /\ \A d \in created : at[d] \in {"made", "done", "dead"}
  BY <1>1 DEF NumbersInv, CreatedAfterwards, NumbersTypeOK
<1>5. \A d \in Creators \ {c} : nextNumber'[d] = nextNumber[d] /\ at'[d] = at[d]
  BY <1>1 DEF NumbersInv, NumbersTypeOK
<1>6. nextNumber'[c] = number /\ at'[c] = "numbered"
  BY <1>1 DEF NumbersInv, NumbersTypeOK
<1>7. SpecNumbers' = SpecNumbers
  BY <1>1, <1>4, <1>5 DEF SpecNumbers
<1>8. CreatedAfterwards'
  BY <1>1, <1>4, <1>5 DEF CreatedAfterwards
<1>9. ASSUME NEW d \in created PROVE nextNumber[d] # number \/ number >= 1000
  <2>1. nextNumber[d] \in SpecNumbers /\ nextNumber[d] \in Nat
    BY <1>4 DEF SpecNumbers, NumbersInv, NumbersTypeOK
  <2>2. CASE nextNumber[d] >= 1000
    BY <2>2
  <2>3. CASE nextNumber[d] < 1000
    <3>1. nextNumber[d] \in Scanned(c)
      BY <2>1, <2>3 DEF Scanned
    <3> QED BY <1>2, <2>1, <3>1
  <2> QED BY <2>1, <2>2, <2>3
<1>10. Fresh'
  <2> SUFFICES ASSUME ~broken, NEW d \in created, NEW e \in Creators, d # e, Numbered(e)',
                      KeptApart(d, e), nextNumber'[d] = nextNumber'[e]
               PROVE  nextNumber'[d] >= 1000
    BY <1>1 DEF Fresh, KeptApart
  <2>1. d # c /\ nextNumber'[d] = nextNumber[d]
    BY <1>4, <1>5
  <2>2. CASE e = c
    <3>1. nextNumber[d] = number
      BY <1>6, <2>1, <2>2
    <3> QED BY <1>2, <1>9, <2>1, <3>1
  <2>3. CASE e # c
    <3>1. Numbered(e) /\ nextNumber'[e] = nextNumber[e]
      BY <1>1, <1>5, <2>3 DEF Numbered
    <3>2. Fresh
      BY DEF NumbersInv
    <3>3. nextNumber[d] = nextNumber[e]
      BY <2>1, <3>1
    <3>4. nextNumber[d] >= 1000
      BY <3>1, <3>2, <3>3 DEF Fresh
    <3> QED BY <2>1, <3>4
  <2> QED BY <2>2, <2>3
<1>11. BesideWorktrees'
  <2> SUFFICES ASSUME NEW d \in Creators, Numbered(d)', kind[d] # "plain", nextNumber'[d] \in OldWorktrees
               PROVE  nextNumber'[d] >= 1000
    BY <1>1 DEF BesideWorktrees
  <2>1. CASE d # c
    BY <1>1, <1>5, <2>1 DEF BesideWorktrees, NumbersInv, Numbered
  <2>2. CASE d = c
    <3>1. number \in OldWorktrees
      BY <1>6, <2>2
    <3>2. number < 1000 => number \in Scanned(c)
      BY <2>2, <3>1 DEF Scanned
    <3> QED BY <1>2, <1>6, <2>2, <3>2
  <2> QED BY <2>1, <2>2
<1> QED BY <1>3, <1>7, <1>8, <1>10, <1>11 DEF NumbersInv

LEMMA CreateSpecKeeps ==
  ASSUME NumbersInv, LockInv', NEW c \in Creators, CreateSpec(c)
  PROVE  NumbersInv'
<1>1. /\ at[c] = "numbered" /\ at' = [at EXCEPT ![c] = "made"] /\ created' = created \cup {c}
      /\ UNCHANGED <<kind, lockFile, waits, nextNumber, epoch, broken>>
  BY DEF CreateSpec, Go
<1>2. NumbersTypeOK'
  BY <1>1 DEF NumbersInv, NumbersTypeOK, LockInv
<1>3. IsFiniteSet(SpecNumbers)'
  <2>1. SpecNumbers' = SpecNumbers \cup {nextNumber[c]}
    BY <1>1 DEF SpecNumbers
  <2> QED BY <2>1, FS_AddElement DEF NumbersInv
<1>4. CreatedAfterwards'
  BY <1>1 DEF NumbersInv, CreatedAfterwards, NumbersTypeOK
<1>5. \A d \in Creators : Numbered(d)' => Numbered(d)
  BY <1>1 DEF Numbered, NumbersInv, NumbersTypeOK
<1>6. ASSUME ~broken, NEW d \in Creators, d # c, KeptApart(c, d) PROVE at[d] # "numbered"
  <2> SUFFICES ASSUME at[d] = "numbered" PROVE FALSE
    OBVIOUS
  <2>1. CASE kind[c] # "plain" /\ kind[d] # "plain"
    BY <1>1, <1>6, <2>1 DEF AtWork, SoleHolder, LockInv, NumbersInv
  <2>2. CASE kind[c] # "cli" /\ kind[d] # "cli"
    BY <1>1, <1>6, <2>2 DEF Moving, Over, SoleApplication, LockInv, NumbersInv
  <2> QED BY <1>6, <2>1, <2>2 DEF KeptApart
<1>7. Fresh'
  <2> SUFFICES ASSUME ~broken, NEW d \in created', NEW e \in Creators, d # e, Numbered(e),
                      KeptApart(d, e), nextNumber[d] = nextNumber[e]
               PROVE  nextNumber[d] >= 1000
    BY <1>1, <1>5 DEF Fresh, KeptApart
  <2>1. CASE d \in created
    BY <2>1 DEF Fresh, NumbersInv
  <2>2. CASE d = c
    <3>1. e \in created
      BY <1>6, <2>2 DEF Numbered
    <3>2. Numbered(c) /\ KeptApart(e, c)
      BY <1>1, <2>2 DEF Numbered, KeptApart
    <3> QED BY <2>2, <3>1, <3>2 DEF Fresh, NumbersInv
  <2> QED BY <1>1, <2>1, <2>2
<1>8. BesideWorktrees'
  BY <1>1, <1>5 DEF BesideWorktrees, NumbersInv
<1> QED BY <1>2, <1>3, <1>4, <1>7, <1>8 DEF NumbersInv

\* Every step keeps the types, once it keeps the lock's.
LEMMA TypedStep ==
  ASSUME NumbersInv, LockInv', NumbersNext
  PROVE  NumbersTypeOK'
<1>1. kind' \in Mixes /\ at' \in [Creators -> Places] /\ epoch' \in 0..1 /\ broken' \in BOOLEAN
  BY DEF LockInv
<1>2. CASE ApplicationDies
  BY <1>1, <1>2 DEF ApplicationDies, NumbersInv, NumbersTypeOK
<1>3. ASSUME NEW c \in Creators, Retry(c) PROVE NumbersTypeOK'
  BY <1>1, <1>3, NumbersAssumption DEF Retry, NumbersInv, NumbersTypeOK, NumbersAssumption
<1>4. ASSUME NEW c \in Creators, GetNextSpecNumber(c) PROVE NumbersTypeOK'
  <2>1. Max(Scanned(c) \cup {0}) + 1 \in Nat
    BY NextIsAbove DEF NumbersInv
  <2> QED BY <1>1, <1>4, <2>1 DEF GetNextSpecNumber, NumbersInv, NumbersTypeOK
<1>5. ASSUME NEW c \in Creators, CreateSpec(c) PROVE NumbersTypeOK'
  BY <1>1, <1>5 DEF CreateSpec, NumbersInv, NumbersTypeOK
<1>6. ASSUME NEW c \in Creators,
             \/ Begin(c) \/ CommandDies(c) \/ Create(c) \/ Found(c) \/ ReadHolder(c)
             \/ RemoveStale(c) \/ WritePid(c) \/ Release(c)
      PROVE  NumbersTypeOK'
  <2>1. UNCHANGED <<waits, nextNumber, created>>
    BY <1>6 DEF Begin, CommandDies, Create, Found, ReadHolder, RemoveStale, WritePid, Release
  <2> QED BY <1>1, <2>1 DEF NumbersInv, NumbersTypeOK
<1> QED BY <1>2, <1>3, <1>4, <1>5, <1>6 DEF NumbersNext, CreatorStep

LEMMA NumbersStepKeeps ==
  ASSUME NumbersInv, LockInv', NumbersNext
  PROVE  NumbersInv'
<1>1. NumbersTypeOK'
  BY TypedStep
<1>2. ASSUME NEW c \in Creators, GetNextSpecNumber(c) PROVE NumbersInv'
  BY <1>2, GetNumberKeeps
<1>3. ASSUME NEW c \in Creators, CreateSpec(c) PROVE NumbersInv'
  BY <1>3, CreateSpecKeeps
<1>4. at \in [Creators -> Places] /\ created \subseteq Creators
      /\ \A d \in created : at[d] \in {"made", "done", "dead"}
  BY DEF NumbersInv, NumbersTypeOK, CreatedAfterwards
<1>5. CASE ApplicationDies
  <2>1. \A d \in Creators : at'[d] \in {at[d], "dead"}
    BY <1>5 DEF ApplicationDies
  <2>2. broken' = broken /\ UNCHANGED <<kind, nextNumber, created>>
    BY <1>5 DEF ApplicationDies
  <2>3. /\ \A d \in Creators : at'[d] = "numbered" => at[d] = "numbered"
        /\ \A d \in created : at'[d] \in {"made", "done", "dead"}
    BY <1>4, <2>1
  <2> QED BY <1>1, <2>2, <2>3, NoNumberKeeps
<1>6. ASSUME NEW c \in Creators,
             \/ Begin(c) \/ CommandDies(c) \/ Create(c) \/ Found(c) \/ ReadHolder(c)
             \/ RemoveStale(c) \/ Retry(c) \/ WritePid(c) \/ Release(c)
      PROVE  NumbersInv'
  <2>1. UNCHANGED <<kind, nextNumber, created>> /\ (broken => broken')
    <3>1. UNCHANGED <<kind, nextNumber, created>>
      BY <1>6 DEF Begin, CommandDies, Create, Found, ReadHolder, RemoveStale, Retry, WritePid, Release
    <3>2. broken' = broken \/ broken' = (broken \/ \E d \in Creators : AtWork(d))
      BY <1>6 DEF Begin, CommandDies, Create, Found, ReadHolder, RemoveStale, Retry, WritePid, Release
    <3>3. broken => broken'
      BY <3>2
    <3> QED BY <3>1, <3>3
  <2>2. PICK place \in Places \ {"numbered"} : at' = [at EXCEPT ![c] = place]
    BY <1>6 DEF Begin, CommandDies, Create, Found, ReadHolder, RemoveStale, Retry, WritePid, Release,
                Go, Places
  <2>3. c \in created => place \in {"made", "done", "dead"}
    <3>1. c \in created => at[c] \in {"made", "done", "dead"}
      BY <1>4
    <3>2. at'[c] = place
      BY <1>4, <2>2
    <3>3. CASE CommandDies(c) \/ Release(c)
      BY <1>4, <3>2, <3>3 DEF CommandDies, Release, Go
    <3>4. CASE ~(CommandDies(c) \/ Release(c))
      BY <1>6, <3>1, <3>4 DEF Begin, Create, Found, ReadHolder, RemoveStale, Retry, WritePid
    <3> QED BY <3>3, <3>4
  <2>4. /\ \A d \in Creators : at'[d] = "numbered" => at[d] = "numbered"
        /\ \A d \in created : at'[d] \in {"made", "done", "dead"}
    BY <1>4, <2>2, <2>3
  <2> QED BY <1>1, <2>1, <2>4, NoNumberKeeps
<1> QED BY <1>2, <1>3, <1>5, <1>6 DEF NumbersNext, CreatorStep

LEMMA NumbersBegin == NumbersInit => NumbersInv
<1> SUFFICES ASSUME NumbersInit PROVE NumbersInv
  OBVIOUS
<1>1. KindTyped /\ kind \in Mixes
  BY NumbersAssumption DEF NumbersInit, KindTyped, NumbersAssumption
<1>2. at \in [Creators -> Places] /\ \A c \in Creators : at[c] = "idle"
  BY DEF NumbersInit, Places
<1>3. LockTyped /\ broken = FALSE /\ epoch \in 0..1
  BY DEF NumbersInit, LockTyped, NoLock, Pids
<1>4. SoleApplication /\ SoleHolder /\ BrokenByCommand
  BY <1>2, <1>3 DEF SoleApplication, SoleHolder, BrokenByCommand, Moving, AtWork
<1>5. NumbersTypeOK
  <2>1. waits \in [Creators -> 0..MaxWaits] /\ nextNumber \in [Creators -> Nat] /\ created \subseteq Creators
    BY NumbersAssumption DEF NumbersInit, NumbersAssumption
  <2> QED BY <1>1, <1>2, <1>3, <2>1 DEF NumbersTypeOK
<1>6. SpecNumbers = OldSpecs
  BY DEF NumbersInit, SpecNumbers
<1>7. IsFiniteSet(SpecNumbers)
  BY <1>6, NumbersAssumption DEF NumbersAssumption
<1>8. CreatedAfterwards /\ Fresh /\ BesideWorktrees
  BY <1>2 DEF NumbersInit, CreatedAfterwards, Fresh, BesideWorktrees, Numbered
<1> QED BY <1>1, <1>2, <1>3, <1>4, <1>5, <1>7, <1>8 DEF NumbersInv, LockInv

LEMMA NumbersKeep == NumbersSpec => []NumbersInv
<1>1. NumbersInit => NumbersInv
  BY NumbersBegin
<1>2. NumbersInv /\ [NumbersNext]_numbersVars => NumbersInv'
  <2>1. ASSUME NumbersInv, NumbersNext PROVE NumbersInv'
    <3>1. LockInv
      BY <2>1 DEF NumbersInv
    <3>2. LockInv'
      BY <2>1, <3>1, LockStepKeeps, CrashKeeps DEF NumbersNext
    <3> QED BY <2>1, <3>2, NumbersStepKeeps
  <2>2. ASSUME NumbersInv, UNCHANGED numbersVars PROVE NumbersInv'
    <3> USE <2>2 DEF numbersVars, NumbersInv
    <3>1. LockInv'
      BY DEF LockInv, KindTyped, LockTyped, SoleApplication, SoleHolder, BrokenByCommand, Moving,
             AtWork, Locked
    <3>2. NumbersTypeOK' /\ IsFiniteSet(SpecNumbers)' /\ CreatedAfterwards'
      BY DEF NumbersTypeOK, SpecNumbers, CreatedAfterwards
    <3>3. Fresh' /\ BesideWorktrees'
      BY DEF Fresh, BesideWorktrees, Numbered, KeptApart
    <3> QED BY <3>1, <3>2, <3>3
  <2> QED BY <2>1, <2>2
<1> QED BY <1>1, <1>2, PTL DEF NumbersSpec

------------------------------------------------------------------------------
\* The requests of the lock's two implementations keep their places, waits and numbers
\* in range.
THEOREM NumbersTyped == NumbersSpec => []NumbersTypeOK
<1>1. NumbersInv => NumbersTypeOK
  BY DEF NumbersInv
<1> QED BY <1>1, NumbersKeep, PTL

\* Mutual exclusion of the requests under the lock, until a waiter removes it from under
\* one of them, which the application never does to itself.
THEOREM LockHasOneHolder == NumbersSpec => []OneHolder
<1>1. NumbersInv => OneHolder
  BY DEF NumbersInv, LockInv, SoleHolder, BrokenByCommand, OneHolder
<1> QED BY <1>1, NumbersKeep, PTL

\* Specs made under the lock get numbers of their own, and not those of a worktree; two
\* share one only if a command and a handler without the lock met, or beyond 999.
THEOREM NumbersAreUnique == NumbersSpec => []NumbersUnique
<1>1. ASSUME NumbersInv PROVE NumbersUnique
  <2> SUFFICES ASSUME NEW c \in created, ~broken, ~(nextNumber[c] >= 1000)
               PROVE  /\ nextNumber[c] \in OldWorktrees => kind[c] = "plain"
                      /\ \A d \in created \ {c} :
                           nextNumber[d] = nextNumber[c] => {kind[c], kind[d]} = {"plain", "cli"}
    BY DEF NumbersUnique
  <2>1. created \subseteq Creators /\ kind \in [Creators -> Kinds]
    BY <1>1 DEF NumbersInv, NumbersTypeOK, LockInv, KindTyped
  <2>2. nextNumber[c] \in OldWorktrees => kind[c] = "plain"
    BY <1>1, <2>1 DEF NumbersInv, BesideWorktrees, Numbered
  <2>3. ASSUME NEW d \in created \ {c}, nextNumber[d] = nextNumber[c]
        PROVE  {kind[c], kind[d]} = {"plain", "cli"}
    <3>1. ~KeptApart(c, d)
      BY <1>1, <2>1, <2>3 DEF NumbersInv, Fresh, Numbered
    <3>2. kind[c] \in Kinds /\ kind[d] \in Kinds
      BY <2>1
    <3>3. (kind[c] = "plain" /\ kind[d] = "cli") \/ (kind[c] = "cli" /\ kind[d] = "plain")
      BY <3>1, <3>2 DEF KeptApart, Kinds
    <3> QED BY <3>3
  <2> QED BY <2>2, <2>3
<1> QED BY <1>1, NumbersKeep, PTL

------------------------------------------------------------------------------
(* How long a request takes.                                               *)

\* The requests that may still ask for the lock.
Before == {"idle", "trying", "reading", "removing", "waiting"}

\* The lock files that are there or may still come, each by its maker.  A request
\* makes one when it creates the file; a command makes another one if it finds it
\* gone when it writes its pid.
FilesToCreate ==
  {c \in Creators : at[c] \in Before \/ (c \in lockFile.maker /\ at[c] = "owning")}
FilesToRewrite ==
  {c \in Creators : at[c] \in Before \cup {"owning"} \/ (c \in lockFile.maker /\ at[c] # "owning")}

\* How far a request is from its end, if it removes no file of another one.
Distance(c) ==
  LET w == 4 * (MaxWaits - waits[c])
  IN CASE at[c] = "idle"     -> w + 11
       [] at[c] = "trying"   -> w + 10
       [] at[c] = "reading"  -> w + 9
       [] at[c] = "removing" -> w + 8
       [] at[c] = "waiting"  -> w + 7
       [] at[c] = "owning"   -> 4
       [] at[c] = "holding"  -> 3
       [] at[c] = "numbered" -> 2
       [] at[c] = "made"     -> 1
       [] at[c] \in Over     -> 0

\* Each step of a request brings it nearer to its end or removes a lock file for good,
\* and no step of another one, or crash, takes it back.
RequestsAdvance ==
  [][/\ FilesToCreate' \subseteq FilesToCreate /\ FilesToRewrite' \subseteq FilesToRewrite
     /\ UNCHANGED <<FilesToCreate, FilesToRewrite>> =>
          \A c \in Creators : /\ Distance(c)' <= Distance(c)
                              /\ Begin(c) \/ CreatorStep(c) => Distance(c)' < Distance(c)]_numbersVars

\* The maker of a lock file is past the lock.
MakerIsPast == \A c \in lockFile.maker : at[c] \notin Before

\* How a request moves, and what it does to the lock file.
LEMMA Moves ==
  ASSUME NumbersTypeOK, NEW c \in Creators, Begin(c) \/ CreatorStep(c) \/ CommandDies(c)
  PROVE  /\ \A d \in Creators \ {c} : at'[d] = at[d] /\ waits'[d] = waits[d]
         /\ at'[c] \in Before => at[c] \in Before
         /\ at'[c] = "owning" => Create(c)
         /\ \/ Create(c)
            \/ \A d \in lockFile'.maker : d \in lockFile.maker \/ (d = c /\ at[c] = "owning")
<1>. USE DEF NumbersTypeOK, Go, Before
<1>1. CASE Begin(c) BY <1>1 DEF Begin
<1>2. CASE Create(c) BY <1>2 DEF Create
<1>3. CASE Found(c) BY <1>3 DEF Found
<1>4. CASE ReadHolder(c) BY <1>4 DEF ReadHolder
<1>5. CASE RemoveStale(c) BY <1>5 DEF RemoveStale, NoLock
<1>6. CASE Retry(c) BY <1>6 DEF Retry
<1>7. CASE WritePid(c)
  <2>1. \A d \in lockFile'.maker : d \in lockFile.maker \/ d = c BY <1>7 DEF WritePid
  <2>. QED BY <1>7, <2>1 DEF WritePid
<1>8. CASE GetNextSpecNumber(c) BY <1>8 DEF GetNextSpecNumber
<1>9. CASE CreateSpec(c) BY <1>9 DEF CreateSpec
<1>10. CASE Release(c) BY <1>10 DEF Release, NoLock
<1>11. CASE CommandDies(c) BY <1>11 DEF CommandDies
<1>. QED BY <1>1, <1>2, <1>3, <1>4, <1>5, <1>6, <1>7, <1>8, <1>9, <1>10, <1>11 DEF CreatorStep

LEMMA MakerStaysPast ==
  ASSUME NumbersTypeOK, lockFile.maker \subseteq Creators, MakerIsPast, [NumbersNext]_numbersVars
  PROVE  MakerIsPast'
<1>1. CASE UNCHANGED numbersVars BY <1>1 DEF numbersVars, MakerIsPast
<1>2. CASE ApplicationDies
  BY <1>2 DEF ApplicationDies, MakerIsPast, Before
<1>3. ASSUME NEW c \in Creators, Begin(c) \/ CreatorStep(c) \/ CommandDies(c)
      PROVE  MakerIsPast'
  <2>1. CASE Create(c)
    <3>1. lockFile'.maker = {c} /\ at'[c] = "owning" BY <2>1 DEF Create, Go, NumbersTypeOK
    <3>. QED BY <3>1 DEF MakerIsPast, Before
  <2>2. CASE ~Create(c)
    <3>1. SUFFICES ASSUME NEW d \in lockFile'.maker PROVE at'[d] \notin Before
      BY DEF MakerIsPast
    <3>2. d \in Creators /\ at[d] \notin Before
      BY <1>3, <2>2, Moves DEF MakerIsPast, Before
    <3>. QED BY <1>3, <3>2, Moves
  <2>. QED BY <2>1, <2>2
<1>. QED BY <1>1, <1>2, <1>3 DEF NumbersNext

\* No step makes a lock file that was not to come.
LEMMA FilesFall ==
  ASSUME NumbersTypeOK, NumbersNext
  PROVE  FilesToCreate' \subseteq FilesToCreate /\ FilesToRewrite' \subseteq FilesToRewrite
<1>1. CASE ApplicationDies
  <2>1. lockFile' = lockFile /\ \A d \in Creators : at'[d] = at[d] \/ at'[d] = "dead"
    BY <1>1 DEF ApplicationDies
  <2>. QED BY <2>1 DEF FilesToCreate, FilesToRewrite, Before
<1>2. ASSUME NEW c \in Creators, Begin(c) \/ CreatorStep(c) \/ CommandDies(c)
      PROVE  FilesToCreate' \subseteq FilesToCreate /\ FilesToRewrite' \subseteq FilesToRewrite
  <2>1. CASE Create(c)
    <3>1. /\ lockFile'.maker = {c} /\ at[c] = "trying" /\ at'[c] = "owning"
          /\ \A d \in Creators \ {c} : at'[d] = at[d]
      BY <2>1 DEF Create, Go, NumbersTypeOK
    <3>. QED BY <3>1 DEF FilesToCreate, FilesToRewrite, Before
  <2>2. CASE ~Create(c)
    <3>1. /\ \A d \in Creators \ {c} : at'[d] = at[d]
          /\ at'[c] \in Before => at[c] \in Before
          /\ at'[c] # "owning"
          /\ \A d \in lockFile'.maker : d \in lockFile.maker \/ (d = c /\ at[c] = "owning")
      BY <1>2, <2>2, Moves
    <3>. QED BY <3>1 DEF FilesToCreate, FilesToRewrite
  <2>. QED BY <2>1, <2>2
<1>. QED BY <1>1, <1>2 DEF NumbersNext

\* A lock file that is removed does not come back.
LEMMA RemovedForGood ==
  ASSUME NumbersTypeOK, LockInv, MakerIsPast, NEW c \in Creators, RemoveStale(c), Locked
  PROVE  ~UNCHANGED <<FilesToCreate, FilesToRewrite>>
<1>1. PICK m \in Creators : m \in lockFile.maker
  BY DEF LockInv, LockTyped, Locked
<1>2. lockFile'.maker = {} /\ at[c] = "removing" /\ \A d \in Creators \ {c} : at'[d] = at[d]
  BY DEF RemoveStale, NoLock, Go, NumbersTypeOK
<1>3. at[m] \notin Before /\ at'[m] = at[m] BY <1>1, <1>2 DEF MakerIsPast, Before
<1>4. CASE at[m] = "owning"
  BY <1>1, <1>2, <1>3, <1>4 DEF FilesToCreate
<1>5. CASE at[m] # "owning"
  BY <1>1, <1>2, <1>3, <1>5 DEF FilesToRewrite
<1>. QED BY <1>4, <1>5

\* Distance by the place.
LEMMA DistanceIs ==
  ASSUME NumbersTypeOK, NEW c \in Creators
  PROVE  /\ Distance(c) \in Nat /\ 4 * (MaxWaits - waits[c]) \in Nat
         /\ at[c] = "idle" => Distance(c) = 4 * (MaxWaits - waits[c]) + 11
         /\ at[c] = "trying" => Distance(c) = 4 * (MaxWaits - waits[c]) + 10
         /\ at[c] = "reading" => Distance(c) = 4 * (MaxWaits - waits[c]) + 9
         /\ at[c] = "removing" => Distance(c) = 4 * (MaxWaits - waits[c]) + 8
         /\ at[c] = "waiting" => Distance(c) = 4 * (MaxWaits - waits[c]) + 7
         /\ at[c] = "owning" => Distance(c) = 4
         /\ at[c] = "holding" => Distance(c) = 3
         /\ at[c] = "numbered" => Distance(c) = 2
         /\ at[c] = "made" => Distance(c) = 1
<1>1. MaxWaits \in Nat /\ waits[c] \in 0..MaxWaits /\ at[c] \in Places
  BY NumbersAssumption DEF NumbersTypeOK, NumbersAssumption
<1>2. 4 * (MaxWaits - waits[c]) \in Nat BY <1>1
<1>. QED BY <1>1, <1>2 DEF Distance, Places, Over

\* A step of the request itself.
LEMMA Advances ==
  ASSUME NumbersTypeOK, NumbersTypeOK', NEW c \in Creators, Begin(c) \/ CreatorStep(c),
         ~(RemoveStale(c) /\ Locked)
  PROVE  Distance(c)' < Distance(c)
<1>. DEFINE w == 4 * (MaxWaits - waits[c])
            v == 4 * (MaxWaits - waits'[c])
<1>1. /\ Distance(c) \in Nat /\ w \in Nat
      /\ at[c] = "idle" => Distance(c) = w + 11
      /\ at[c] = "trying" => Distance(c) = w + 10
      /\ at[c] = "reading" => Distance(c) = w + 9
      /\ at[c] = "removing" => Distance(c) = w + 8
      /\ at[c] = "waiting" => Distance(c) = w + 7
      /\ at[c] = "owning" => Distance(c) = 4
      /\ at[c] = "holding" => Distance(c) = 3
      /\ at[c] = "numbered" => Distance(c) = 2
      /\ at[c] = "made" => Distance(c) = 1
  BY DistanceIs
<1>2. /\ at'[c] = "trying" => Distance(c)' = v + 10
      /\ at'[c] = "reading" => Distance(c)' = v + 9
      /\ at'[c] = "removing" => Distance(c)' = v + 8
      /\ at'[c] = "waiting" => Distance(c)' = v + 7
      /\ at'[c] = "owning" => Distance(c)' = 4
      /\ at'[c] = "holding" => Distance(c)' = 3
      /\ at'[c] = "numbered" => Distance(c)' = 2
      /\ at'[c] = "made" => Distance(c)' = 1
      /\ at'[c] \in Over => Distance(c)' = 0
  BY DEF Distance, Over
<1>3. waits'[c] = waits[c] => v = w OBVIOUS
<1>4. waits'[c] = waits[c] + 1 => v = w - 4
  BY NumbersAssumption DEF NumbersTypeOK, NumbersAssumption
<1>5. v \in Nat BY NumbersAssumption DEF NumbersTypeOK, NumbersAssumption
<1>. HIDE DEF w, v
<1>6. at \in [Creators -> Places] BY DEF NumbersTypeOK
<1>7. CASE Begin(c)
  <2>1. at[c] = "idle" /\ at'[c] \in {"holding", "trying"} /\ waits' = waits
    BY <1>6, <1>7 DEF Begin, Go
  <2>. QED BY <1>1, <1>2, <1>3, <2>1
<1>8. CASE Create(c)
  <2>1. at[c] = "trying" /\ at'[c] = "owning" BY <1>6, <1>8 DEF Create, Go
  <2>. QED BY <1>1, <1>2, <2>1
<1>9. CASE Found(c)
  <2>1. at[c] = "trying" /\ at'[c] = "reading" /\ waits' = waits BY <1>6, <1>9 DEF Found, Go
  <2>. QED BY <1>1, <1>2, <1>3, <2>1
<1>10. CASE ReadHolder(c)
  <2>1. at[c] = "reading" /\ at'[c] \in {"removing", "waiting", "failed"} /\ waits' = waits
    BY <1>6, <1>10 DEF ReadHolder, Go
  <2>. QED BY <1>1, <1>2, <1>3, <2>1 DEF Over
<1>11. CASE RemoveStale(c)
  <2>1. at[c] = "removing" /\ at'[c] \in {"waiting", "failed"} /\ waits' = waits
    BY <1>6, <1>11 DEF RemoveStale, Go
  <2>. QED BY <1>1, <1>2, <1>3, <2>1 DEF Over
<1>12. CASE Retry(c)
  <2>1. at[c] = "waiting" /\ \/ at'[c] = "trying" /\ waits'[c] = waits[c] + 1
                             \/ at'[c] = "failed"
    BY <1>6, <1>12 DEF Retry, Go, NumbersTypeOK
  <2>. QED BY <1>1, <1>2, <1>4, <1>5, <2>1 DEF Over
<1>13. CASE WritePid(c)
  <2>1. at[c] = "owning" /\ at'[c] = "holding" BY <1>6, <1>13 DEF WritePid, Go
  <2>. QED BY <1>1, <1>2, <2>1
<1>14. CASE GetNextSpecNumber(c)
  <2>1. at[c] = "holding" /\ at'[c] = "numbered" BY <1>6, <1>14 DEF GetNextSpecNumber, Go
  <2>. QED BY <1>1, <1>2, <2>1
<1>15. CASE CreateSpec(c)
  <2>1. at[c] = "numbered" /\ at'[c] = "made" BY <1>6, <1>15 DEF CreateSpec, Go
  <2>. QED BY <1>1, <1>2, <2>1
<1>16. CASE Release(c)
  <2>1. at[c] = "made" /\ at'[c] = "done" BY <1>6, <1>16 DEF Release, Go
  <2>. QED BY <1>1, <1>2, <2>1 DEF Over
<1>. QED BY <1>7, <1>8, <1>9, <1>10, <1>11, <1>12, <1>13, <1>14, <1>15, <1>16 DEF CreatorStep

\* A step of another request, and a crash.
LEMMA OthersLeave ==
  ASSUME NumbersTypeOK, NEW c \in Creators, NumbersNext, ~Begin(c), ~CreatorStep(c)
  PROVE  Distance(c)' <= Distance(c)
<1>1. Distance(c) \in Nat BY DistanceIs
<1>2. CASE at'[c] = at[c] /\ waits'[c] = waits[c]
  <2>1. Distance(c)' = Distance(c) BY <1>2 DEF Distance
  <2>. QED BY <1>1, <2>1
<1>3. CASE at'[c] = "dead"
  <2>1. Distance(c)' = 0 BY <1>3 DEF Distance, Over
  <2>. QED BY <1>1, <2>1
<1>4. CASE ApplicationDies BY <1>2, <1>3, <1>4 DEF ApplicationDies
<1>5. CASE CommandDies(c) BY <1>3, <1>5 DEF CommandDies, Go, NumbersTypeOK
<1>6. ASSUME NEW d \in Creators \ {c}, Begin(d) \/ CreatorStep(d) \/ CommandDies(d)
      PROVE  Distance(c)' <= Distance(c)
  BY <1>2, <1>6, Moves
<1>. QED BY <1>4, <1>5, <1>6 DEF NumbersNext

\* No request tries for ever, whoever else asks, dies, or leaves a lock behind: of the
\* locks it can wait for or take away only finitely many are to come, two for each other
\* request, and its waits are counted.
THEOREM RequestsFinish == NumbersSpec => RequestsAdvance
<1>1. NumbersInit => MakerIsPast BY DEF NumbersInit, MakerIsPast, NoLock
<1>2. NumbersInv /\ MakerIsPast /\ [NumbersNext]_numbersVars => MakerIsPast'
  BY MakerStaysPast DEF NumbersInv, LockInv, LockTyped
<1>3. ASSUME NumbersInv, NumbersInv', MakerIsPast, NumbersNext
      PROVE  /\ FilesToCreate' \subseteq FilesToCreate /\ FilesToRewrite' \subseteq FilesToRewrite
             /\ UNCHANGED <<FilesToCreate, FilesToRewrite>> =>
                  \A c \in Creators : /\ Distance(c)' <= Distance(c)
                                      /\ Begin(c) \/ CreatorStep(c) => Distance(c)' < Distance(c)
  <2>1. NumbersTypeOK /\ NumbersTypeOK' /\ LockInv BY <1>3 DEF NumbersInv
  <2>2. FilesToCreate' \subseteq FilesToCreate /\ FilesToRewrite' \subseteq FilesToRewrite
    BY <1>3, <2>1, FilesFall
  <2>3. ASSUME UNCHANGED <<FilesToCreate, FilesToRewrite>>, NEW c \in Creators
        PROVE  /\ Distance(c)' <= Distance(c)
               /\ Begin(c) \/ CreatorStep(c) => Distance(c)' < Distance(c)
    <3>1. CASE Begin(c) \/ CreatorStep(c)
      <4>1. ~(RemoveStale(c) /\ Locked) BY <1>3, <2>1, <2>3, RemovedForGood
      <4>2. Distance(c)' < Distance(c) BY <2>1, <3>1, <4>1, Advances
      <4>3. Distance(c) \in Nat /\ Distance(c)' \in Nat
        <5>1. Distance(c) \in Nat BY <2>1, DistanceIs
        <5>2. MaxWaits \in Nat /\ waits'[c] \in 0..MaxWaits /\ at'[c] \in Places
          BY <2>1, NumbersAssumption DEF NumbersTypeOK, NumbersAssumption
        <5>3. 4 * (MaxWaits - waits'[c]) \in Nat BY <5>2
        <5>4. Distance(c)' \in Nat BY <5>2, <5>3 DEF Distance, Places, Over
        <5>. QED BY <5>1, <5>4
      <4>. QED BY <4>2, <4>3
    <3>2. CASE ~Begin(c) /\ ~CreatorStep(c) BY <1>3, <2>1, <3>2, OthersLeave
    <3>. QED BY <3>1, <3>2
  <2>. QED BY <2>2, <2>3
<1>4. NumbersInv /\ NumbersInv' /\ MakerIsPast /\ [NumbersNext]_numbersVars =>
        [/\ FilesToCreate' \subseteq FilesToCreate /\ FilesToRewrite' \subseteq FilesToRewrite
         /\ UNCHANGED <<FilesToCreate, FilesToRewrite>> =>
              \A c \in Creators : /\ Distance(c)' <= Distance(c)
                                  /\ Begin(c) \/ CreatorStep(c) => Distance(c)' < Distance(c)]_numbersVars
  BY <1>3
<1>. QED BY <1>1, <1>2, <1>4, NumbersKeep, PTL DEF NumbersSpec, RequestsAdvance

==============================================================================
