--------------------------- MODULE JobSystemProofs ---------------------------
(***************************************************************************)
(* Proofs about the job subsystem, for any set of ids, owners and workers, *)
(* any bounds and any subset of the faults and shutdowns.                  *)
(*                                                                         *)
(*   TypeCorrect, StoreIsBounded                                           *)
(*   the inductive invariant PoolInv /\ AgesInv, and from it JobsRunOnce,  *)
(*   JobsAreHeld and the action property JobsMoveForward                   *)
(*   FilesInv, and from it CompletedMeansWritten and DownloadsAreWhole     *)
(*   FilesHaveKeepers, until a crash and when no write or delete fails     *)
(*   ServiceIsImplemented: the refinement of JobService, by ServingInv     *)
(***************************************************************************)
EXTENDS JobSystem, FiniteSetTheorems, TLAPS

USE DEF Nothing, NotFinished, NoError, ErrorCodes, Live, Terminal, Absent, Kinds

-----------------------------------------------------------------------------
(* The store's operations keep its types.                                  *)

\* Older keeps an age inside its range.
LEMMA OlderType ==
    ASSUME NEW age \in NotFinished..Retention
    PROVE  Older(age) \in NotFinished..Retention
BY StoreAssumption DEF Older

\* `create` keeps the types of the store.
LEMMA CreateType ==
    ASSUME StoreTypeOK, NEW j \in Ids, NEW o \in Owners, NEW k \in Kinds, Create(j, o, k)
    PROVE  StoreTypeOK'
BY DEF StoreTypeOK, Create

\* `mark_completed` and `mark_failed` keep the types of the store.
LEMMA CompletedType ==
    ASSUME StoreTypeOK, NEW j, NEW age \in NotFinished..Retention, MarkCompleted(j, age)
    PROVE  StoreTypeOK'
BY DEF StoreTypeOK, MarkCompleted

LEMMA FailedType ==
    ASSUME StoreTypeOK, NEW j, NEW age \in NotFinished..Retention, NEW code \in ErrorCodes,
           MarkFailed(j, code, age)
    PROVE  StoreTypeOK'
BY DEF StoreTypeOK, MarkFailed

\* Dropping entries keeps the types of the store.
LEMMA DropType ==
    ASSUME StoreTypeOK, NEW S \in SUBSET Ids, NEW gone \in Absent, Drop(S, gone)
    PROVE  StoreTypeOK'
BY StoreAssumption DEF StoreTypeOK, Drop

\* So does the passing of time.
LEMMA AgeType ==
    ASSUME StoreTypeOK, Age, UNCHANGED <<status, owner, kind, error>>
    PROVE  StoreTypeOK'
BY OlderType DEF StoreTypeOK, Age

-----------------------------------------------------------------------------
(* Type correctness.                                                       *)

\* TypeOK is not inductive: ReadFile looks up the file of the snapshot's job, so
\* the handler must have one, and Fail stores the outcome, which must be a code.
TypeInv ==
    /\ TypeOK
    /\ \A c \in Owners : dlAt[c] # "idle" => dlJob[c] \in Ids
    /\ \A w \in Workers : pc[w] = "fail" => outcome[w] \in ErrorCodes

\* The initial state is well typed.
LEMMA TypeInit == Init => TypeInv
BY StoreAssumption, SystemAssumption
   DEF Init, StoreInit, TypeInv, TypeOK, StoreTypeOK, Busy

\* The submit and download handlers keep the types.
LEMMA TypeHandler == ASSUME TypeInv, Handler PROVE TypeInv'
<1> USE DEF TypeInv
<1>1. ASSUME NEW j \in Ids, NEW o \in Owners, NEW k \in Kinds, Submit(j, o, k)
      PROVE  TypeInv'
  BY <1>1, CreateType DEF TypeOK, Submit, taskVars, clientVars, hostVars
<1>2. ASSUME NEW j \in Ids, TrySend(j) PROVE TypeInv'
  <2> DEFINE Subs == {"none", "created", "accepted", "full", "closed", "refused"}
  <2>1. queue' \in Seq(Ids) /\ sub' \in [Ids -> Subs]
    <3>1. queue \in Seq(Ids) /\ sub \in [Ids -> Subs]
      BY DEF TypeOK
    <3>2. queue' = Append(queue, j) \/ queue' = queue
      BY <1>2 DEF TrySend
    <3>3. queue' \in Seq(Ids)
      BY <3>1, <3>2
    <3>4. PICK x \in Subs : sub' = [sub EXCEPT ![j] = x]
      BY <1>2 DEF TrySend
    <3> QED
      BY <3>1, <3>3, <3>4
  <2> QED
    BY <1>2, <2>1 DEF TypeOK, TrySend, StoreTypeOK, storeVars, taskVars, clientVars, hostVars
<1>3. ASSUME NEW j \in Ids, RollBack(j) PROVE TypeInv'
  <2>1. StoreTypeOK'
    BY <1>3, FailedType, StoreAssumption DEF TypeOK, RollBack
  <2> QED
    BY <1>3, <2>1 DEF TypeOK, RollBack, taskVars, clientVars, hostVars
<1>4. ASSUME NEW c \in Owners, ReadFile(c) PROVE TypeInv'
  BY <1>4 DEF TypeOK, ReadFile, StoreTypeOK, storeVars, taskVars, hostVars
<1>5. ASSUME NEW c \in Owners, NEW j \in Ids, Fetch(c, j) PROVE TypeInv'
  BY <1>5 DEF TypeOK, Fetch, StoreTypeOK, storeVars, taskVars, hostVars
<1> QED
  BY <1>1, <1>2, <1>3, <1>4, <1>5 DEF Handler

\* A worker's steps keep the types.
LEMMA TypeWorker == ASSUME TypeInv, NEW w \in Workers, Worker(w) PROVE TypeInv'
<1> USE DEF TypeInv, TypeOK, storeVars, taskVars, clientVars, hostVars
<1>1. CASE Lock(w)
  BY <1>1 DEF Lock, StoreTypeOK, Busy
<1>2. CASE Recv(w)
  BY <1>2 DEF Recv, StoreTypeOK, Busy
<1>3. CASE RecvClosed(w) \/ AbortWorker(w)
  <2>1. Leave(w)
    BY <1>3 DEF RecvClosed, AbortWorker
  <2>2. queue' \in Seq(Ids)
    BY <2>1 DEF Leave
  <2> QED
    BY <2>1, <2>2 DEF Leave, StoreTypeOK, Busy
<1>4. CASE StartJob(w)
  <2>1. StoreTypeOK'
    <3>1. /\ UNCHANGED <<owner, kind, error, finished>>
          /\ status' = [status EXCEPT ![cur[w]] = IF cur[w] \in Stored THEN "running" ELSE @]
      BY <1>4 DEF StartJob, MarkRunning
    <3>2. status \in [Ids -> Live \cup Terminal \cup Absent] /\ "running" \in Live
      BY DEF StoreTypeOK, Live
    <3>3. status' \in [Ids -> Live \cup Terminal \cup Absent]
      BY <3>1, <3>2
    <3> QED
      BY <3>1, <3>3 DEF StoreTypeOK
  <2> QED
    BY <1>4, <2>1 DEF StartJob, Busy
<1>5. CASE Probed(w)
  BY <1>5 DEF Probed, StoreTypeOK, Busy
<1>11. CASE Trip(w)
  BY <1>11 DEF Trip, StoreTypeOK, Busy
<1>6. CASE ProbeFails(w) \/ WorkReturns(w)
  <2>1. PICK r \in ErrorCodes \cup {"ok"} : JobEnds(w, r)
    BY <1>6 DEF ProbeFails, WorkReturns, WorkResult
  <2> QED
    BY <2>1, StoreAssumption DEF JobEnds, StoreTypeOK, Busy
<1>7. CASE OpenFails(w) \/ WriteFails(w)
  <2>1. PersistFails(w)
    BY <1>7 DEF OpenFails, WriteFails
  <2> QED
    BY <2>1 DEF PersistFails, StoreTypeOK, Busy
<1>8. CASE OpenFile(w)
  <2>1. file' \in [Ids -> {"none", "partial", "full"}]
    BY <1>8 DEF OpenFile
  <2>2. pc' \in [Workers -> {"lock", "recv", "gone"} \cup Busy]
    BY <1>8 DEF OpenFile, Busy
  <2>3. StoreTypeOK' /\ \A v \in Workers : pc'[v] = "fail" => outcome'[v] \in ErrorCodes
    BY <1>8 DEF OpenFile, StoreTypeOK, Busy
  <2> QED
    BY <1>8, <2>1, <2>2, <2>3 DEF OpenFile
<1>12. CASE WriteFile(w)
  <2>1. file' \in [Ids -> {"none", "partial", "full"}]
    BY <1>12 DEF WriteFile
  <2>2. pc' \in [Workers -> {"lock", "recv", "gone"} \cup Busy]
    BY <1>12 DEF WriteFile, Busy
  <2>3. StoreTypeOK' /\ \A v \in Workers : pc'[v] = "fail" => outcome'[v] \in ErrorCodes
    BY <1>12 DEF WriteFile, StoreTypeOK, Busy
  <2> QED
    BY <1>12, <2>1, <2>2, <2>3 DEF WriteFile
<1>9. CASE Complete(w)
  <2>1. StoreTypeOK'
    <3>1. readAt[w] \in NotFinished..Retention
      BY <1>9 DEF Complete
    <3> QED
      BY <1>9, <3>1, CompletedType DEF Complete
  <2> QED
    BY <1>9, <2>1, StoreAssumption DEF Complete, NextJob, Busy
<1>10. CASE Fail(w)
  <2>1. StoreTypeOK'
    <3>1. readAt[w] \in NotFinished..Retention /\ outcome[w] \in ErrorCodes
      BY <1>10 DEF Fail
    <3> QED
      BY <1>10, <3>1, FailedType DEF Fail
  <2> QED
    BY <1>10, <2>1, StoreAssumption DEF Fail, NextJob, Busy
<1> QED
  BY <1>1, <1>2, <1>3, <1>4, <1>5, <1>6, <1>7, <1>8, <1>9, <1>10, <1>11, <1>12 DEF Worker

\* The sweep's and the host's steps keep the types.
LEMMA TypeHost == ASSUME TypeInv, Sweeper \/ Host PROVE TypeInv'
<1> USE DEF TypeInv, TypeOK, storeVars, taskVars, clientVars, hostVars
<1>1. CASE Reap
  <2>1. StoreTypeOK'
    BY <1>1, DropType DEF Reap, ReapExpired, Expired, Stored
  <2>2. reaping' \subseteq Ids
    BY <1>1 DEF Reap, ReapedPaths, Expired, Stored
  <2> QED
    BY <1>1, <2>1, <2>2 DEF Reap
<1>2. ASSUME NEW j \in Ids, RemoveFile(j) PROVE TypeInv'
  BY <1>2 DEF RemoveFile, StoreTypeOK
<1>3. CASE Tick
  <2>1. StoreTypeOK'
    BY <1>3, AgeType DEF Tick
  <2>2. readAt' \in [Workers -> NotFinished..Retention]
    BY <1>3, OlderType DEF Tick
  <2> QED
    BY <1>3, <2>1, <2>2 DEF Tick
<1>4. CASE DropSender
  BY <1>4 DEF DropSender, StoreTypeOK
<1>6. CASE DropGuards
  BY <1>6 DEF DropGuards, StoreTypeOK
<1>7. CASE AbortSweeper
  BY <1>7 DEF AbortSweeper, StoreTypeOK
<1>5. CASE Restart
  <2>1. StoreTypeOK'
    BY <1>5, DropType DEF Restart, Stored
  <2> QED
    BY <1>5, <2>1, StoreAssumption, SystemAssumption DEF Restart, Busy
<1> QED
  BY <1>1, <1>2, <1>3, <1>4, <1>5, <1>6, <1>7 DEF Sweeper, Host

\* Every step keeps the types.
LEMMA TypeStep == TypeInv /\ [Next]_vars => TypeInv'
<1> SUFFICES ASSUME TypeInv, [Next]_vars PROVE TypeInv'
  OBVIOUS
<1>1. CASE Next
  BY <1>1, TypeHandler, TypeWorker, TypeHost DEF Next
<1>2. CASE UNCHANGED vars
  BY <1>2 DEF TypeInv, TypeOK, StoreTypeOK, vars, storeVars, taskVars, clientVars, hostVars
<1> QED
  BY <1>1, <1>2

LEMMA TypeInvariant == Spec => []TypeInv
BY TypeInit, TypeStep, PTL DEF Spec

\* In every reachable state every variable of the subsystem has its type.
THEOREM TypeCorrect == Spec => []TypeOK
<1>1. TypeInv => TypeOK
  BY DEF TypeInv
<1> QED
  BY <1>1, TypeInvariant, PTL

-----------------------------------------------------------------------------
(* The store never outgrows its cap.                                       *)

\* The set of entries is finite, whatever the set of possible ids is.
BoundInv == IsFiniteSet(Stored) /\ StoreBounded

\* No step but a submission adds an entry to the map.
LEMMA OnlySubmitAdds ==
    ASSUME TypeInv, [Next]_vars,
           ~ \E j \in Ids, o \in Owners, k \in Kinds : Submit(j, o, k)
    PROVE  Stored' \subseteq Stored
<1> USE DEF Stored
<1>1. status \in [Ids -> Live \cup Terminal \cup Absent]
  BY DEF TypeInv, TypeOK, StoreTypeOK
<1>2. CASE UNCHANGED status
  BY <1>2
<1>3. ASSUME NEW j \in Ids \cup {Nothing}, NEW x \in Live \cup Terminal,
             status' = [status EXCEPT ![j] = IF j \in Stored THEN x ELSE @]
      PROVE  Stored' \subseteq Stored
  BY <1>1, <1>3
<1>4. ASSUME NEW S \in SUBSET Ids, NEW gone \in Absent, Drop(S, gone)
      PROVE  Stored' \subseteq Stored
  BY <1>1, <1>4 DEF Drop
<1>5. ASSUME NEW w \in Workers, Worker(w) PROVE Stored' \subseteq Stored
  <2>1. cur[w] \in Ids \cup {Nothing}
    BY DEF TypeInv, TypeOK
  <2>2. CASE StartJob(w)
    BY <1>3, <2>1, <2>2 DEF StartJob, MarkRunning
  <2>3. CASE Complete(w)
    BY <1>3, <2>1, <2>3 DEF Complete, MarkCompleted
  <2>4. CASE Fail(w)
    BY <1>3, <2>1, <2>4 DEF Fail, MarkFailed
  <2>5. CASE ~(StartJob(w) \/ Complete(w) \/ Fail(w))
    <3>1. UNCHANGED status
      BY <1>5, <2>5
         DEF Worker, Lock, Recv, RecvClosed, AbortWorker, Leave, Probed, ProbeFails, Trip,
             WorkReturns, JobEnds, OpenFile, OpenFails, WriteFile, WriteFails, PersistFails,
             storeVars
    <3> QED
      BY <1>2, <3>1
  <2> QED
    BY <2>2, <2>3, <2>4, <2>5
<1>6. CASE Handler
  <2>1. ASSUME NEW j \in Ids, RollBack(j) PROVE Stored' \subseteq Stored
    BY <1>3, <2>1 DEF RollBack, MarkFailed
  <2>2. CASE ~ \E j \in Ids : RollBack(j)
    <3>1. UNCHANGED status
      BY <1>6, <2>2 DEF Handler, TrySend, ReadFile, Fetch, storeVars
    <3> QED
      BY <1>2, <3>1
  <2> QED
    BY <2>1, <2>2
<1>7. CASE Sweeper \/ Host
  <2>1. CASE Reap
    BY <1>4, <2>1 DEF Reap, ReapExpired, Expired
  <2>2. CASE Restart
    BY <1>4, <2>2 DEF Restart
  <2>3. CASE ~(Reap \/ Restart)
    BY <1>2, <1>7, <2>3
       DEF Sweeper, Host, RemoveFile, AbortSweeper, Tick, DropSender, DropGuards, storeVars
  <2> QED
    BY <2>1, <2>2, <2>3
<1> QED
  BY <1>2, <1>5, <1>6, <1>7 DEF Next, vars, storeVars

LEMMA BoundStep == TypeInv /\ BoundInv /\ [Next]_vars => BoundInv'
<1> SUFFICES ASSUME TypeInv, BoundInv, [Next]_vars PROVE BoundInv'
  OBVIOUS
<1>1. ASSUME NEW j \in Ids, NEW o \in Owners, NEW k \in Kinds, Submit(j, o, k)
      PROVE  BoundInv'
  <2>1. j \notin Stored /\ Stored' = Stored \cup {j}
    BY <1>1 DEF Submit, Create, Stored, TypeInv, TypeOK, StoreTypeOK
  <2>2. Cardinality(Stored) < MaxJobs
    BY <1>1 DEF Submit, Create, HasRoom
  <2>3. IsFiniteSet(Stored') /\ Cardinality(Stored') = Cardinality(Stored) + 1
    BY <2>1, FS_AddElement DEF BoundInv
  <2>4. Cardinality(Stored) \in Nat
    BY FS_CardinalityType DEF BoundInv
  <2> QED
    BY <2>2, <2>3, <2>4, StoreAssumption DEF BoundInv, StoreBounded
<1>2. CASE ~ \E j \in Ids, o \in Owners, k \in Kinds : Submit(j, o, k)
  <2>1. Stored' \subseteq Stored
    BY <1>2, OnlySubmitAdds
  <2>2. IsFiniteSet(Stored') /\ Cardinality(Stored') <= Cardinality(Stored)
    BY <2>1, FS_Subset DEF BoundInv
  <2>3. Cardinality(Stored) \in Nat /\ Cardinality(Stored') \in Nat
    BY <2>2, FS_CardinalityType DEF BoundInv
  <2> QED
    BY <2>2, <2>3, StoreAssumption DEF BoundInv, StoreBounded
<1> QED
  BY <1>1, <1>2

\* The map never holds more than max_jobs entries, refused submissions and
\* concurrent sweeps included.
THEOREM StoreIsBounded == Spec => []StoreBounded
<1>1. Init => BoundInv
  <2> SUFFICES ASSUME Init PROVE BoundInv
    OBVIOUS
  <2>1. Stored = {}
    BY DEF Init, StoreInit, Stored
  <2> QED
    BY <2>1, FS_EmptySet, StoreAssumption DEF BoundInv, StoreBounded
<1>2. BoundInv => StoreBounded
  BY DEF BoundInv
<1> QED
  BY <1>1, <1>2, TypeInvariant, BoundStep, PTL DEF Spec

-----------------------------------------------------------------------------
(* Where a job is.  OneRunner alone is not inductive: that a freshly drawn  *)
(* id is nowhere in the pool follows from what is known of every job that   *)
(* is, so the status of the jobs in each place is part of the invariant.    *)

PlacesInv ==
    /\ \A w \in Workers : cur[w] # Nothing <=> pc[w] \in Busy
    /\ \A w \in Workers : pc[w] \in Busy =>
          status[cur[w]] = (IF pc[w] = "picked" THEN "queued" ELSE "running")
    /\ \A j \in Ids : InQueue(j) => status[j] = "queued" /\ sub[j] = "accepted"
    /\ \A w \in Workers : cur[w] # Nothing => sub[cur[w]] = "accepted"
    /\ \A j \in Ids : sub[j] \in {"created", "full", "closed"} => status[j] = "queued"
    /\ \A j \in reaping : status[j] = "reaped"

\* OneRunner in terms of membership of the queue.
Separate ==
    /\ \A j \in Ids, w \in Workers : InQueue(j) => cur[w] # j
    /\ \A v, w \in Workers : cur[v] = cur[w] /\ cur[v] # Nothing => v = w
NoRepeats == \A i, k \in 1..Len(queue) : queue[i] = queue[k] => i = k

\* A job that has not ended has no finished_at, so the sweep passes it by.
AgesInv == \A j \in Ids : status[j] \in Live \cup {"free"} => finished[j] = NotFinished

\* The inductive invariant of the pool.
PoolInv == TypeInv /\ PlacesInv /\ Separate /\ NoRepeats

\* A job sent to the queue is in it, and so is what was in it before.
LEMMA SendQueue ==
    ASSUME queue \in Seq(Ids), NEW j \in Ids, queue' = Append(queue, j), NoRepeats, ~InQueue(j)
    PROVE  /\ NoRepeats'
           /\ \A k \in Ids : InQueue(k)' <=> (InQueue(k) \/ k = j)
<1>1. /\ Len(queue) \in Nat
      /\ Len(queue') = Len(queue) + 1
      /\ queue'[Len(queue) + 1] = j
      /\ \A i \in 1..Len(queue) : queue'[i] = queue[i]
  OBVIOUS
<1>2. NoRepeats'
  BY <1>1 DEF NoRepeats, InQueue
<1>3. ASSUME NEW k \in Ids PROVE InQueue(k)' <=> (InQueue(k) \/ k = j)
  BY <1>1 DEF InQueue
<1> QED
  BY <1>2, <1>3

\* What a worker takes leaves the queue, and nothing else does.
LEMMA TakeQueue ==
    ASSUME queue \in Seq(Ids), queue # <<>>, queue' = Tail(queue), NoRepeats
    PROVE  /\ NoRepeats'
           /\ Head(queue) \in Ids
           /\ InQueue(Head(queue))
           /\ \A k \in Ids : InQueue(k)' <=> (InQueue(k) /\ k # Head(queue))
<1>1. /\ Len(queue) \in Nat \ {0}
      /\ Len(queue') = Len(queue) - 1
      /\ Head(queue) = queue[1]
      /\ \A i \in 1..Len(queue) : queue[i] \in Ids
      /\ \A i \in 1..Len(queue') : queue'[i] = queue[i + 1]
  OBVIOUS
<1>2. NoRepeats'
  BY <1>1 DEF NoRepeats
<1>3. Head(queue) \in Ids /\ InQueue(Head(queue))
  BY <1>1 DEF InQueue
<1>4. ASSUME NEW k \in Ids PROVE InQueue(k)' <=> (InQueue(k) /\ k # Head(queue))
  <2>1. ASSUME NEW i \in 1..Len(queue'), queue'[i] = k
        PROVE  InQueue(k) /\ k # Head(queue)
    BY <1>1, <2>1 DEF InQueue, NoRepeats
  <2>2. ASSUME NEW i \in 1..Len(queue), queue[i] = k, k # Head(queue)
        PROVE  InQueue(k)'
    <3>1. i - 1 \in 1..Len(queue') /\ queue'[i - 1] = k
      BY <1>1, <2>2
    <3> QED
      BY <3>1 DEF InQueue
  <2> QED
    BY <2>1, <2>2 DEF InQueue
<1> QED
  BY <1>2, <1>3, <1>4

\* A queue that does not change, or is emptied, keeps or loses what it held.
LEMMA KeepQueue ==
    ASSUME NoRepeats, queue' = queue \/ queue' = <<>>
    PROVE  NoRepeats' /\ \A k \in Ids : InQueue(k)' => InQueue(k)
BY DEF NoRepeats, InQueue

\* The initial state satisfies the pool's invariant.
LEMMA PoolInit == Init => PoolInv
<1> SUFFICES ASSUME Init PROVE PoolInv
  OBVIOUS
<1>1. Len(queue) = 0
  BY DEF Init
<1> QED
  BY <1>1, TypeInit, SystemAssumption
     DEF Init, StoreInit, PoolInv, PlacesInv, Separate, NoRepeats, InQueue, Busy

\* The submit handler: a new job is nowhere in the pool, a sent one is only in
\* the queue, a refused one is nowhere again.
LEMMA PoolHandler == ASSUME PoolInv, TypeInv', Handler PROVE PoolInv'
<1> USE DEF PoolInv, PlacesInv, Separate
<1>0. /\ queue \in Seq(Ids) /\ Nothing \notin Ids
      /\ status \in [Ids -> Live \cup Terminal \cup Absent]
      /\ sub \in [Ids -> {"none", "created", "accepted", "full", "closed", "refused"}]
      /\ cur \in [Workers -> Ids \cup {Nothing}]
      /\ reaping \subseteq Ids
  BY SystemAssumption DEF TypeInv, TypeOK, StoreTypeOK
<1>1. ASSUME NEW j \in Ids, NEW o \in Owners, NEW k \in Kinds, Submit(j, o, k)
      PROVE  PoolInv'
  <2>1. NoRepeats' /\ \A i \in Ids : InQueue(i)' => InQueue(i)
    BY <1>1, KeepQueue DEF Submit
  <2> QED
    BY <1>0, <1>1, <2>1 DEF Submit, Create, taskVars, Stored
<1>2. ASSUME NEW j \in Ids, TrySend(j) PROVE PoolInv'
  <2>1. ~InQueue(j) /\ \A w \in Workers : cur[w] # j
    BY <1>0, <1>2 DEF TrySend
  <2>2. CASE queue' = Append(queue, j) /\ sub' = [sub EXCEPT ![j] = "accepted"]
    <3>1. NoRepeats' /\ \A i \in Ids : InQueue(i)' <=> (InQueue(i) \/ i = j)
      BY <1>0, <2>1, <2>2, SendQueue
    <3> QED
      BY <1>0, <1>2, <2>1, <2>2, <3>1 DEF TrySend, storeVars, taskVars
  <2>3. ASSUME NEW x \in {"full", "closed"}, queue' = queue, sub' = [sub EXCEPT ![j] = x]
        PROVE  PoolInv'
    <3>1. NoRepeats' /\ \A i \in Ids : InQueue(i)' => InQueue(i)
      BY <2>3, KeepQueue
    <3> QED
      BY <1>0, <1>2, <2>1, <2>3, <3>1 DEF TrySend, storeVars, taskVars
  <2> QED
    BY <1>2, <2>2, <2>3 DEF TrySend
<1>3. ASSUME NEW j \in Ids, RollBack(j) PROVE PoolInv'
  <2>1. NoRepeats' /\ \A i \in Ids : InQueue(i)' => InQueue(i)
    BY <1>3, KeepQueue DEF RollBack
  <2>2. status' = [status EXCEPT ![j] = "failed"] /\ sub' = [sub EXCEPT ![j] = "refused"]
    BY <1>0, <1>3 DEF RollBack, MarkFailed, Stored
  <2>3. ~InQueue(j) /\ \A w \in Workers : cur[w] # j
    BY <1>0, <1>3 DEF RollBack
  <2> QED
    BY <1>0, <1>3, <2>1, <2>2, <2>3 DEF RollBack, taskVars
<1>4. ASSUME NEW c \in Owners, ReadFile(c) \/ \E j \in Ids : Fetch(c, j) PROVE PoolInv'
  <2>1. NoRepeats' /\ \A i \in Ids : InQueue(i)' => InQueue(i)
    BY <1>4, KeepQueue DEF ReadFile, Fetch
  <2>2. UNCHANGED <<status, sub, pc, cur, reaping>>
    BY <1>4 DEF ReadFile, Fetch, storeVars, taskVars
  <2> QED
    BY <1>0, <2>1, <2>2
<1> QED
  BY <1>1, <1>2, <1>3, <1>4 DEF Handler

\* A worker's steps: the job it takes leaves the queue, the job it holds goes
\* from queued to running to its end, and it lets go of it then.
LEMMA PoolWorker == ASSUME PoolInv, TypeInv', NEW w \in Workers, Worker(w) PROVE PoolInv'
<1> USE DEF PoolInv, PlacesInv, Separate
<1>0. /\ queue \in Seq(Ids) /\ Nothing \notin Ids
      /\ status \in [Ids -> Live \cup Terminal \cup Absent]
      /\ sub \in [Ids -> {"none", "created", "accepted", "full", "closed", "refused"}]
      /\ cur \in [Workers -> Ids \cup {Nothing}]
      /\ pc \in [Workers -> {"lock", "recv", "gone"} \cup Busy]
      /\ reaping \subseteq Ids
  BY SystemAssumption DEF TypeInv, TypeOK, StoreTypeOK
<1>1. CASE Recv(w)
  <2>1. /\ NoRepeats'
        /\ Head(queue) \in Ids /\ InQueue(Head(queue))
        /\ \A k \in Ids : InQueue(k)' <=> (InQueue(k) /\ k # Head(queue))
    BY <1>0, <1>1, TakeQueue DEF Recv
  <2>2. /\ cur' = [cur EXCEPT ![w] = Head(queue)]
        /\ pc' = [pc EXCEPT ![w] = "picked"]
        /\ UNCHANGED <<status, sub, reaping>>
    BY <1>1 DEF Recv, storeVars
  <2> QED
    BY <1>0, <2>1, <2>2 DEF Busy
<1>2. CASE RecvClosed(w) \/ AbortWorker(w)
  <2>1. Leave(w)
    BY <1>2 DEF RecvClosed, AbortWorker
  <2>2. NoRepeats' /\ \A k \in Ids : InQueue(k)' => InQueue(k)
    BY <2>1, KeepQueue DEF Leave
  <2> QED
    BY <1>0, <2>1, <2>2 DEF Leave, storeVars, Busy
<1>3. CASE StartJob(w)
  <2>1. NoRepeats' /\ \A k \in Ids : InQueue(k)' => InQueue(k)
    BY <1>3, KeepQueue DEF StartJob
  <2>2. cur[w] \in Ids /\ status[cur[w]] = "queued"
    BY <1>0, <1>3 DEF StartJob, Busy
  <2>3. status' = [status EXCEPT ![cur[w]] = "running"]
    BY <1>0, <1>3, <2>2 DEF StartJob, MarkRunning, Stored
  <2>4. PICK p \in {"probe", "work"} : pc' = [pc EXCEPT ![w] = p]
    BY <1>3 DEF StartJob
  <2>5. UNCHANGED <<sub, cur, reaping>>
    BY <1>3 DEF StartJob
  <2>6. sub[cur[w]] = "accepted" /\ ~InQueue(cur[w])
    BY <1>0, <1>3 DEF StartJob, Busy
  <2> QED
    BY <1>0, <1>3, <2>1, <2>2, <2>3, <2>4, <2>5, <2>6 DEF StartJob, Busy
<1>4. CASE Complete(w) \/ Fail(w)
  <2>1. NoRepeats' /\ \A k \in Ids : InQueue(k)' => InQueue(k)
    BY <1>4, KeepQueue DEF Complete, Fail, NextJob
  <2>2. cur[w] \in Ids /\ status[cur[w]] = "running" /\ sub[cur[w]] = "accepted"
    BY <1>0, <1>4 DEF Complete, Fail, Busy
  <2>3. PICK x \in Terminal : status' = [status EXCEPT ![cur[w]] = x]
    BY <1>0, <1>4, <2>2 DEF Complete, Fail, MarkCompleted, MarkFailed, Stored
  <2>4. /\ cur' = [cur EXCEPT ![w] = Nothing]
        /\ pc' = [pc EXCEPT ![w] = "lock"]
        /\ UNCHANGED <<sub, reaping>>
    BY <1>4 DEF Complete, Fail, NextJob
  <2> QED
    BY <1>0, <2>1, <2>2, <2>3, <2>4 DEF Busy
<1>5. CASE Lock(w)
  <2>1. NoRepeats' /\ \A k \in Ids : InQueue(k)' => InQueue(k)
    BY <1>5, KeepQueue DEF Lock
  <2> QED
    BY <1>0, <1>5, <2>1 DEF Lock, storeVars, Busy
<1>6. ASSUME NEW p \in Busy \ {"picked"}, pc[w] \in Busy \ {"picked"},
             pc' = [pc EXCEPT ![w] = p] \/ pc' = pc,
             UNCHANGED <<status, sub, queue, cur, reaping>>
      PROVE  PoolInv'
  <2>1. NoRepeats' /\ \A k \in Ids : InQueue(k)' => InQueue(k)
    BY <1>6, KeepQueue
  <2> QED
    BY <1>0, <1>6, <2>1
<1>7. CASE ~(Recv(w) \/ RecvClosed(w) \/ AbortWorker(w) \/ StartJob(w) \/ Complete(w)
             \/ Fail(w) \/ Lock(w))
  <2>1. CASE Trip(w)
    BY <1>6, <2>1 DEF Trip, storeVars, Busy
  <2>2. CASE ProbeFails(w) \/ WorkReturns(w)
    <3>1. PICK r \in ErrorCodes \cup {"ok"} : JobEnds(w, r)
      BY <2>2 DEF ProbeFails, WorkReturns, WorkResult
    <3> QED
      BY <1>6, <2>2, <3>1 DEF ProbeFails, WorkReturns, JobEnds, storeVars, Busy
  <2>3. CASE OpenFails(w) \/ WriteFails(w)
    BY <1>6, <2>3 DEF OpenFails, WriteFails, PersistFails, storeVars, Busy
  <2>4. CASE Probed(w)
    BY <1>6, <2>4 DEF Probed, storeVars, Busy
  <2>5. CASE OpenFile(w)
    BY <1>6, <2>5 DEF OpenFile, storeVars, Busy
  <2>6. CASE WriteFile(w)
    BY <1>6, <2>6 DEF WriteFile, storeVars, Busy
  <2> QED
    BY <1>7, <2>1, <2>2, <2>3, <2>4, <2>5, <2>6 DEF Worker
<1> QED
  BY <1>1, <1>2, <1>3, <1>4, <1>5, <1>7

\* The sweep only takes jobs that ended, so none that is in the pool.
LEMMA PoolHost == ASSUME PoolInv, AgesInv, TypeInv', Sweeper \/ Host PROVE PoolInv'
<1> USE DEF PoolInv, PlacesInv, Separate
<1>0. /\ queue \in Seq(Ids) /\ Nothing \notin Ids
      /\ status \in [Ids -> Live \cup Terminal \cup Absent]
      /\ finished \in [Ids -> NotFinished..Retention]
      /\ cur \in [Workers -> Ids \cup {Nothing}]
      /\ reaping \subseteq Ids
  BY SystemAssumption DEF TypeInv, TypeOK, StoreTypeOK
<1>1. CASE Restart
  <2>1. Len(queue') = 0
    BY <1>1 DEF Restart
  <2> QED
    BY <1>0, <1>1, <2>1 DEF Restart, Drop, NoRepeats, InQueue, Busy
<1>2. CASE ~(Restart \/ Reap)
  <2>1. UNCHANGED <<status, sub, queue, pc, cur>> /\ reaping' \subseteq reaping
    BY <1>2
       DEF Sweeper, Host, RemoveFile, AbortSweeper, Tick, DropSender, DropGuards,
           storeVars, taskVars
  <2>2. NoRepeats' /\ \A k \in Ids : InQueue(k)' => InQueue(k)
    BY <2>1, KeepQueue
  <2> QED
    BY <1>0, <2>1, <2>2
<1>3. CASE Reap
  <2>1. UNCHANGED <<sub, queue, pc, cur>> /\ Drop(Expired, "reaped")
    BY <1>3 DEF Reap, ReapExpired, taskVars
  <2>2. \A j \in Ids : status[j] \in Live => j \notin Expired
    BY DEF AgesInv, Expired
  <2>3. /\ \A j \in Ids : status[j] \in Live => status'[j] = status[j]
        /\ \A j \in Expired : status'[j] = "reaped"
    BY <1>0, <2>1, <2>2 DEF Drop, Expired, Stored
  <2>4. NoRepeats' /\ \A k \in Ids : InQueue(k)' => InQueue(k)
    BY <2>1, KeepQueue
  <2>5. reaping' \subseteq Expired
    BY <1>3 DEF Reap, ReapedPaths
  <2> QED
    BY <1>0, <2>1, <2>3, <2>4, <2>5
<1> QED
  BY <1>1, <1>2, <1>3

\* What every store operation does to the age of a job that has not ended.
LEMMA AgesStep == ASSUME PoolInv, AgesInv, [Next]_vars PROVE AgesInv'
<1> USE DEF AgesInv, PoolInv
<1>0. /\ status \in [Ids -> Live \cup Terminal \cup Absent]
      /\ finished \in [Ids -> NotFinished..Retention]
      /\ cur \in [Workers -> Ids \cup {Nothing}]
  BY DEF TypeInv, TypeOK, StoreTypeOK
<1>1. CASE UNCHANGED <<status, finished>>
  BY <1>1
<1>2. ASSUME NEW j \in Ids, NEW o \in Owners, NEW k \in Kinds, Submit(j, o, k)
      PROVE  AgesInv'
  BY <1>0, <1>2 DEF Submit, Create
<1>3. ASSUME NEW j \in Ids \cup {Nothing}, NEW x \in Terminal, NEW age,
             status' = [status EXCEPT ![j] = IF j \in Stored THEN x ELSE @],
             finished' = [finished EXCEPT ![j] = IF j \in Stored THEN age ELSE @]
      PROVE  AgesInv'
  BY <1>0, <1>3 DEF Stored
<1>4. ASSUME NEW S \in SUBSET Ids, NEW gone \in Absent, Drop(S, gone) PROVE AgesInv'
  BY <1>0, <1>4 DEF Drop
<1>5. ASSUME NEW w \in Workers, Worker(w) PROVE AgesInv'
  <2>1. cur[w] \in Ids \cup {Nothing}
    BY <1>0
  <2>2. CASE StartJob(w)
    <3>1. cur[w] \in Ids /\ status[cur[w]] = "queued"
      BY <1>0, <2>2 DEF StartJob, PlacesInv, Busy
    <3> QED
      BY <1>0, <2>2, <3>1 DEF StartJob, MarkRunning, Stored
  <2>3. CASE Complete(w)
    BY <1>3, <2>1, <2>3 DEF Complete, MarkCompleted
  <2>4. CASE Fail(w)
    BY <1>3, <2>1, <2>4 DEF Fail, MarkFailed
  <2>5. CASE ~(StartJob(w) \/ Complete(w) \/ Fail(w))
    <3>1. UNCHANGED <<status, finished>>
      BY <1>5, <2>5
         DEF Worker, Lock, Recv, RecvClosed, AbortWorker, Leave, Probed, ProbeFails, Trip,
             WorkReturns, JobEnds, OpenFile, OpenFails, WriteFile, WriteFails, PersistFails,
             storeVars
    <3> QED
      BY <1>1, <3>1
  <2> QED
    BY <2>2, <2>3, <2>4, <2>5
<1>6. ASSUME NEW j \in Ids, RollBack(j) PROVE AgesInv'
  BY <1>3, <1>6 DEF RollBack, MarkFailed
<1>7. CASE Tick
  BY <1>0, <1>7 DEF Tick, Age, Older
<1>8. CASE Reap \/ Restart
  BY <1>4, <1>8 DEF Reap, ReapExpired, Expired, Stored, Restart
<1>9. ASSUME NEW j \in Ids, TrySend(j) \/ RemoveFile(j) \/ \E c \in Owners : Fetch(c, j)
      PROVE  AgesInv'
  BY <1>1, <1>9 DEF TrySend, RemoveFile, Fetch, storeVars
<1>10. ASSUME NEW c \in Owners, ReadFile(c) PROVE AgesInv'
  BY <1>1, <1>10 DEF ReadFile, storeVars
<1>11. CASE AbortSweeper \/ DropSender \/ DropGuards \/ UNCHANGED vars
  BY <1>1, <1>11 DEF AbortSweeper, DropSender, DropGuards, vars, storeVars
<1> QED
  BY <1>2, <1>5, <1>6, <1>7, <1>8, <1>9, <1>10, <1>11 DEF Next, Handler, Sweeper, Host

\* The pool's invariant holds in every reachable state.
LEMMA PoolStep == PoolInv /\ AgesInv /\ [Next]_vars => PoolInv' /\ AgesInv'
<1> SUFFICES ASSUME PoolInv, AgesInv, [Next]_vars PROVE PoolInv'
  BY AgesStep
<1>1. TypeInv'
  BY TypeStep DEF PoolInv
<1>2. CASE UNCHANGED vars
  BY <1>1, <1>2, KeepQueue
     DEF PoolInv, PlacesInv, Separate, vars, storeVars, taskVars
<1> QED
  BY <1>1, <1>2, PoolHandler, PoolWorker, PoolHost DEF Next

LEMMA PoolInvariant == Spec => [](PoolInv /\ AgesInv)
<1>1. Init => PoolInv /\ AgesInv
  BY PoolInit DEF Init, StoreInit, AgesInv
<1> QED
  BY <1>1, PoolStep, PTL DEF Spec

\* No job is in two places: it is queued once or held by one worker.
THEOREM JobsRunOnce == Spec => []OneRunner
<1>1. PoolInv => OneRunner
  BY DEF PoolInv, Separate, NoRepeats, OneRunner, InQueue, TypeInv, TypeOK
<1> QED
  BY <1>1, PoolInvariant, PTL

-----------------------------------------------------------------------------
(* Result files and downloads.                                             *)

\* A file is whole from the moment its worker has written it, and its job is
\* marked completed after that; a download that holds a snapshot of a completed
\* job sees the whole file, or none once the retention sweep took the job.
FilesInv ==
    /\ CompletedHasFile
    /\ \A w \in Workers : pc[w] = "complete" => file[cur[w]] = "full"
    /\ \A c \in Owners : dlAt[c] = "reading" =>
          /\ status[dlJob[c]] \in {"completed", "reaped"}
          /\ \/ file[dlJob[c]] = "full"
             \/ file[dlJob[c]] = "none" /\ status[dlJob[c]] = "reaped"
    /\ DownloadAnswers

\* No step of a worker breaks it: only the one worker that holds a running job
\* writes its file.
LEMMA FilesWorker ==
    ASSUME PoolInv, FilesInv, NEW w \in Workers, Worker(w)
    PROVE  FilesInv'
<1> USE DEF FilesInv, CompletedHasFile, DownloadAnswers
<1>0. /\ Nothing \notin Ids
      /\ status \in [Ids -> Live \cup Terminal \cup Absent]
      /\ file \in [Ids -> {"none", "partial", "full"}]
      /\ cur \in [Workers -> Ids \cup {Nothing}]
      /\ pc \in [Workers -> {"lock", "recv", "gone"} \cup Busy]
      /\ \A c \in Owners : dlAt[c] # "idle" => dlJob[c] \in Ids
      /\ dlAt \in [Owners -> {"idle", "reading", "full", "partial", "missing"}]
  BY SystemAssumption DEF PoolInv, TypeInv, TypeOK, StoreTypeOK
<1>1. /\ \A v \in Workers : pc[v] \in Busy =>
            cur[v] \in Ids /\ status[cur[v]] = IF pc[v] = "picked" THEN "queued" ELSE "running"
      /\ \A v \in Workers : v # w /\ pc[v] \in Busy => cur[v] # cur[w]
  BY <1>0 DEF PoolInv, PlacesInv, Separate
<1>2. CASE OpenFile(w)
  BY <1>0, <1>1, <1>2 DEF OpenFile, storeVars, clientVars, Busy
<1>3. CASE WriteFile(w)
  BY <1>0, <1>1, <1>3 DEF WriteFile, storeVars, clientVars, Busy
<1>4. CASE Complete(w)
  BY <1>0, <1>1, <1>4 DEF Complete, MarkCompleted, NextJob, clientVars, Busy, Stored
<1>5. CASE Fail(w)
  BY <1>0, <1>1, <1>5 DEF Fail, MarkFailed, NextJob, clientVars, Busy, Stored
<1>6. CASE StartJob(w)
  BY <1>0, <1>1, <1>6 DEF StartJob, MarkRunning, clientVars, Busy, Stored
<1>7. ASSUME NEW p \in {"lock", "recv", "gone"} \cup Busy, p # "complete",
             pc' = [pc EXCEPT ![w] = p],
             \A v \in Workers \ {w} : cur'[v] = cur[v],
             UNCHANGED <<status, file, dlAt, dlJob>>
      PROVE  FilesInv'
  BY <1>0, <1>7
<1>8. CASE Lock(w) \/ Recv(w) \/ Probed(w)
  BY <1>0, <1>7, <1>8 DEF Lock, Recv, Probed, storeVars, clientVars, Busy
<1>9. CASE RecvClosed(w) \/ AbortWorker(w)
  BY <1>0, <1>7, <1>9 DEF RecvClosed, AbortWorker, Leave, storeVars, clientVars, Busy
<1>10. CASE ProbeFails(w) \/ WorkReturns(w)
  <2>1. PICK r \in ErrorCodes \cup {"ok"} : JobEnds(w, r)
    BY <1>10 DEF ProbeFails, WorkReturns, WorkResult
  <2> QED
    BY <1>7, <2>1 DEF JobEnds, storeVars, clientVars, Busy
<1>11. CASE OpenFails(w) \/ WriteFails(w)
  BY <1>7, <1>11 DEF OpenFails, WriteFails, PersistFails, storeVars, clientVars, Busy
<1>12. CASE Trip(w)
  BY <1>0, <1>12 DEF Trip, storeVars, clientVars
<1> QED
  BY <1>2, <1>3, <1>4, <1>5, <1>6, <1>8, <1>9, <1>10, <1>11, <1>12 DEF Worker

\* Every step keeps it; the sweep drops a job before it deletes the file.
LEMMA FilesStep == ASSUME PoolInv, AgesInv, FilesInv, [Next]_vars PROVE FilesInv'
<1> USE DEF FilesInv, CompletedHasFile, DownloadAnswers
<1>0. /\ Nothing \notin Ids
      /\ status \in [Ids -> Live \cup Terminal \cup Absent]
      /\ file \in [Ids -> {"none", "partial", "full"}]
      /\ \A c \in Owners : dlAt[c] # "idle" => dlJob[c] \in Ids
      /\ dlAt \in [Owners -> {"idle", "reading", "full", "partial", "missing"}]
      /\ dlJob \in [Owners -> Ids \cup {Nothing}]
  BY SystemAssumption DEF PoolInv, TypeInv, TypeOK, StoreTypeOK
<1>1. ASSUME NEW j \in Ids, status[j] \notin {"completed", "reaped"},
             NEW x \in {"queued", "failed"}, status' = [status EXCEPT ![j] = x],
             UNCHANGED <<file, pc, cur, dlAt, dlJob>>
      PROVE  FilesInv'
  BY <1>0, <1>1
<1>2. CASE UNCHANGED <<status, file, pc, cur, dlAt, dlJob>>
  BY <1>0, <1>2
<1>3. ASSUME NEW j \in Ids, NEW o \in Owners, NEW k \in Kinds, Submit(j, o, k)
      PROVE  FilesInv'
  BY <1>1, <1>3 DEF Submit, Create, taskVars, clientVars
<1>4. ASSUME NEW j \in Ids, RollBack(j) PROVE FilesInv'
  <2>1. status[j] = "queued"
    BY <1>4 DEF RollBack, PoolInv, PlacesInv
  <2> QED
    BY <1>1, <1>4, <2>1 DEF RollBack, MarkFailed, taskVars, clientVars, Stored
<1>5. ASSUME NEW c \in Owners, ReadFile(c) PROVE FilesInv'
  BY <1>0, <1>5 DEF ReadFile, storeVars, taskVars
<1>6. ASSUME NEW c \in Owners, NEW j \in Ids, Fetch(c, j) PROVE FilesInv'
  BY <1>0, <1>6 DEF Fetch, storeVars, taskVars
<1>7. CASE Reap
  BY <1>0, <1>7 DEF Reap, ReapExpired, Drop, Expired, Stored, taskVars, clientVars
<1>8. ASSUME NEW j \in Ids, RemoveFile(j) PROVE FilesInv'
  <2>1. status[j] = "reaped"
    BY <1>8 DEF RemoveFile, PoolInv, PlacesInv
  <2>2. \A w \in Workers : pc[w] = "complete" => cur[w] # j
    BY <2>1 DEF PoolInv, PlacesInv, Busy
  <2>3. UNCHANGED <<status, pc, cur, dlAt, dlJob>>
    BY <1>8 DEF RemoveFile, storeVars, taskVars, clientVars
  <2>4. /\ file'[j] \in {file[j], "none"}
        /\ \A i \in Ids \ {j} : file'[i] = file[i]
    BY <1>0, <1>8 DEF RemoveFile
  <2>5. \A w \in Workers : pc[w] = "complete" => cur[w] \in Ids
    BY DEF PoolInv, PlacesInv, TypeInv, TypeOK, Busy
  <2> QED
    BY <1>0, <2>1, <2>2, <2>3, <2>4, <2>5
<1>9. CASE Restart
  BY <1>0, <1>9 DEF Restart, Drop, Stored
<1>10. ASSUME NEW j \in Ids, TrySend(j) PROVE FilesInv'
  BY <1>2, <1>10 DEF TrySend, storeVars, taskVars, clientVars
<1>11. CASE Tick \/ DropSender \/ DropGuards \/ AbortSweeper \/ UNCHANGED vars
  BY <1>2, <1>11
     DEF Tick, DropSender, DropGuards, AbortSweeper, vars, storeVars, taskVars, clientVars
<1> QED
  BY FilesWorker, <1>3, <1>4, <1>5, <1>6, <1>7, <1>8, <1>9, <1>10, <1>11
     DEF Next, Handler, Sweeper, Host

LEMMA FilesInvariant == Spec => []FilesInv
<1>1. Init => FilesInv
  BY DEF Init, StoreInit, FilesInv, CompletedHasFile, DownloadAnswers
<1> QED
  BY <1>1, FilesStep, PoolInvariant, PTL DEF Spec

\* A job a client sees as completed has its whole result on disk.
THEOREM CompletedMeansWritten == Spec => []CompletedHasFile
<1>1. FilesInv => CompletedHasFile
  BY DEF FilesInv
<1> QED
  BY <1>1, FilesInvariant, PTL

\* A download answers with the whole result, or 404 after the retention.
THEOREM DownloadsAreWhole == Spec => []DownloadAnswers
<1>1. FilesInv => DownloadAnswers
  BY DEF FilesInv
<1> QED
  BY <1>1, FilesInvariant, PTL

-----------------------------------------------------------------------------
(* No accepted job is left behind.                                         *)

LEMMA HeldStep == ASSUME PoolInv, AgesInv, LiveJobHeld, [Next]_vars PROVE LiveJobHeld'
<1> USE DEF LiveJobHeld, HeldAt
<1>0. /\ Nothing \notin Ids /\ queue \in Seq(Ids)
      /\ status \in [Ids -> Live \cup Terminal \cup Absent]
      /\ sub \in [Ids -> {"none", "created", "accepted", "full", "closed", "refused"}]
      /\ cur \in [Workers -> Ids \cup {Nothing}]
      /\ pc \in [Workers -> {"lock", "recv", "gone"} \cup Busy]
  BY SystemAssumption DEF PoolInv, TypeInv, TypeOK, StoreTypeOK
<1>1. CASE UNCHANGED <<status, sub, queue, pc, cur, guards>>
  BY <1>1 DEF InQueue
<1>2. ASSUME NEW j \in Ids, NEW o \in Owners, NEW k \in Kinds, Submit(j, o, k)
      PROVE  LiveJobHeld'
  BY <1>0, <1>2 DEF Submit, Create, taskVars, hostVars, InQueue
<1>3. ASSUME NEW j \in Ids, TrySend(j) PROVE LiveJobHeld'
  <2>1. ~InQueue(j)
    BY <1>3 DEF TrySend, PoolInv, PlacesInv
  <2>2. CASE queue' = Append(queue, j) /\ sub' = [sub EXCEPT ![j] = "accepted"]
    <3>1. \A i \in Ids : InQueue(i)' <=> (InQueue(i) \/ i = j)
      BY <1>0, <2>1, <2>2, SendQueue DEF PoolInv
    <3> QED
      BY <1>0, <1>3, <2>2, <3>1 DEF TrySend, storeVars, taskVars, hostVars
  <2>3. ASSUME NEW x \in {"full", "closed"}, queue' = queue, sub' = [sub EXCEPT ![j] = x]
        PROVE  LiveJobHeld'
    BY <1>0, <1>3, <2>3 DEF TrySend, storeVars, taskVars, hostVars, InQueue
  <2> QED
    BY <1>3, <2>2, <2>3 DEF TrySend
<1>4. ASSUME NEW j \in Ids, RollBack(j) PROVE LiveJobHeld'
  <2>1. status[j] = "queued"
    BY <1>4 DEF RollBack, PoolInv, PlacesInv
  <2>2. status' = [status EXCEPT ![j] = "failed"] /\ sub' = [sub EXCEPT ![j] = "refused"]
    BY <1>4, <2>1 DEF RollBack, MarkFailed, Stored
  <2> QED
    BY <1>0, <1>4, <2>2 DEF RollBack, taskVars, hostVars, InQueue
<1>5. ASSUME NEW w \in Workers, Worker(w) PROVE LiveJobHeld'
  <2>0. /\ pc[w] \in Busy => cur[w] \in Ids
        /\ pc[w] \notin Busy => cur[w] = Nothing
        /\ pc[w] \in Busy =>
             status[cur[w]] = (IF pc[w] = "picked" THEN "queued" ELSE "running")
        /\ \A v \in Workers : cur[v] = cur[w] /\ cur[v] # Nothing => v = w
    BY <1>0 DEF PoolInv, PlacesInv, Separate
  <2>1. CASE Recv(w)
    <3>1. \A i \in Ids : InQueue(i)' <=> (InQueue(i) /\ i # Head(queue))
      BY <1>0, <2>1, TakeQueue DEF Recv, PoolInv
    <3>2. cur[w] = Nothing
      BY <2>0, <2>1 DEF Recv, Busy
    <3> QED
      BY <1>0, <2>1, <3>1, <3>2 DEF Recv, storeVars, hostVars
  <2>2. CASE StartJob(w)
    <3>1. /\ cur[w] \in Ids
          /\ status' = [status EXCEPT ![cur[w]] = "running"]
      BY <2>0, <2>2 DEF StartJob, MarkRunning, Stored, Busy
    <3>2. PICK p \in {"probe", "work"} : pc' = [pc EXCEPT ![w] = p]
      BY <2>2 DEF StartJob
    <3> QED
      BY <1>0, <2>0, <2>2, <3>1, <3>2 DEF StartJob, hostVars, Busy, InQueue
  <2>3. CASE Complete(w) \/ Fail(w)
    <3>1. /\ cur[w] \in Ids
          /\ status'[cur[w]] \in Terminal
          /\ \A j \in Ids \ {cur[w]} : status'[j] = status[j]
      BY <1>0, <2>0, <2>3 DEF Complete, Fail, MarkCompleted, MarkFailed, Stored, Busy
    <3>2. /\ UNCHANGED <<sub, queue, guards>>
          /\ \A v \in Workers \ {w} : cur'[v] = cur[v] /\ pc'[v] = pc[v]
      BY <1>0, <2>3 DEF Complete, Fail, NextJob, hostVars
    <3>3. \A j \in Ids : status'[j] \in Live => j # cur[w] /\ status[j] = status'[j]
      BY <3>1
    <3> QED
      BY <1>0, <3>2, <3>3 DEF InQueue
  <2>4. CASE RecvClosed(w)
    <3>1. cur[w] = Nothing /\ \A j \in Ids : ~InQueue(j)
      BY <2>0, <2>4 DEF RecvClosed, Busy, InQueue
    <3> QED
      BY <1>0, <2>4, <3>1 DEF RecvClosed, Leave, storeVars, hostVars, InQueue
  <2>5. CASE AbortWorker(w)
    BY <2>5 DEF AbortWorker, Leave, hostVars
  <2>6. ASSUME NEW p \in {"lock", "recv"} \cup (Busy \ {"picked"}), pc[w] # "picked",
               pc[w] \in Busy => p \in Busy, pc' = [pc EXCEPT ![w] = p],
               UNCHANGED <<status, sub, queue, cur, guards>>
        PROVE  LiveJobHeld'
    BY <1>0, <2>0, <2>6 DEF InQueue
  <2>7. CASE Lock(w)
    <3>1. /\ pc[w] = "lock" /\ pc' = [pc EXCEPT ![w] = "recv"]
          /\ UNCHANGED <<status, sub, queue, cur, guards>>
      BY <2>7 DEF Lock, storeVars, hostVars
    <3> QED
      BY <2>6, <3>1 DEF Busy
  <2>12. CASE Probed(w)
    <3>1. /\ pc[w] = "probe" /\ pc' = [pc EXCEPT ![w] = "work"]
          /\ UNCHANGED <<status, sub, queue, cur, guards>>
      BY <2>12 DEF Probed, storeVars, hostVars
    <3> QED
      BY <2>6, <3>1 DEF Busy
  <2>8. CASE ProbeFails(w) \/ WorkReturns(w)
    <3>1. PICK r \in ErrorCodes \cup {"ok"} : JobEnds(w, r)
      BY <2>8 DEF ProbeFails, WorkReturns, WorkResult
    <3> QED
      BY <2>6, <2>8, <3>1 DEF ProbeFails, WorkReturns, JobEnds, storeVars, hostVars, Busy
  <2>9. CASE OpenFails(w) \/ WriteFails(w)
    <3>1. /\ pc[w] \in {"open", "write"} /\ pc' = [pc EXCEPT ![w] = "fail"]
          /\ UNCHANGED <<status, sub, queue, cur, guards>>
      BY <2>9 DEF OpenFails, WriteFails, PersistFails, storeVars, hostVars
    <3> QED
      BY <2>6, <3>1 DEF Busy
  <2>10. CASE OpenFile(w) \/ WriteFile(w)
    BY <2>6, <2>10 DEF OpenFile, WriteFile, storeVars, hostVars, Busy
  <2>11. CASE Trip(w)
    BY <1>1, <2>11 DEF Trip, storeVars, hostVars
  <2> QED
    BY <1>5, <2>1, <2>2, <2>3, <2>4, <2>5, <2>7, <2>8, <2>9, <2>10, <2>11, <2>12 DEF Worker
<1>6. CASE Reap
  <2>1. \A j \in Ids : status'[j] = status[j] \/ status'[j] = "reaped"
    BY <1>0, <1>6 DEF Reap, ReapExpired, Drop
  <2> QED
    BY <1>6, <2>1 DEF Reap, taskVars, hostVars, InQueue
<1>7. CASE Restart
  BY <1>0, <1>7 DEF Restart, Drop, Stored
<1>8. ASSUME NEW j \in Ids, RemoveFile(j) \/ \E c \in Owners : Fetch(c, j) PROVE LiveJobHeld'
  BY <1>1, <1>8 DEF RemoveFile, Fetch, storeVars, taskVars, hostVars
<1>9. ASSUME NEW c \in Owners, ReadFile(c) PROVE LiveJobHeld'
  BY <1>1, <1>9 DEF ReadFile, storeVars, taskVars, hostVars
<1>10. CASE Tick \/ DropSender \/ AbortSweeper \/ UNCHANGED vars
  BY <1>1, <1>10 DEF Tick, DropSender, AbortSweeper, vars, storeVars, taskVars, hostVars
<1>11. CASE DropGuards
  BY <1>11 DEF DropGuards
<1> QED
  BY <1>2, <1>3, <1>4, <1>5, <1>6, <1>7, <1>8, <1>9, <1>10, <1>11
     DEF Next, Handler, Sweeper, Host

\* While the pool is alive, a job shown as queued or running has a handler, a
\* place in the queue or a worker that will move it on.
THEOREM JobsAreHeld == Spec => []LiveJobHeld
<1>1. Init => LiveJobHeld
  BY DEF Init, StoreInit, LiveJobHeld
<1> QED
  BY <1>1, HeldStep, PoolInvariant, PTL DEF Spec

\* A job that is not finished is held, and in one place only.
THEOREM JobsAreHeldOnce == Spec => []JobsHeldOnce
<1>1. LiveJobHeld /\ OneRunner => JobsHeldOnce
  BY DEF JobsHeldOnce
<1> QED
  BY <1>1, JobsRunOnce, JobsAreHeld, PTL

-----------------------------------------------------------------------------
(* A job only moves forward.                                               *)

\* The moves of a job's life: what a step may do to the statuses.
Move(j, from, to) == status[j] = from /\ status' = [status EXCEPT ![j] = to]
Moves ==
    \/ \E j \in Ids : \/ Move(j, "free", "queued") \/ Move(j, "queued", "running")
                      \/ Move(j, "queued", "failed")
                      \/ \E to \in Terminal : Move(j, "running", to)
    \/ \E S \in SUBSET Ids :
          /\ \A j \in S : status[j] \in Terminal
          /\ status' = [j \in Ids |-> IF j \in S THEN "reaped" ELSE status[j]]
    \/ status' = [j \in Ids |-> IF j \in Stored THEN "lost" ELSE status[j]]

\* A worker moves only the job it holds, and the job is where the worker is.
LEMMA WorkerMoves ==
    ASSUME PoolInv, NEW w \in Workers, Worker(w), status' # status
    PROVE  Moves
<1>0. /\ status \in [Ids -> Live \cup Terminal \cup Absent]
      /\ cur \in [Workers -> Ids \cup {Nothing}]
      /\ pc[w] \in Busy =>
            /\ cur[w] \in Ids
            /\ status[cur[w]] = IF pc[w] = "picked" THEN "queued" ELSE "running"
  BY SystemAssumption DEF PoolInv, PlacesInv, TypeInv, TypeOK, StoreTypeOK
<1>1. CASE StartJob(w)
  BY <1>0, <1>1 DEF StartJob, MarkRunning, Moves, Move, Stored, Busy
<1>2. CASE Complete(w)
  <2>1. cur[w] \in Ids /\ Move(cur[w], "running", "completed")
    BY <1>0, <1>2 DEF Complete, MarkCompleted, Move, Stored, Busy
  <2> QED
    BY <2>1 DEF Moves
<1>3. CASE Fail(w)
  <2>1. cur[w] \in Ids /\ Move(cur[w], "running", "failed")
    BY <1>0, <1>3 DEF Fail, MarkFailed, Move, Stored, Busy
  <2> QED
    BY <2>1 DEF Moves
<1>4. CASE ~(StartJob(w) \/ Complete(w) \/ Fail(w))
  BY <1>4 DEF Worker, Lock, Recv, RecvClosed, AbortWorker, Leave, Probed, ProbeFails, Trip,
              WorkReturns, JobEnds, OpenFile, OpenFails, WriteFile, WriteFails, PersistFails,
              storeVars
<1> QED
  BY <1>1, <1>2, <1>3, <1>4

\* Every step leaves the statuses alone or makes one of the moves.  The sweep
\* takes only jobs that have ended: the others have no finished_at.
LEMMA StatusMoves ==
    ASSUME PoolInv, AgesInv, [Next]_vars, status' # status
    PROVE  Moves
<1>0. status \in [Ids -> Live \cup Terminal \cup Absent]
  BY DEF PoolInv, TypeInv, TypeOK, StoreTypeOK
<1>1. ASSUME NEW j \in Ids, NEW o \in Owners, NEW k \in Kinds, Submit(j, o, k)
      PROVE  Moves
  BY <1>1 DEF Submit, Create, Moves, Move
<1>2. ASSUME NEW j \in Ids, RollBack(j) PROVE Moves
  <2>1. status[j] = "queued"
    BY <1>2 DEF RollBack, PoolInv, PlacesInv
  <2> QED
    BY <1>2, <2>1 DEF RollBack, MarkFailed, Stored, Moves, Move
<1>3. CASE Reap
  <2>1. Expired \in SUBSET Ids /\ \A j \in Expired : status[j] \in Terminal
    BY <1>0 DEF Expired, Stored, AgesInv
  <2>2. status' = [j \in Ids |-> IF j \in Expired THEN "reaped" ELSE status[j]]
    BY <1>3 DEF Reap, ReapExpired, Drop
  <2> QED
    BY <2>1, <2>2 DEF Moves
<1>4. CASE Restart
  BY <1>4 DEF Restart, Drop, Moves
<1>5. ASSUME NEW j \in Ids, TrySend(j) \/ RemoveFile(j) \/ \E c \in Owners : Fetch(c, j)
      PROVE  FALSE
  BY <1>5 DEF TrySend, RemoveFile, Fetch, storeVars
<1>6. ASSUME NEW c \in Owners, ReadFile(c) PROVE FALSE
  BY <1>6 DEF ReadFile, storeVars
<1>7. CASE AbortSweeper \/ Tick \/ DropSender \/ DropGuards \/ UNCHANGED vars
  BY <1>7 DEF AbortSweeper, Tick, DropSender, DropGuards, vars, storeVars
<1> QED
  BY <1>1, <1>2, <1>3, <1>4, <1>5, <1>6, <1>7, WorkerMoves DEF Next, Handler, Sweeper, Host

\* The places of a job's life, in order.
LEMMA RankValues ==
    /\ Rank["free"] = 0 /\ Rank["queued"] = 1 /\ Rank["running"] = 2
    /\ Rank["completed"] = 3 /\ Rank["failed"] = 3
    /\ Rank["reaped"] = 4 /\ Rank["lost"] = 4
<1>1. \A s \in Live \cup Terminal \cup Absent :
        Rank[s] = CASE s = "free" -> 0 [] s = "queued" -> 1 [] s = "running" -> 2
                    [] s \in Terminal -> 3 [] OTHER -> 4
  BY DEF Rank
<1> QED
  BY <1>1

\* A job only moves forward through its life, and the retention sweep drops only
\* jobs that have ended, in every reachable step.
THEOREM JobsMoveForward == Spec => StatusForward
<1>1. ASSUME PoolInv, AgesInv, [Next]_vars, status' # status PROVE Forward
  <2>0. status \in [Ids -> Live \cup Terminal \cup Absent]
    BY <1>1 DEF PoolInv, TypeInv, TypeOK, StoreTypeOK
  <2>1. ASSUME NEW j \in Ids, NEW from, NEW to, Move(j, from, to), to # "reaped",
               Rank[to] > Rank[from]
        PROVE  Forward
    BY <2>0, <2>1 DEF Move, Forward
  <2>2. ASSUME NEW j \in Ids, \/ Move(j, "free", "queued") \/ Move(j, "queued", "running")
                              \/ Move(j, "queued", "failed")
                              \/ \E to \in Terminal : Move(j, "running", to)
        PROVE  Forward
    BY <2>1, <2>2, RankValues
  <2>3. ASSUME NEW S \in SUBSET Ids, \A j \in S : status[j] \in Terminal,
               status' = [j \in Ids |-> IF j \in S THEN "reaped" ELSE status[j]]
        PROVE  Forward
    BY <2>0, <2>3, RankValues DEF Forward
  <2>4. CASE status' = [j \in Ids |-> IF j \in Stored THEN "lost" ELSE status[j]]
    BY <2>0, <2>4, RankValues DEF Forward, Stored
  <2> QED
    BY <1>1, <2>2, <2>3, <2>4, StatusMoves DEF Moves
<1>2. PoolInv /\ AgesInv /\ [Next]_vars => [Forward]_status
  BY <1>1
<1> QED
  BY <1>2, PoolInvariant, PTL DEF Spec, StatusForward

-----------------------------------------------------------------------------
(* No file is left without somebody who deletes it.                        *)

\* A worker that writes or has written a file holds a running job, so a step
\* that moves another job, or that moves none, leaves the file's keeper alone.
LEMMA KeeperStays ==
    ASSUME PoolInv, NoOrphanFile, UNCHANGED file,
           \A j \in Ids : status[j] \in {"completed", "lost"} => status'[j] = status[j],
           \A w \in Workers : pc[w] \in {"write", "complete"} =>
              pc'[w] = pc[w] /\ cur'[w] = cur[w],
           reaping \subseteq reaping'
    PROVE  NoOrphanFile'
BY DEF NoOrphanFile, HeldAt

LEMMA OrphanWorker ==
    ASSUME PoolInv, NoOrphanFile, "write" \notin Faults, NEW w \in Workers, Worker(w)
    PROVE  NoOrphanFile'
<1>0. /\ Nothing \notin Ids
      /\ status \in [Ids -> Live \cup Terminal \cup Absent]
      /\ file \in [Ids -> {"none", "partial", "full"}]
      /\ cur \in [Workers -> Ids \cup {Nothing}]
      /\ pc \in [Workers -> {"lock", "recv", "gone"} \cup Busy]
  BY SystemAssumption DEF PoolInv, TypeInv, TypeOK, StoreTypeOK
<1>1. /\ \A v \in Workers : pc[v] \in Busy =>
            cur[v] \in Ids /\ status[cur[v]] = IF pc[v] = "picked" THEN "queued" ELSE "running"
      /\ \A v \in Workers : v # w /\ pc[v] \in Busy => cur[v] # cur[w]
  BY <1>0 DEF PoolInv, PlacesInv, Separate
<1>2. CASE OpenFile(w)
  <2>1. HeldAt(cur[w], {"write", "complete"})'
    BY <1>0, <1>2 DEF OpenFile, HeldAt
  <2>2. ASSUME NEW j \in Ids, HeldAt(j, {"write", "complete"})
        PROVE  HeldAt(j, {"write", "complete"})'
    BY <1>0, <1>2, <2>2 DEF OpenFile, HeldAt
  <2>3. \A j \in Ids \ {cur[w]} : file'[j] = file[j]
    BY <1>0, <1>2 DEF OpenFile
  <2> QED
    BY <1>2, <2>1, <2>2, <2>3 DEF OpenFile, NoOrphanFile, storeVars
<1>3. CASE WriteFile(w)
  <2>1. HeldAt(cur[w], {"write", "complete"})'
    BY <1>0, <1>3 DEF WriteFile, HeldAt
  <2>2. ASSUME NEW j \in Ids, HeldAt(j, {"write", "complete"})
        PROVE  HeldAt(j, {"write", "complete"})'
    BY <1>0, <1>3, <2>2 DEF WriteFile, HeldAt
  <2>3. \A j \in Ids \ {cur[w]} : file'[j] = file[j]
    BY <1>0, <1>3 DEF WriteFile
  <2> QED
    BY <1>3, <2>1, <2>2, <2>3 DEF WriteFile, NoOrphanFile, storeVars
<1>4. CASE Complete(w)
  <2>1. status'[cur[w]] = "completed" /\ \A j \in Ids \ {cur[w]} : status'[j] = status[j]
    BY <1>0, <1>1, <1>4 DEF Complete, MarkCompleted, Stored, Busy
  <2>2. ASSUME NEW j \in Ids \ {cur[w]}, HeldAt(j, {"write", "complete"})
        PROVE  HeldAt(j, {"write", "complete"})'
    BY <1>0, <1>4, <2>2 DEF Complete, NextJob, HeldAt
  <2> QED
    BY <1>4, <2>1, <2>2 DEF Complete, NextJob, NoOrphanFile
<1>5. CASE StartJob(w) \/ Fail(w)
  <2>1. /\ cur[w] \in Ids /\ status[cur[w]] \in Live
        /\ pc[w] \notin {"write", "complete"}
        /\ \A j \in Ids \ {cur[w]} : status'[j] = status[j]
    BY <1>0, <1>1, <1>5 DEF StartJob, Fail, MarkRunning, MarkFailed, Busy
  <2>2. /\ UNCHANGED <<file, reaping>>
        /\ \A v \in Workers \ {w} : pc'[v] = pc[v] /\ cur'[v] = cur[v]
    BY <1>0, <1>5 DEF StartJob, Fail, NextJob
  <2> QED
    BY <2>1, <2>2, KeeperStays
<1>6. CASE ~(OpenFile(w) \/ WriteFile(w) \/ Complete(w) \/ StartJob(w) \/ Fail(w))
  <2>1. /\ UNCHANGED <<status, file, reaping>>
        /\ \A v \in Workers \ {w} : pc'[v] = pc[v] /\ cur'[v] = cur[v]
    BY <1>0, <1>6
       DEF Worker, Lock, Recv, RecvClosed, AbortWorker, Leave, Probed, ProbeFails, Trip,
           WorkReturns, JobEnds, OpenFails, WriteFails, PersistFails, storeVars
  <2>2. pc[w] \notin {"write", "complete"}
    BY <1>6
       DEF Worker, Lock, Recv, RecvClosed, AbortWorker, Probed, ProbeFails, Trip,
           WorkReturns, OpenFails, WriteFails, Awaiting
  <2> QED
    BY <2>1, <2>2, KeeperStays
<1> QED
  BY <1>2, <1>3, <1>4, <1>5, <1>6

LEMMA OrphanStep ==
    ASSUME PoolInv, AgesInv, NoOrphanFile, {"write", "remove"} \cap Faults = {},
           [Next]_vars, ~Restart
    PROVE  NoOrphanFile'
<1>0. /\ status \in [Ids -> Live \cup Terminal \cup Absent]
      /\ file \in [Ids -> {"none", "partial", "full"}]
  BY DEF PoolInv, TypeInv, TypeOK, StoreTypeOK
<1>1. ASSUME NEW j \in Ids, NEW o \in Owners, NEW k \in Kinds, Submit(j, o, k)
      PROVE  NoOrphanFile'
  BY <1>1, KeeperStays DEF Submit, Create, taskVars
<1>2. ASSUME NEW j \in Ids, RollBack(j) PROVE NoOrphanFile'
  <2>1. status[j] = "queued"
    BY <1>2 DEF RollBack, PoolInv, PlacesInv
  <2> QED
    BY <1>0, <1>2, <2>1, KeeperStays DEF RollBack, MarkFailed, taskVars
<1>3. CASE Reap
  <2>1. \A j \in Ids : \/ status'[j] = status[j]
                       \/ status[j] = "completed" /\ j \in reaping'
                       \/ status[j] = "failed"
    BY <1>0, <1>3 DEF Reap, ReapExpired, Drop, ReapedPaths, Expired, Stored, AgesInv
  <2> QED
    BY <1>3, <2>1 DEF Reap, NoOrphanFile, HeldAt, taskVars
<1>4. ASSUME NEW j \in Ids, RemoveFile(j) PROVE NoOrphanFile'
  BY <1>0, <1>4 DEF RemoveFile, NoOrphanFile, HeldAt, storeVars, taskVars
<1>5. CASE UNCHANGED <<status, file, pc, cur, reaping>>
  BY <1>5, KeeperStays
<1>6. ASSUME NEW j \in Ids, TrySend(j) \/ \E c \in Owners : Fetch(c, j)
      PROVE  NoOrphanFile'
  BY <1>5, <1>6 DEF TrySend, Fetch, storeVars, taskVars
<1>7. ASSUME NEW c \in Owners, ReadFile(c) PROVE NoOrphanFile'
  BY <1>5, <1>7 DEF ReadFile, storeVars, taskVars
<1>8. CASE AbortSweeper \/ Tick \/ DropSender \/ DropGuards \/ UNCHANGED vars
  BY <1>5, <1>8 DEF AbortSweeper, Tick, DropSender, DropGuards, vars, storeVars, taskVars
<1> QED
  BY OrphanWorker, <1>1, <1>2, <1>3, <1>4, <1>6, <1>7, <1>8 DEF Next, Handler, Sweeper, Host

\* When no write and no delete fails, every file has somebody who will delete it
\* until the process first crashes: a sweep that stops takes no path with it.
THEOREM FilesHaveKeepers ==
    ASSUME {"write", "remove"} \cap Faults = {}
    PROVE  Spec => [](restarts = 0 => NoOrphanFile)
<1> DEFINE Kept == restarts = 0 => NoOrphanFile
<1>1. Init => Kept
  BY DEF Init, StoreInit, NoOrphanFile
<1>2. ASSUME PoolInv, AgesInv, Kept, [Next]_vars PROVE Kept'
  <2>1. restarts \in Nat
    BY <1>2, SystemAssumption DEF PoolInv, TypeInv, TypeOK
  <2>2. CASE Restart
    BY <2>1, <2>2 DEF Restart
  <2>3. CASE ~Restart
    <3>1. UNCHANGED restarts
      BY <1>2, <2>3
         DEF Next, Handler, Worker, Sweeper, Host, Submit, TrySend, RollBack, ReadFile, Fetch,
             Lock, Recv, RecvClosed, AbortWorker, Leave, StartJob, Probed, ProbeFails, Trip,
             WorkReturns, JobEnds, OpenFile, OpenFails, WriteFile, WriteFails, PersistFails,
             Complete, Fail, NextJob, Reap, RemoveFile, AbortSweeper, Tick, DropSender,
             DropGuards, vars, hostVars
    <3> QED
      BY <1>2, <2>3, <3>1, OrphanStep
  <2> QED
    BY <2>2, <2>3
<1> QED
  BY <1>1, <1>2, PoolInvariant, PTL DEF Spec

-----------------------------------------------------------------------------
(* The subsystem implements JobService.                                    *)

\* As long as the guards are kept: no task is aborted, a worker leaves only when
\* the router and all its handlers are gone, so no send finds the channel closed.
UpInv ==
    /\ guards
    /\ \A w \in Workers : pc[w] = "gone" => ~sender
    /\ ~sender => \A j \in Ids : sub[j] \notin {"created", "full"}
    /\ \A j \in Ids : sub[j] # "closed"
    /\ Len(queue) <= QueueCap

LEMMA UpStep ==
    ASSUME PoolInv, UpInv, "guards" \notin Stops, [Next]_vars
    PROVE  UpInv'
<1> USE DEF UpInv
<1>0. /\ queue \in Seq(Ids)
      /\ sub \in [Ids -> {"none", "created", "accepted", "full", "closed", "refused"}]
      /\ pc \in [Workers -> {"lock", "recv", "gone"} \cup Busy]
      /\ QueueCap \in Nat \ {0} /\ Workers # {}
  BY SystemAssumption DEF PoolInv, TypeInv, TypeOK, StoreTypeOK
<1>1. CASE UNCHANGED <<guards, pc, sender, sub, queue>>
  BY <1>1
<1>2. ASSUME NEW j \in Ids, NEW o \in Owners, NEW k \in Kinds, Submit(j, o, k)
      PROVE  UpInv'
  BY <1>0, <1>2 DEF Submit, taskVars, hostVars
<1>3. ASSUME NEW j \in Ids, TrySend(j) PROVE UpInv'
  <2>1. sender /\ ~ReceiverGone
    BY <1>0, <1>3 DEF TrySend, ReceiverGone
  <2>2. CASE Len(queue) < QueueCap /\ queue' = Append(queue, j)
             /\ sub' = [sub EXCEPT ![j] = "accepted"]
    <3>1. Len(queue') = Len(queue) + 1 /\ Len(queue) \in Nat
      BY <1>0, <2>2
    <3> QED
      BY <1>0, <1>3, <2>1, <2>2, <3>1 DEF TrySend, taskVars, hostVars
  <2>3. CASE UNCHANGED queue /\ sub' = [sub EXCEPT ![j] = "full"]
    BY <1>0, <1>3, <2>1, <2>3 DEF TrySend, taskVars, hostVars
  <2> QED
    BY <1>3, <2>1, <2>2, <2>3 DEF TrySend
<1>4. ASSUME NEW j \in Ids, RollBack(j) PROVE UpInv'
  BY <1>0, <1>4 DEF RollBack, taskVars, hostVars
<1>5. ASSUME NEW w \in Workers, Worker(w) PROVE UpInv'
  <2>1. ASSUME NEW p \in {"lock", "recv", "gone"} \cup Busy, pc' = [pc EXCEPT ![w] = p],
               p = "gone" => ~sender, Len(queue') <= QueueCap,
               UNCHANGED <<guards, sender, sub>>
        PROVE  UpInv'
    BY <1>0, <2>1
  <2>2. CASE Recv(w)
    <3>1. Len(queue') = Len(queue) - 1 /\ Len(queue) \in Nat
      BY <1>0, <2>2 DEF Recv
    <3> QED
      BY <1>0, <2>1, <2>2, <3>1 DEF Recv, hostVars, Busy
  <2>3. CASE RecvClosed(w)
    BY <1>0, <2>1, <2>3 DEF RecvClosed, Leave, hostVars
  <2>4. CASE Lock(w) \/ StartJob(w) \/ Probed(w) \/ OpenFile(w) \/ WriteFile(w)
             \/ Complete(w) \/ Fail(w)
    BY <1>0, <2>1, <2>4
       DEF Lock, StartJob, Probed, OpenFile, WriteFile, Complete, Fail, NextJob, hostVars, Busy
  <2>5. CASE ProbeFails(w) \/ WorkReturns(w)
    <3>1. PICK r \in ErrorCodes \cup {"ok"} : JobEnds(w, r)
      BY <2>5 DEF ProbeFails, WorkReturns, WorkResult
    <3> QED
      BY <2>1, <3>1 DEF JobEnds, hostVars, Busy
  <2>6. CASE OpenFails(w) \/ WriteFails(w)
    BY <2>1, <2>6 DEF OpenFails, WriteFails, PersistFails, hostVars, Busy
  <2>7. CASE Trip(w)
    BY <1>1, <2>7 DEF Trip, hostVars
  <2> QED
    BY <1>5, <2>2, <2>3, <2>4, <2>5, <2>6, <2>7 DEF Worker, AbortWorker
<1>6. CASE DropSender
  BY <1>0, <1>6 DEF DropSender, taskVars
<1>7. CASE Restart
  BY <1>0, <1>7 DEF Restart
<1>8. ASSUME NEW j \in Ids, RemoveFile(j) \/ \E c \in Owners : Fetch(c, j) PROVE UpInv'
  BY <1>1, <1>8 DEF RemoveFile, Fetch, taskVars, hostVars
<1>9. ASSUME NEW c \in Owners, ReadFile(c) PROVE UpInv'
  BY <1>1, <1>9 DEF ReadFile, taskVars, hostVars
<1>10. CASE Reap \/ Tick \/ UNCHANGED vars
  BY <1>1, <1>10 DEF Reap, Tick, vars, taskVars, hostVars
<1>11. ~AbortSweeper /\ ~DropGuards
  BY DEF AbortSweeper, DropGuards
<1> QED
  BY <1>2, <1>3, <1>4, <1>5, <1>6, <1>7, <1>8, <1>9, <1>10, <1>11
     DEF Next, Handler, Sweeper, Host

\* All that is known of a reachable state of a subsystem that keeps its guards.
ServingInv == PoolInv /\ AgesInv /\ FilesInv /\ LiveJobHeld /\ UpInv

LEMMA ServingInvariant ==
    ASSUME "guards" \notin Stops
    PROVE  Spec => []ServingInv
<1>1. Init => UpInv
  BY SystemAssumption DEF Init, UpInv
<1>2. PoolInv /\ UpInv /\ [Next]_vars => UpInv'
  BY UpStep
<1>3. ServingInv <=> (PoolInv /\ AgesInv) /\ FilesInv /\ LiveJobHeld /\ UpInv
  BY DEF ServingInv
<1> QED
  BY <1>1, <1>2, <1>3, PoolInvariant, FilesInvariant, JobsAreHeld, PTL DEF Spec

\* What a client sees of the whole state.
Phase == [j \in Ids |-> ClientPhase(j)]
Results == {j \in Ids : status[j] = "completed" /\ file[j] = "full"}

\* The phase of a job, one line per phase.
LEMMA PhaseValues ==
    ASSUME PoolInv, NEW j \in Ids
    PROVE  /\ Phase[j] = "unknown" <=> status[j] = "free"
           /\ Phase[j] = "gone" <=> status[j] \in {"reaped", "lost"}
           /\ Phase[j] = "completed" <=> status[j] = "completed"
           /\ Phase[j] = "failed" <=>
                \/ status[j] = "failed"
                \/ status[j] \in Live /\ sub[j] \in {"full", "closed"}
           /\ Phase[j] = "offered" <=> status[j] \in Live /\ sub[j] = "created"
           /\ Phase[j] = "waiting" <=>
                status[j] \in Live /\ sub[j] \notin {"created", "full", "closed"} /\ InQueue(j)
           /\ Phase[j] = "started" <=>
                status[j] \in Live /\ sub[j] \notin {"created", "full", "closed"} /\ ~InQueue(j)
<1>1. status[j] \in Live \cup Terminal \cup Absent
  BY DEF PoolInv, TypeInv, TypeOK, StoreTypeOK
<1>2. Phase[j] = ClientPhase(j)
  BY DEF Phase
<1>3. /\ status[j] = "free" => Phase[j] = "unknown"
      /\ status[j] \in {"reaped", "lost"} => Phase[j] = "gone"
      /\ status[j] \in Terminal => Phase[j] = status[j]
  BY <1>1, <1>2 DEF ClientPhase, LivePhase
<1>4. ASSUME status[j] \in Live
      PROVE  /\ sub[j] \in {"full", "closed"} => Phase[j] = "failed"
             /\ sub[j] = "created" => Phase[j] = "offered"
             /\ sub[j] \notin {"created", "full", "closed"} =>
                  /\ InQueue(j) => Phase[j] = "waiting"
                  /\ ~InQueue(j) => Phase[j] = "started"
  BY <1>2, <1>4 DEF ClientPhase, LivePhase
<1> QED
  BY <1>1, <1>3, <1>4

\* A step that moves one job from one phase to another, seen from the client.
LEMMA PhaseMoves ==
    ASSUME NEW j \in Ids, NEW p, ClientPhase(j)' = p,
           \A i \in Ids \ {j} : /\ status'[i] = status[i] /\ sub'[i] = sub[i]
                                /\ InQueue(i)' <=> InQueue(i)
    PROVE  Phase' = [Phase EXCEPT ![j] = p]
<1>1. \A i \in Ids \ {j} : ClientPhase(i)' = ClientPhase(i)
  BY DEF ClientPhase, LivePhase
<1> QED
  BY <1>1 DEF Phase

LEMMA PhaseStays ==
    ASSUME UNCHANGED <<status, sub, queue>>
    PROVE  Phase' = Phase
<1>1. \A i \in Ids : ClientPhase(i)' = ClientPhase(i)
  BY DEF ClientPhase, LivePhase, InQueue
<1> QED
  BY <1>1 DEF Phase

\* At most as many jobs are started as there are workers, one fewer when a
\* worker waits at the channel.
LEMMA StartedAreHeld ==
    ASSUME ServingInv, NEW w \in Workers, pc[w] = "recv"
    PROVE  Cardinality({j \in Ids : Phase[j] = "started"}) < Cardinality(Workers)
<1> DEFINE Started == {j \in Ids : Phase[j] = "started"}
           Holders == {v \in Workers : cur[v] \in Ids}
           Held == {cur[v] : v \in Holders}
           Job == [v \in Holders |-> cur[v]]
<1>1. Started \subseteq Held
  <2> SUFFICES ASSUME NEW j \in Started PROVE j \in Held
    OBVIOUS
  <2>1. status[j] \in Live /\ sub[j] \notin {"created", "full", "closed"} /\ ~InQueue(j)
    BY PhaseValues DEF ServingInv
  <2>2. \E v \in Workers : cur[v] = j
    BY <2>1 DEF ServingInv, UpInv, LiveJobHeld, HeldAt
  <2> QED
    BY <2>2
<1>2. IsFiniteSet(Workers) /\ Nothing \notin Ids
  BY SystemAssumption
<1>3. w \notin Holders
  BY <1>2 DEF ServingInv, PoolInv, PlacesInv, Busy
<1>4. IsFiniteSet(Holders) /\ Cardinality(Holders) < Cardinality(Workers)
  <2>1. Holders \subseteq Workers /\ Holders # Workers
    BY <1>3
  <2>2. /\ IsFiniteSet(Holders) /\ Cardinality(Holders) <= Cardinality(Workers)
        /\ Cardinality(Holders) # Cardinality(Workers)
    BY <1>2, <2>1, FS_Subset
  <2>3. Cardinality(Holders) \in Nat /\ Cardinality(Workers) \in Nat
    BY <1>2, <2>2, FS_CardinalityType
  <2> QED
    BY <2>2, <2>3
<1>5. IsFiniteSet(Held) /\ Cardinality(Held) <= Cardinality(Holders)
  <2>1. Job \in Surjection(Holders, Held)
    BY DEF Surjection
  <2> QED
    BY <1>4, <2>1, FS_Surjection
<1>6. IsFiniteSet(Started) /\ Cardinality(Started) <= Cardinality(Held)
  BY <1>1, <1>5, FS_Subset
<1>7. /\ Cardinality(Started) \in Nat /\ Cardinality(Held) \in Nat
      /\ Cardinality(Holders) \in Nat /\ Cardinality(Workers) \in Nat
  BY <1>2, <1>4, <1>5, <1>6, FS_CardinalityType
<1> QED
  BY <1>4, <1>5, <1>6, <1>7

\* A step is an action of the service, seen through the mapping.
LEMMA ServiceHandler ==
    ASSUME ServingInv, Handler
    PROVE  Service!Next \/ UNCHANGED Service!serviceVars
<1>0. /\ queue \in Seq(Ids) /\ QueueCap \in Nat
      /\ status \in [Ids -> Live \cup Terminal \cup Absent]
      /\ sub \in [Ids -> {"none", "created", "accepted", "full", "closed", "refused"}]
      /\ PoolInv
  BY SystemAssumption DEF ServingInv, PoolInv, TypeInv, TypeOK, StoreTypeOK
<1>1. ASSUME NEW j \in Ids, NEW o \in Owners, NEW k \in Kinds, Submit(j, o, k)
      PROVE  Service!Offer(j)
  <2>1. /\ status[j] = "free" /\ status' = [status EXCEPT ![j] = "queued"]
        /\ sub' = [sub EXCEPT ![j] = "created"] /\ UNCHANGED <<queue, file>>
    BY <1>1 DEF Submit, Create
  <2>2. Phase[j] = "unknown"
    BY <1>0, <2>1, PhaseValues
  <2>3. Phase' = [Phase EXCEPT ![j] = "offered"]
    <3>1. ClientPhase(j)' = "offered"
      BY <1>0, <2>1 DEF ClientPhase, LivePhase
    <3> QED
      BY <1>0, <2>1, <3>1, PhaseMoves DEF InQueue
  <2>4. Results' = Results
    BY <1>0, <2>1 DEF Results
  <2> QED
    BY <2>1, <2>2, <2>3, <2>4 DEF Service!Offer, Phase, Results
<1>2. ASSUME NEW j \in Ids, TrySend(j)
      PROVE  Service!Accept(j) \/ Service!TurnAway(j)
  <2>0. Results' = Results
    BY <1>2 DEF TrySend, storeVars, Results
  <2>1. /\ sub[j] = "created" /\ status[j] = "queued" /\ ~InQueue(j) /\ NoRepeats
        /\ UNCHANGED status
    BY <1>0, <1>2 DEF TrySend, PoolInv, PlacesInv, storeVars
  <2>2. Phase[j] = "offered"
    BY <1>0, <2>1, PhaseValues
  <2>3. ~ReceiverGone
    BY <2>1, SystemAssumption DEF ServingInv, UpInv, ReceiverGone
  <2>4. CASE /\ Len(queue) < QueueCap /\ queue' = Append(queue, j)
             /\ sub' = [sub EXCEPT ![j] = "accepted"]
    <3>1. \A i \in Ids : InQueue(i)' <=> (InQueue(i) \/ i = j)
      BY <1>0, <2>1, <2>4, SendQueue
    <3>2. ClientPhase(j)' = "waiting"
      BY <1>0, <2>1, <2>4, <3>1 DEF ClientPhase, LivePhase
    <3>3. Phase' = [Phase EXCEPT ![j] = "waiting"]
      BY <1>0, <2>1, <2>4, <3>1, <3>2, PhaseMoves
    <3> QED
      BY <2>0, <2>2, <2>4, <3>3 DEF Service!Accept, Phase, Results
  <2>5. CASE /\ Len(queue) >= QueueCap /\ queue' = queue
             /\ sub' = [sub EXCEPT ![j] = "full"]
    <3>1. Len(queue) = QueueCap
      BY <1>0, <2>5 DEF ServingInv, UpInv
    <3>2. ClientPhase(j)' = "failed"
      BY <1>0, <2>1, <2>5 DEF ClientPhase, LivePhase
    <3>3. Phase' = [Phase EXCEPT ![j] = "failed"]
      BY <1>0, <2>1, <2>5, <3>2, PhaseMoves DEF InQueue
    <3> QED
      BY <2>0, <2>2, <2>5, <3>1, <3>3 DEF Service!TurnAway, Phase, Results
  <2> QED
    BY <1>2, <2>3, <2>4, <2>5 DEF TrySend
<1>3. ASSUME NEW j \in Ids, RollBack(j) PROVE UNCHANGED Service!serviceVars
  <2>1. status[j] = "queued" /\ sub[j] = "full"
    BY <1>3 DEF RollBack, ServingInv, PoolInv, PlacesInv, UpInv
  <2>2. /\ status' = [status EXCEPT ![j] = "failed"] /\ sub' = [sub EXCEPT ![j] = "refused"]
        /\ UNCHANGED <<queue, file>>
    BY <1>3, <2>1 DEF RollBack, MarkFailed, Stored
  <2>3. Phase[j] = "failed"
    BY <1>0, <2>1, PhaseValues
  <2>4. Phase' = [Phase EXCEPT ![j] = "failed"]
    <3>1. ClientPhase(j)' = "failed"
      BY <1>0, <2>2 DEF ClientPhase
    <3> QED
      BY <1>0, <2>2, <3>1, PhaseMoves DEF InQueue
  <2>5. Phase' = Phase
    BY <2>3, <2>4 DEF Phase
  <2>6. Results' = Results
    BY <1>0, <2>1, <2>2 DEF Results
  <2> QED
    BY <2>2, <2>5, <2>6 DEF Phase, Results, Service!serviceVars
<1>4. ASSUME NEW c \in Owners, ReadFile(c) \/ \E j \in Ids : Fetch(c, j)
      PROVE  UNCHANGED Service!serviceVars
  <2>1. UNCHANGED <<status, sub, queue, file>>
    BY <1>4 DEF ReadFile, Fetch, storeVars
  <2>2. Results' = Results /\ Phase' = Phase
    BY <2>1, PhaseStays DEF Results
  <2> QED
    BY <2>1, <2>2 DEF Phase, Results, Service!serviceVars
<1> QED
  BY <1>1, <1>2, <1>3, <1>4 DEF Handler, Service!Next

\* The service's own copy of Cardinality is Cardinality.
LEMMA SameCardinality == \A S : Service!Cardinality(S) = Cardinality(S)
BY DEF Service!Cardinality, Cardinality

\* A worker takes the first job of the line, and ends the job it runs.
LEMMA ServiceWorker ==
    ASSUME ServingInv, NEW w \in Workers, Worker(w)
    PROVE  Service!Next \/ UNCHANGED Service!serviceVars
<1>0. /\ Nothing \notin Ids /\ queue \in Seq(Ids)
      /\ status \in [Ids -> Live \cup Terminal \cup Absent]
      /\ sub \in [Ids -> {"none", "created", "accepted", "full", "closed", "refused"}]
      /\ file \in [Ids -> {"none", "partial", "full"}]
      /\ cur \in [Workers -> Ids \cup {Nothing}]
      /\ PoolInv
  BY SystemAssumption DEF ServingInv, PoolInv, TypeInv, TypeOK, StoreTypeOK
<1>1. pc[w] \in Busy =>
         /\ cur[w] \in Ids /\ sub[cur[w]] = "accepted" /\ ~InQueue(cur[w])
         /\ status[cur[w]] = IF pc[w] = "picked" THEN "queued" ELSE "running"
         /\ Phase[cur[w]] = "started"
  <2> SUFFICES ASSUME pc[w] \in Busy
               PROVE  /\ cur[w] \in Ids /\ sub[cur[w]] = "accepted" /\ ~InQueue(cur[w])
                      /\ status[cur[w]] = IF pc[w] = "picked" THEN "queued" ELSE "running"
                      /\ Phase[cur[w]] = "started"
    OBVIOUS
  <2>1. /\ cur[w] \in Ids /\ sub[cur[w]] = "accepted" /\ ~InQueue(cur[w])
        /\ status[cur[w]] = IF pc[w] = "picked" THEN "queued" ELSE "running"
    BY <1>0 DEF PoolInv, PlacesInv, Separate
  <2> QED
    BY <1>0, <2>1, PhaseValues
<1>2. CASE Recv(w)
  <2>1. /\ Head(queue) \in Ids /\ InQueue(Head(queue))
        /\ \A i \in Ids : InQueue(i)' <=> (InQueue(i) /\ i # Head(queue))
    BY <1>0, <1>2, TakeQueue DEF Recv, PoolInv
  <2>2. PICK j \in Ids : j = Head(queue)
    BY <2>1
  <2>3. status[j] = "queued" /\ sub[j] = "accepted"
    BY <1>0, <2>1, <2>2 DEF PoolInv, PlacesInv
  <2>4. ClientPhase(j)' = "started"
    BY <1>0, <1>2, <2>1, <2>2, <2>3 DEF Recv, storeVars, ClientPhase, LivePhase
  <2>5. Phase' = [Phase EXCEPT ![j] = "started"]
    BY <1>2, <2>1, <2>2, <2>4, PhaseMoves DEF Recv, storeVars
  <2>6. Cardinality({i \in Ids : Phase[i] = "started"}) < Cardinality(Workers)
    BY <1>2, StartedAreHeld DEF Recv
  <2>7. Results' = Results
    BY <1>2 DEF Recv, storeVars, Results
  <2>8. Service!Begin
    BY <1>2, <2>2, <2>5, <2>6, <2>7, SameCardinality
       DEF Recv, Service!Begin, Service!InPhase, Phase, Results
  <2> QED
    BY <2>8 DEF Service!Next
<1>3. ASSUME NEW j \in Ids, j = cur[w], pc[w] \in Busy, NEW x \in Live \cup Terminal,
             status' = [status EXCEPT ![j] = x], UNCHANGED <<sub, queue, file>>
      PROVE  /\ Phase' = [Phase EXCEPT ![j] = IF x \in Live THEN "started" ELSE x]
             /\ Results' = IF x = "completed" /\ file[j] = "full" THEN Results \cup {j}
                           ELSE Results
  <2>1. ClientPhase(j)' = IF x \in Live THEN "started" ELSE x
    BY <1>0, <1>1, <1>3 DEF ClientPhase, LivePhase, InQueue
  <2>2. \A i \in Ids \ {j} : status'[i] = status[i] /\ sub'[i] = sub[i]
                             /\ (InQueue(i)' <=> InQueue(i))
    BY <1>0, <1>3 DEF InQueue
  <2>3. Phase' = [Phase EXCEPT ![j] = IF x \in Live THEN "started" ELSE x]
    BY <2>1, <2>2, PhaseMoves
  <2>4. status[j] # "completed"
    BY <1>1, <1>3
  <2> QED
    BY <1>0, <1>3, <2>3, <2>4 DEF Results
<1>4. CASE StartJob(w)
  <2>1. PICK j \in Ids : j = cur[w]
    BY <1>1, <1>4 DEF StartJob, Busy
  <2>2. /\ pc[w] = "picked" /\ status' = [status EXCEPT ![j] = "running"]
        /\ UNCHANGED <<sub, queue, file>>
    BY <1>1, <1>4, <2>1 DEF StartJob, MarkRunning, Stored, Busy
  <2>3. Phase' = [Phase EXCEPT ![j] = "started"] /\ Results' = Results
    BY <1>3, <2>1, <2>2 DEF Busy
  <2>4. Phase' = Phase
    BY <1>1, <2>1, <2>2, <2>3 DEF Phase, Busy
  <2> QED
    BY <2>2, <2>3, <2>4 DEF Phase, Results, Service!serviceVars
<1>5. CASE Complete(w) \/ Fail(w)
  <2>1. PICK j \in Ids : j = cur[w]
    BY <1>1, <1>5 DEF Complete, Fail, Busy
  <2>2. Phase[j] = "started" /\ pc[w] \in {"complete", "fail"}
    BY <1>1, <1>5, <2>1 DEF Complete, Fail, Busy
  <2>3. CASE Complete(w)
    <3>1. /\ status' = [status EXCEPT ![j] = "completed"] /\ file[j] = "full"
          /\ UNCHANGED <<sub, queue, file>>
      BY <1>1, <2>1, <2>3
         DEF Complete, MarkCompleted, NextJob, Stored, Busy, ServingInv, FilesInv
    <3>2. Phase' = [Phase EXCEPT ![j] = "completed"] /\ Results' = Results \cup {j}
      BY <1>3, <2>1, <2>2, <3>1 DEF Busy
    <3>3. Service!Succeed(j)
      BY <2>2, <3>1, <3>2 DEF Service!Succeed, Phase, Results
    <3> QED
      BY <3>3 DEF Service!Next
  <2>4. CASE Fail(w)
    <3>1. status' = [status EXCEPT ![j] = "failed"] /\ UNCHANGED <<sub, queue, file>>
      BY <1>1, <2>1, <2>4 DEF Fail, MarkFailed, NextJob, Stored, Busy
    <3>2. Phase' = [Phase EXCEPT ![j] = "failed"] /\ Results' = Results
      BY <1>3, <2>1, <2>2, <3>1 DEF Busy
    <3>3. Service!GiveUp(j)
      BY <2>2, <3>1, <3>2 DEF Service!GiveUp, Phase, Results
    <3> QED
      BY <3>3 DEF Service!Next
  <2> QED
    BY <1>5, <2>3, <2>4
<1>6. CASE OpenFile(w) \/ WriteFile(w)
  <2>1. status[cur[w]] = "running" /\ \A j \in Ids \ {cur[w]} : file'[j] = file[j]
    BY <1>0, <1>1, <1>6 DEF OpenFile, WriteFile, Busy
  <2>2. UNCHANGED <<status, sub, queue>>
    BY <1>6 DEF OpenFile, WriteFile, storeVars
  <2>3. Results' = Results
    BY <2>1, <2>2 DEF Results
  <2>4. Phase' = Phase
    BY <2>2, PhaseStays
  <2> QED
    BY <2>2, <2>3, <2>4 DEF Phase, Results, Service!serviceVars
<1>7. CASE ~(Recv(w) \/ StartJob(w) \/ Complete(w) \/ Fail(w) \/ OpenFile(w) \/ WriteFile(w))
  <2>1. ~AbortWorker(w)
    BY DEF AbortWorker, ServingInv, UpInv
  <2>2. UNCHANGED <<status, sub, queue, file>>
    BY <1>7, <2>1
       DEF Worker, Lock, RecvClosed, Leave, Probed, ProbeFails, Trip, WorkReturns, JobEnds,
           OpenFails, WriteFails, PersistFails, storeVars
  <2>3. Results' = Results /\ Phase' = Phase
    BY <2>2, PhaseStays DEF Results
  <2> QED
    BY <2>2, <2>3 DEF Phase, Results, Service!serviceVars
<1> QED
  BY <1>2, <1>3, <1>4, <1>5, <1>6, <1>7

\* The sweep forgets jobs that have ended; a crash forgets them all.
LEMMA ServiceHost ==
    ASSUME ServingInv, Sweeper \/ Host
    PROVE  Service!Next \/ UNCHANGED Service!serviceVars
<1>0. /\ status \in [Ids -> Live \cup Terminal \cup Absent]
      /\ sub \in [Ids -> {"none", "created", "accepted", "full", "closed", "refused"}]
      /\ file \in [Ids -> {"none", "partial", "full"}]
      /\ PoolInv
  BY DEF ServingInv, PoolInv, TypeInv, TypeOK, StoreTypeOK
<1>1. CASE Reap
  <2>1. /\ Expired \in SUBSET Ids /\ Expired # {}
        /\ \A j \in Expired : status[j] \in Terminal
        /\ status' = [j \in Ids |-> IF j \in Expired THEN "reaped" ELSE status[j]]
        /\ UNCHANGED <<sub, queue, file>>
    BY <1>0, <1>1 DEF Reap, ReapExpired, Drop, Expired, Stored, ServingInv, AgesInv
  <2>2. \A j \in Expired : Phase[j] \in {"completed", "failed"}
    BY <1>0, <2>1, PhaseValues
  <2>3. Phase' = [j \in Ids |-> IF j \in Expired THEN "gone" ELSE Phase[j]]
    <3>1. \A j \in Expired : ClientPhase(j)' = "gone"
      BY <1>0, <2>1 DEF ClientPhase
    <3>2. \A j \in Ids \ Expired : ClientPhase(j)' = ClientPhase(j)
      BY <2>1 DEF ClientPhase, LivePhase, InQueue
    <3> QED
      BY <3>1, <3>2 DEF Phase
  <2>4. Results' = Results \ Expired
    BY <1>0, <2>1 DEF Results
  <2>5. PICK S \in SUBSET Ids : S = Expired
    BY <2>1
  <2>6. Service!Forget(S)
    BY <2>1, <2>2, <2>3, <2>4, <2>5 DEF Service!Forget, Service!InPhase, Phase, Results
  <2> QED
    BY <2>6 DEF Service!Next
<1>2. CASE Restart
  <2>1. /\ status' = [j \in Ids |-> IF j \in Stored THEN "lost" ELSE status[j]]
        /\ queue' = <<>>
    BY <1>2 DEF Restart, Drop
  <2>2. Phase' = [j \in Ids |-> IF Phase[j] = "unknown" THEN "unknown" ELSE "gone"]
    <3>1. \A j \in Ids : Phase[j] = "unknown" <=> status[j] = "free"
      BY <1>0, PhaseValues
    <3>2. \A j \in Ids : ClientPhase(j)' = IF status[j] = "free" THEN "unknown" ELSE "gone"
      BY <1>0, <2>1 DEF ClientPhase, Stored
    <3> QED
      BY <3>1, <3>2 DEF Phase
  <2>3. Results' = {}
    BY <1>0, <2>1 DEF Results, Stored
  <2>4. Service!Crash
    BY <2>1, <2>2, <2>3 DEF Service!Crash, Phase, Results
  <2> QED
    BY <2>4 DEF Service!Next
<1>3. ASSUME UNCHANGED <<status, sub, queue>>, Results' = Results
      PROVE  UNCHANGED Service!serviceVars
  <2>1. Phase' = Phase
    BY <1>3, PhaseStays
  <2> QED
    BY <1>3, <2>1 DEF Phase, Results, Service!serviceVars
<1>4. ASSUME NEW j \in Ids, RemoveFile(j) PROVE UNCHANGED Service!serviceVars
  <2>1. status[j] = "reaped" /\ \A i \in Ids \ {j} : file'[i] = file[i]
    BY <1>0, <1>4 DEF RemoveFile, PoolInv, PlacesInv
  <2>2. UNCHANGED <<status, sub, queue>>
    BY <1>4 DEF RemoveFile, storeVars
  <2> QED
    BY <1>3, <2>1, <2>2 DEF Results
<1>5. CASE AbortSweeper \/ Tick \/ DropSender \/ DropGuards
  BY <1>3, <1>5 DEF AbortSweeper, Tick, DropSender, DropGuards, storeVars, Results
<1> QED
  BY <1>1, <1>2, <1>4, <1>5 DEF Sweeper, Host

\* While its guards are kept, the subsystem implements the lifecycle the API
\* documents: first come first started, at most a pool's worth at once, refused
\* only when the queue is full, and downloadable until it is gone.
THEOREM ServiceIsImplemented ==
    ASSUME "guards" \notin Stops
    PROVE  Spec => ImplementsService
<1>1. Init => Service!Init
  <2> SUFFICES ASSUME Init PROVE Service!Init
    OBVIOUS
  <2>1. \A j \in Ids : ClientPhase(j) = "unknown"
    BY DEF Init, StoreInit, ClientPhase
  <2> QED
    BY <2>1 DEF Init, StoreInit, Service!Init
<1>2. ServingInv /\ [Next]_vars => [Service!Next]_Service!serviceVars
  <2> SUFFICES ASSUME ServingInv, [Next]_vars
               PROVE  Service!Next \/ UNCHANGED Service!serviceVars
    OBVIOUS
  <2>1. CASE UNCHANGED vars
    <3>1. UNCHANGED <<status, sub, queue, file>>
      BY <2>1 DEF vars, storeVars
    <3>2. Results' = Results /\ Phase' = Phase
      BY <3>1, PhaseStays DEF Results
    <3> QED
      BY <3>1, <3>2 DEF Phase, Results, Service!serviceVars
  <2> QED
    BY <2>1, ServiceHandler, ServiceWorker, ServiceHost DEF Next
<1> QED
  BY <1>1, <1>2, ServingInvariant, PTL DEF Spec, ImplementsService, Service!Spec
=============================================================================
