----------------------------- MODULE JobSystem -----------------------------
(***************************************************************************)
(* The asynchronous job subsystem of the HTTP server: the submit handler,  *)
(* the bounded queue, the worker pool, the per-job deadline, the result    *)
(* files, the retention sweep, the download handler, shutdown and restart. *)
(* Sources: crates/server/src/jobs/worker.rs, jobs/mod.rs, routes/jobs.rs, *)
(* processing.rs, over the store of module JobStore.                       *)
(*                                                                         *)
(* A step is what one task does between two points where another task can  *)
(* observe it: a store call (one lock), a channel operation, one file      *)
(* system call, or the end of an await.  The handlers that only read       *)
(* (status poll, 404/409/503 answers) change no state and are no actions.  *)
(***************************************************************************)
EXTENDS JobStore, Sequences

CONSTANTS
    Workers,      \* the tasks of the fixed pool, OXIDE_JOB_WORKERS of them
    QueueCap,     \* OXIDE_JOB_QUEUE_CAPACITY
    TimeoutOn,    \* OXIDE_JOB_TIMEOUT_SECS is not zero
    Faults,       \* file system calls that may fail
    Stops,        \* what a shutdown may drop: the "sender", the "guards"
    MaxRestarts   \* bound on crashes of the process

ASSUME SystemAssumption ==
    /\ Workers # {} /\ IsFiniteSet(Workers)
    /\ Nothing \notin Ids \cup Workers
    /\ QueueCap \in Nat \ {0}
    /\ TimeoutOn \in BOOLEAN
    /\ Faults \subseteq {"open", "write", "remove"}
    /\ Stops \subseteq {"sender", "guards"}
    /\ MaxRestarts \in Nat

VARIABLES
    sub,       \* sub[j]: how far the submit handler that drew j has come
    queue,     \* the mpsc channel: ids of the QueuedJobs in it
    rxHolder,  \* the worker that holds the receiver's mutex, or Nothing
    pc,        \* pc[w]: where worker w is in worker_loop
    cur,       \* cur[w]: the job w took from the queue, or Nothing
    token,     \* token[w]: the CancelToken of w's job has been tripped
    outcome,   \* outcome[w]: "ok" or the error code process_job returned
    readAt,    \* readAt[w]: age of the `now` that w read after the job ended
    file,      \* file[j]: the result file of j on disk
    reaping,   \* paths the sweep took from the store and has yet to delete
    sweeper,   \* the cleanup task: "running", or "aborted"
    guards,    \* JobsGuards is still held
    sender,    \* the router, and with it the channel's sender, is still alive
    dlAt,      \* dlAt[c]: where client c's download handler is
    dlJob,     \* dlJob[c]: the job whose snapshot it holds
    restarts   \* crashes of the process so far

taskVars == <<pc, cur, token, outcome, readAt>>
clientVars == <<dlAt, dlJob>>
hostVars == <<sweeper, guards, sender, restarts>>
vars == <<storeVars, sub, queue, rxHolder, taskVars, file, reaping, hostVars, clientVars>>

\* The await points of worker_loop, where an abort can take a worker.
Awaiting == {"lock", "recv", "probe", "work"}
\* From taking a job off the queue to the store call that ends it.
Busy == {"picked", "probe", "work", "open", "write", "complete", "fail"}

TypeOK ==
    /\ StoreTypeOK
    /\ sub \in [Ids -> {"none", "created", "accepted", "full", "closed", "refused"}]
    /\ queue \in Seq(Ids)
    /\ rxHolder \in Workers \cup {Nothing}
    /\ pc \in [Workers -> {"lock", "recv", "gone"} \cup Busy]
    /\ cur \in [Workers -> Ids \cup {Nothing}]
    /\ token \in [Workers -> BOOLEAN]
    /\ outcome \in [Workers -> ErrorCodes \cup {"ok", NoError}]
    /\ readAt \in [Workers -> NotFinished..Retention]
    /\ file \in [Ids -> {"none", "partial", "full"}]
    /\ reaping \subseteq Ids
    /\ sweeper \in {"running", "aborted"}
    /\ guards \in BOOLEAN
    /\ sender \in BOOLEAN
    /\ dlAt \in [Owners -> {"idle", "reading", "full", "partial", "missing"}]
    /\ dlJob \in [Owners -> Ids \cup {Nothing}]
    /\ restarts \in 0..MaxRestarts

\* A freshly started process over an empty result directory.
Init ==
    /\ StoreInit
    /\ queue = <<>>
    /\ rxHolder = Nothing
    /\ pc = [w \in Workers |-> "lock"]
    /\ cur = [w \in Workers |-> Nothing]
    /\ token = [w \in Workers |-> FALSE]
    /\ outcome = [w \in Workers |-> NoError]
    /\ readAt = [w \in Workers |-> NotFinished]
    /\ reaping = {}
    /\ sweeper = "running"
    /\ guards = TRUE
    /\ sender = TRUE
    /\ dlAt = [c \in Owners |-> "idle"]
    /\ dlJob = [c \in Owners |-> Nothing]
    /\ sub = [j \in Ids |-> "none"]
    /\ file = [j \in Ids |-> "none"]
    /\ restarts = 0

-----------------------------------------------------------------------------
(***************************************************************************)
(* The submit handler: JobSystem::submit.  Creating the job and sending it *)
(* are two steps, so a sweep, a poll or another handler may come between.  *)
(***************************************************************************)
\* `store.create` succeeded; at the cap it answers 503 and changes nothing.
Submit(j, o, k) ==
    /\ sender
    /\ Create(j, o, k)
    /\ sub' = [sub EXCEPT ![j] = "created"]
    /\ UNCHANGED <<queue, rxHolder, taskVars, file, reaping, hostVars, clientVars>>

\* The receiver lives in the worker tasks, and goes with the last of them.
ReceiverGone == \A w \in Workers : pc[w] = "gone"

\* Faulty variant: the test for a full channel is off by one.
TrySendOffByOne(j) ==
    /\ sub[j] = "created"
    /\ \/ /\ Len(queue) <= QueueCap
          /\ sub' = [sub EXCEPT ![j] = "accepted"]
          /\ queue' = Append(queue, j)
       \/ /\ Len(queue) > QueueCap
          /\ sub' = [sub EXCEPT ![j] = "full"]
          /\ UNCHANGED queue
    /\ UNCHANGED <<storeVars, rxHolder, taskVars, file, reaping, hostVars, clientVars>>

\* `sender.try_send`.
TrySend(j) ==
    /\ sub[j] = "created"
    /\ \/ /\ ReceiverGone
          /\ sub' = [sub EXCEPT ![j] = "closed"]
          /\ UNCHANGED queue
       \/ /\ ~ReceiverGone
          /\ Len(queue) < QueueCap
          /\ sub' = [sub EXCEPT ![j] = "accepted"]
          /\ queue' = Append(queue, j)
       \/ /\ ~ReceiverGone
          /\ Len(queue) >= QueueCap
          /\ sub' = [sub EXCEPT ![j] = "full"]
          /\ UNCHANGED queue
    /\ UNCHANGED <<storeVars, rxHolder, taskVars, file, reaping, hostVars, clientVars>>

\* The job was not sent: mark it failed, so that the sweep reclaims its entry.
RollBack(j) ==
    /\ \/ sub[j] = "full" /\ MarkFailed(j, "queue_full", 0)
       \/ sub[j] = "closed" /\ MarkFailed(j, "internal_error", 0)
    /\ sub' = [sub EXCEPT ![j] = "refused"]
    /\ UNCHANGED <<queue, rxHolder, taskVars, file, reaping, hostVars, clientVars>>

-----------------------------------------------------------------------------
(***************************************************************************)
(* The worker task: worker_loop, process_job and persist_result.           *)
(***************************************************************************)
Lock(w) ==
    /\ pc[w] = "lock"
    /\ rxHolder = Nothing
    /\ rxHolder' = w
    /\ pc' = [pc EXCEPT ![w] = "recv"]
    /\ UNCHANGED <<storeVars, sub, queue, cur, token, outcome, readAt, file, reaping,
                   hostVars, clientVars>>

\* Faulty variant: the job is looked at and stays in the queue.
RecvPeeks(w) ==
    /\ pc[w] = "recv"
    /\ queue # <<>>
    /\ cur' = [cur EXCEPT ![w] = Head(queue)]
    /\ rxHolder' = Nothing
    /\ pc' = [pc EXCEPT ![w] = "picked"]
    /\ UNCHANGED <<storeVars, sub, queue, token, outcome, readAt, file, reaping, hostVars,
                   clientVars>>

\* `rx.recv().await` yields a job; the lock goes out of scope with the block.
Recv(w) ==
    /\ pc[w] = "recv"
    /\ queue # <<>>
    /\ cur' = [cur EXCEPT ![w] = Head(queue)]
    /\ queue' = Tail(queue)
    /\ rxHolder' = Nothing
    /\ pc' = [pc EXCEPT ![w] = "picked"]
    /\ UNCHANGED <<storeVars, sub, token, outcome, readAt, file, reaping, hostVars, clientVars>>

\* A worker's task ends: it lets go of the mutex it may hold, and the last one
\* drops the receiver, which drains the channel.
Leave(w) ==
    /\ pc' = [pc EXCEPT ![w] = "gone"]
    /\ cur' = [cur EXCEPT ![w] = Nothing]
    /\ token' = [token EXCEPT ![w] = FALSE]
    /\ rxHolder' = IF rxHolder = w THEN Nothing ELSE rxHolder
    /\ queue' = IF \A v \in Workers \ {w} : pc[v] = "gone" THEN <<>> ELSE queue
    /\ UNCHANGED <<storeVars, sub, outcome, readAt, file, reaping, hostVars, clientVars>>

\* `recv` yields None once the sender is gone and the queue is drained.
RecvClosed(w) ==
    /\ pc[w] = "recv"
    /\ queue = <<>>
    /\ ~sender
    /\ Leave(w)

StartJob(w) ==
    /\ pc[w] = "picked"
    /\ MarkRunning(cur[w])
    /\ pc' = [pc EXCEPT ![w] = IF kind[cur[w]] = "pdf2img" THEN "probe" ELSE "work"]
    /\ UNCHANGED <<sub, queue, rxHolder, cur, token, outcome, readAt, file, reaping,
                   hostVars, clientVars>>

\* pdf2img opens the document and checks pages and pixels on the async task,
\* before the deadline is armed.
Probed(w) ==
    /\ pc[w] = "probe"
    /\ pc' = [pc EXCEPT ![w] = "work"]
    /\ UNCHANGED <<storeVars, sub, queue, rxHolder, cur, token, outcome, readAt, file,
                   reaping, hostVars, clientVars>>

\* The job task ends with result r; the worker's await returns and it reads
\* `now` before it persists anything.
JobEnds(w, r) ==
    /\ outcome' = [outcome EXCEPT ![w] = r]
    /\ readAt' = [readAt EXCEPT ![w] = 0]
    /\ token' = [token EXCEPT ![w] = FALSE]
    /\ pc' = [pc EXCEPT ![w] = IF r = "ok" THEN "open" ELSE "fail"]
    /\ UNCHANGED <<storeVars, sub, queue, rxHolder, cur, file, reaping, hostVars, clientVars>>

\* The probe returns an error, or panics: the JoinError becomes Internal.
ProbeFails(w) ==
    /\ pc[w] = "probe"
    /\ \E r \in {"input_error", "internal_error"} : JobEnds(w, r)

\* Faulty variant: the timer is never spawned.
TripNever(w) == pc[w] = "work" /\ FALSE /\ UNCHANGED vars

\* The timer task of run_with_deadline_secs trips the token.
Trip(w) ==
    /\ TimeoutOn
    /\ pc[w] = "work"
    /\ ~token[w]
    /\ token' = [token EXCEPT ![w] = TRUE]
    /\ UNCHANGED <<storeVars, sub, queue, rxHolder, pc, cur, outcome, readAt, file, reaping,
                   hostVars, clientVars>>

\* What the blocking closure can come back with.  The renderer polls the token
\* and the closure tests it once more at the end; the extraction closure takes
\* `_cancel` and never looks.  A panic is a Timeout once the token is tripped.
WorkResult(w) ==
    IF token[w] /\ kind[cur[w]] = "pdf2img"
    THEN {"timeout"}
    ELSE {"ok", "input_error"} \cup {IF token[w] THEN "timeout" ELSE "internal_error"}

WorkReturns(w) ==
    /\ pc[w] = "work"
    /\ \E r \in WorkResult(w) : JobEnds(w, r)

\* persist_result cannot write the file: classified as an internal error.
PersistFails(w) ==
    /\ outcome' = [outcome EXCEPT ![w] = "internal_error"]
    /\ pc' = [pc EXCEPT ![w] = "fail"]
    /\ UNCHANGED <<storeVars, sub, queue, rxHolder, cur, token, readAt, file, reaping,
                   hostVars, clientVars>>

\* Faulty variant: the job is reported complete before its bytes are written.
OpenFileOnly(w) ==
    /\ pc[w] = "open"
    /\ file' = [file EXCEPT ![cur[w]] = "partial"]
    /\ pc' = [pc EXCEPT ![w] = "complete"]
    /\ UNCHANGED <<storeVars, sub, queue, rxHolder, cur, token, outcome, readAt, reaping,
                   hostVars, clientVars>>

\* fs::write creates the file ...
OpenFile(w) ==
    /\ pc[w] = "open"
    /\ file' = [file EXCEPT ![cur[w]] = "partial"]
    /\ pc' = [pc EXCEPT ![w] = "write"]
    /\ UNCHANGED <<storeVars, sub, queue, rxHolder, cur, token, outcome, readAt, reaping,
                   hostVars, clientVars>>

OpenFails(w) == "open" \in Faults /\ pc[w] = "open" /\ PersistFails(w)

\* ... and then writes all its bytes, or fails half way and leaves what it wrote.
WriteFile(w) ==
    /\ pc[w] = "write"
    /\ file' = [file EXCEPT ![cur[w]] = "full"]
    /\ pc' = [pc EXCEPT ![w] = "complete"]
    /\ UNCHANGED <<storeVars, sub, queue, rxHolder, cur, token, outcome, readAt, reaping,
                   hostVars, clientVars>>

WriteFails(w) == "write" \in Faults /\ pc[w] = "write" /\ PersistFails(w)

\* Back to the top of the loop.
NextJob(w) ==
    /\ pc' = [pc EXCEPT ![w] = "lock"]
    /\ cur' = [cur EXCEPT ![w] = Nothing]
    /\ outcome' = [outcome EXCEPT ![w] = NoError]
    /\ readAt' = [readAt EXCEPT ![w] = NotFinished]
    /\ UNCHANGED <<sub, queue, rxHolder, token, file, reaping, hostVars, clientVars>>

Complete(w) ==
    /\ pc[w] = "complete"
    /\ MarkCompleted(cur[w], readAt[w])
    /\ NextJob(w)

Fail(w) ==
    /\ pc[w] = "fail"
    /\ MarkFailed(cur[w], outcome[w], readAt[w])
    /\ NextJob(w)

-----------------------------------------------------------------------------
(***************************************************************************)
(* The retention sweep: spawn_cleanup_task.                                *)
(***************************************************************************)
\* Faulty variant: the files go first, the entries are dropped some other time.
ReapFilesFirst ==
    /\ sweeper = "running"
    /\ reaping = {}
    /\ Expired # {}
    /\ reaping' = ReapedPaths
    /\ UNCHANGED <<storeVars, sub, queue, rxHolder, taskVars, file, hostVars, clientVars>>

\* The task ticks again only when it has deleted everything it reaped.
Reap ==
    /\ sweeper = "running"
    /\ reaping = {}
    /\ Expired # {}
    /\ reaping' = ReapedPaths
    /\ ReapExpired
    /\ UNCHANGED <<sub, queue, rxHolder, taskVars, file, hostVars, clientVars>>

\* `remove_file`; an error is logged at debug level and the path forgotten.
RemoveFile(j) ==
    /\ j \in reaping
    /\ reaping' = reaping \ {j}
    /\ \/ file' = [file EXCEPT ![j] = "none"]
       \/ "remove" \in Faults /\ UNCHANGED file
    /\ UNCHANGED <<storeVars, sub, queue, rxHolder, taskVars, hostVars, clientVars>>

-----------------------------------------------------------------------------
(***************************************************************************)
(* The download handler: routes/jobs.rs `result`.  It takes a snapshot     *)
(* under the read lock and reads the file after letting the lock go.       *)
(***************************************************************************)
Fetch(c, j) ==
    /\ sender
    /\ dlAt[c] # "reading"
    /\ status[j] = "completed"
    /\ owner[j] = c
    /\ dlAt' = [dlAt EXCEPT ![c] = "reading"]
    /\ dlJob' = [dlJob EXCEPT ![c] = j]
    /\ UNCHANGED <<storeVars, sub, queue, rxHolder, taskVars, file, reaping, hostVars>>

\* A file that is gone answers 404, any other content 200.
ReadFile(c) ==
    /\ dlAt[c] = "reading"
    /\ dlAt' = [dlAt EXCEPT ![c] = IF file[dlJob[c]] = "none" THEN "missing"
                                   ELSE file[dlJob[c]]]
    /\ UNCHANGED <<storeVars, sub, queue, rxHolder, taskVars, file, reaping, hostVars, dlJob>>

-----------------------------------------------------------------------------
(***************************************************************************)
(* The host: time, graceful shutdown, and a crash followed by a restart.   *)
(***************************************************************************)
Tick ==
    /\ Age
    /\ readAt' = [w \in Workers |-> Older(readAt[w])]
    /\ <<finished, readAt>>' # <<finished, readAt>>
    /\ UNCHANGED <<status, owner, kind, error, sub, queue, rxHolder, pc, cur, token, outcome,
                   file, reaping, hostVars, clientVars>>

\* The router goes away; a handler still at work holds a clone of its state.
DropSender ==
    /\ "sender" \in Stops /\ sender
    /\ \A j \in Ids : sub[j] \notin {"created", "full", "closed"}
    /\ \A c \in Owners : dlAt[c] # "reading"
    /\ sender' = FALSE
    /\ UNCHANGED <<storeVars, sub, queue, rxHolder, taskVars, file, reaping, sweeper, guards,
                   restarts, clientVars>>

\* Drop for JobsGuards asks every task to stop; each stops at its next await.
DropGuards ==
    /\ "guards" \in Stops /\ guards
    /\ guards' = FALSE
    /\ UNCHANGED <<storeVars, sub, queue, rxHolder, taskVars, file, reaping, sweeper, sender,
                   restarts, clientVars>>

AbortWorker(w) == ~guards /\ pc[w] \in Awaiting /\ Leave(w)

AbortSweeper ==
    /\ ~guards /\ sweeper = "running" /\ reaping = {}
    /\ sweeper' = "aborted"
    /\ UNCHANGED <<storeVars, sub, queue, rxHolder, taskVars, file, reaping, guards, sender,
                   restarts, clientVars>>

\* The process dies and comes back: memory starts over, the disk does not.
Restart ==
    /\ restarts < MaxRestarts
    /\ restarts' = restarts + 1
    /\ Drop(Stored, "lost")
    /\ sub' = [j \in Ids |-> "none"]
    /\ queue' = <<>>
    /\ rxHolder' = Nothing
    /\ pc' = [w \in Workers |-> "lock"]
    /\ cur' = [w \in Workers |-> Nothing]
    /\ token' = [w \in Workers |-> FALSE]
    /\ outcome' = [w \in Workers |-> NoError]
    /\ readAt' = [w \in Workers |-> NotFinished]
    /\ reaping' = {}
    /\ sweeper' = "running"
    /\ guards' = TRUE
    /\ sender' = TRUE
    /\ dlAt' = [c \in Owners |-> "idle"]
    /\ dlJob' = [c \in Owners |-> Nothing]
    /\ UNCHANGED file

-----------------------------------------------------------------------------
Handler ==
    \/ \E j \in Ids, o \in Owners, k \in Kinds : Submit(j, o, k)
    \/ \E j \in Ids : TrySend(j) \/ RollBack(j)
    \/ \E c \in Owners : ReadFile(c) \/ \E j \in Ids : Fetch(c, j)

Worker(w) ==
    \/ Lock(w) \/ Recv(w) \/ RecvClosed(w) \/ StartJob(w)
    \/ Probed(w) \/ ProbeFails(w) \/ Trip(w) \/ WorkReturns(w)
    \/ OpenFile(w) \/ OpenFails(w) \/ WriteFile(w) \/ WriteFails(w)
    \/ Complete(w) \/ Fail(w) \/ AbortWorker(w)

Sweeper == Reap \/ (\E j \in Ids : RemoveFile(j)) \/ AbortSweeper

Host == Tick \/ DropSender \/ DropGuards \/ Restart

Next == Handler \/ (\E w \in Workers : Worker(w)) \/ Sweeper \/ Host

Spec == Init /\ [][Next]_vars

-----------------------------------------------------------------------------
(***************************************************************************)
(* Safety                                                                  *)
(***************************************************************************)
\* A job is shown as completed only once its result file is whole on disk:
\* persist_result comes before mark_completed, and the sweep drops the entry
\* before it deletes the file.
CompletedHasFile == \A j \in Ids : status[j] = "completed" => file[j] = "full"

\* A download that began on a completed job answers with the whole result, or
\* with 404 because the job's retention ended between the handler's snapshot
\* and its read of the file.  A truncated result is never served.
DownloadAnswers ==
    \A c \in Owners :
        /\ dlAt[c] # "partial"
        /\ dlAt[c] = "missing" => status[dlJob[c]] = "reaped"

\* A job is in one place: queued once, or held by one worker, never both.  So
\* no job is run twice, and no two workers write one result file.
OneRunner ==
    /\ \A i, k \in 1..Len(queue) : queue[i] = queue[k] => i = k
    /\ \A i \in 1..Len(queue), w \in Workers : queue[i] # cur[w]
    /\ \A v, w \in Workers : cur[v] = cur[w] /\ cur[v] # Nothing => v = w

InQueue(j) == \E i \in 1..Len(queue) : queue[i] = j
HeldAt(j, places) == \E w \in Workers : cur[w] = j /\ pc[w] \in places

\* No job is left behind: while the pool is alive, a job a client can see as
\* queued has a handler, a place in the queue or a worker that will move it,
\* and one it can see as running has a worker ("we don't leak a
\* permanently-queued job that no worker will ever pick up").
LiveJobHeld ==
    guards => \A j \in Ids :
        /\ status[j] = "queued" =>
              sub[j] \in {"created", "full", "closed"} \/ InQueue(j) \/ HeldAt(j, {"picked"})
        /\ status[j] = "running" => HeldAt(j, Busy \ {"picked"})

\* The map holds at most max_jobs entries, rejected submissions included.
StoreBounded == Cardinality(Stored) <= MaxJobs

\* A job that is not finished is in exactly one place from which it goes on:
\* never forgotten, never run twice.
JobsHeldOnce == LiveJobHeld /\ OneRunner

\* Every file in the result directory has somebody who will delete it: its job
\* is completed and waits for its retention to end, a worker is writing it, or
\* the sweep has its path in hand.  Only a crash leaves files behind.
NoOrphanFile ==
    \A j \in Ids : file[j] # "none" =>
        \/ status[j] \in {"completed", "lost"}
        \/ HeldAt(j, {"write", "complete"})
        \/ j \in reaping

(***************************************************************************)
(* Action properties                                                       *)
(***************************************************************************)
Rank == [s \in Live \cup Terminal \cup Absent |->
            CASE s = "free" -> 0 [] s = "queued" -> 1 [] s = "running" -> 2
              [] s \in Terminal -> 3 [] OTHER -> 4]

\* A job only moves forward through its life: a terminal state is never left
\* but by being dropped, and the retention sweep never takes a live job.
Forward ==
    \A j \in Ids : status'[j] # status[j] =>
        /\ Rank[status'[j]] > Rank[status[j]]
        /\ status'[j] = "reaped" => status[j] \in Terminal
StatusForward == [][Forward]_status

(***************************************************************************)
(* Refinement: what a client is promised (module JobService).              *)
(***************************************************************************)
\* A job in the map that has not ended, by what its submit handler has done.
LivePhase(j) ==
    CASE sub[j] \in {"full", "closed"} -> "failed"
      [] sub[j] = "created" -> "offered"
      [] OTHER -> IF InQueue(j) THEN "waiting" ELSE "started"

ClientPhase(j) ==
    CASE status[j] = "free" -> "unknown"
      [] status[j] \in {"reaped", "lost"} -> "gone"
      [] status[j] \in Terminal -> status[j]
      [] status[j] \in Live -> LivePhase(j)

Service == INSTANCE JobService WITH
    Jobs <- Ids,
    Slots <- Cardinality(Workers),
    Room <- QueueCap,
    phase <- [j \in Ids |-> ClientPhase(j)],
    line <- queue,
    results <- {j \in Ids : status[j] = "completed" /\ file[j] = "full"}

\* The subsystem implements the lifecycle of docs/jobs.md: jobs start in the
\* order they were accepted, at most a pool's worth at once, 503 only when the
\* queue is full, and a completed job's output can be fetched until it is gone.
ImplementsService == Service!Spec

(***************************************************************************)
(* Liveness                                                                *)
(***************************************************************************)
\* Fairness: an async task that can go on is polled again, the tokio Mutex
\* and the channel wake a waiter, timers fire, the sweep ticks.  A render is
\* only assumed to end once its token is tripped; an extraction never looks at
\* the token and is assumed to end by itself.
WorkEnds(w) ==
    /\ pc[w] = "work"
    /\ token[w] \/ kind[cur[w]] = "extract_images"
    /\ WorkReturns(w)

FairSpec ==
    /\ Spec
    /\ \A j \in Ids : WF_vars(TrySend(j)) /\ WF_vars(RollBack(j)) /\ WF_vars(RemoveFile(j))
    /\ WF_vars(\E w \in Workers : Lock(w))
    /\ \A w \in Workers :
          /\ WF_vars(Recv(w)) /\ WF_vars(RecvClosed(w)) /\ WF_vars(StartJob(w))
          /\ WF_vars(Probed(w) \/ ProbeFails(w))
          /\ WF_vars(Trip(w)) /\ WF_vars(WorkEnds(w))
          /\ WF_vars(OpenFile(w) \/ OpenFails(w)) /\ WF_vars(WriteFile(w) \/ WriteFails(w))
          /\ WF_vars(Complete(w)) /\ WF_vars(Fail(w))
    /\ \A c \in Owners : WF_vars(ReadFile(c))
    /\ WF_vars(Tick) /\ WF_vars(Reap)

\* When the router is dropped the pool drains the queue and leaves.
DrainsOnClose == ~sender ~> (ReceiverGone /\ \A j \in Ids : status[j] \notin Live)

\* Every entry, and so every accepted job, comes to an end and disappears with
\* its file, however long its render would run: the deadline frees the worker,
\* the queue moves on, and a store at its cap accepts jobs again.
EverythingReclaimed ==
    \A j \in Ids : (j \in Stored \/ file[j] # "none") ~> (j \notin Stored /\ file[j] = "none")
=============================================================================
