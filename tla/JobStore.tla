------------------------------ MODULE JobStore ------------------------------
(***************************************************************************)
(* The in-memory job store of the HTTP server: crates/server/src/jobs/     *)
(* store.rs, `InMemoryJobStore` behind the `JobStore` trait.               *)
(*                                                                         *)
(* The store is one RwLock<HashMap<String, Job>>.  Every method takes the  *)
(* write lock for its whole body, so every method is one atomic step here. *)
(* The module gives those steps as actions over the store's variables; the *)
(* modules that own the callers (JobSystem) compose them with their own    *)
(* state.                                                                  *)
(*                                                                         *)
(* Time.  `finished_at` is an Instant and is only ever compared with       *)
(* `now - retention`.  The model keeps the age of that Instant instead of  *)
(* a clock, saturated at Retention: no test in the code can tell two ages  *)
(* past the retention window apart, so the state stays finite without a    *)
(* bound on time.                                                          *)
(***************************************************************************)
EXTENDS Integers, FiniteSets

CONSTANTS
    Ids,        \* job ids: 128 random bits in the code, never drawn twice
    Owners,     \* submitting identities (API keys, or "anonymous")
    MaxJobs,    \* OXIDE_MAX_JOBS, the cap on retained jobs
    Retention   \* OXIDE_JOB_RETENTION_SECS, in ticks

\* from_env and InMemoryJobStore::new clamp max_jobs to at least one;
\* a retention of zero seconds is accepted by the configuration.
ASSUME StoreAssumption ==
    /\ MaxJobs \in Nat \ {0}
    /\ Retention \in Nat

VARIABLES
    status,     \* status[j]: where job j is in its life; "free" and "reaped"
                \* (and "lost", after a restart) are ids not in the map
    owner,      \* owner[j]: the identity that submitted j
    kind,       \* kind[j]: which heavy operation j runs
    error,      \* error[j]: the classified error code, NoError when None
    finished    \* finished[j]: age of finished_at, NotFinished when None

storeVars == <<status, owner, kind, error, finished>>

Kinds == {"pdf2img", "extract_images"}
Nothing == "nothing"     \* owner and kind of an id that is not in the map

NotFinished == -1
NoError == "none"

\* The classified codes the properties tell apart.  "input_error" stands for
\* every 4xx class (malformed, encrypted, unsupported, limits, parameters).
ErrorCodes == {"queue_full", "internal_error", "timeout", "input_error"}

Live == {"queued", "running"}
Terminal == {"completed", "failed"}
Absent == {"free", "reaped", "lost"}

\* The keys of the map.
Stored == {j \in Ids : status[j] \notin Absent}

StoreTypeOK ==
    /\ status \in [Ids -> Live \cup Terminal \cup Absent]
    /\ owner \in [Ids -> Owners \cup {Nothing}]
    /\ kind \in [Ids -> Kinds \cup {Nothing}]
    /\ error \in [Ids -> ErrorCodes \cup {NoError}]
    /\ finished \in [Ids -> NotFinished..Retention]

-----------------------------------------------------------------------------
StoreInit ==
    /\ status = [j \in Ids |-> "free"]
    /\ owner = [j \in Ids |-> Nothing]
    /\ kind = [j \in Ids |-> Nothing]
    /\ error = [j \in Ids |-> NoError]
    /\ finished = [j \in Ids |-> NotFinished]

\* `create`: refuse at the cap, otherwise insert a queued job under a fresh id.
HasRoom == Cardinality(Stored) < MaxJobs

Create(j, o, k) ==
    /\ status[j] = "free"
    /\ HasRoom
    /\ status' = [status EXCEPT ![j] = "queued"]
    /\ owner' = [owner EXCEPT ![j] = o]
    /\ kind' = [kind EXCEPT ![j] = k]
    /\ UNCHANGED <<error, finished>>

\* `mark_running`: a no-op when the id is not in the map.
MarkRunning(j) ==
    /\ status' = [status EXCEPT ![j] = IF j \in Stored THEN "running" ELSE @]
    /\ UNCHANGED <<owner, kind, error, finished>>

\* `mark_completed`: `age` is how long ago the caller read its `now`.
MarkCompleted(j, age) ==
    /\ status' = [status EXCEPT ![j] = IF j \in Stored THEN "completed" ELSE @]
    /\ finished' = [finished EXCEPT ![j] = IF j \in Stored THEN age ELSE @]
    /\ UNCHANGED <<owner, kind, error>>

\* `mark_failed`.
MarkFailed(j, code, age) ==
    /\ status' = [status EXCEPT ![j] = IF j \in Stored THEN "failed" ELSE @]
    /\ finished' = [finished EXCEPT ![j] = IF j \in Stored THEN age ELSE @]
    /\ error' = [error EXCEPT ![j] = IF j \in Stored THEN code ELSE @]
    /\ UNCHANGED <<owner, kind>>

\* Faulty variant: a job without finished_at counts as long finished.
ExpiredOrUnfinished ==
    {j \in Stored : finished[j] = NotFinished \/ finished[j] >= Retention}

\* The jobs `reap_expired` drops: a finished_at whose age reached the window.
\* A job that is still queued or running has none and is kept.
Expired == {j \in Stored : finished[j] # NotFinished /\ finished[j] >= Retention}

\* Drop the entries of the jobs in S from the map; `gone` tells the properties
\* whether the retention sweep or a process restart took them.
Drop(S, gone) ==
    /\ status' = [j \in Ids |-> IF j \in S THEN gone ELSE status[j]]
    /\ owner' = [j \in Ids |-> IF j \in S THEN Nothing ELSE owner[j]]
    /\ kind' = [j \in Ids |-> IF j \in S THEN Nothing ELSE kind[j]]
    /\ error' = [j \in Ids |-> IF j \in S THEN NoError ELSE error[j]]
    /\ finished' = [j \in Ids |-> IF j \in S THEN NotFinished ELSE finished[j]]

\* `reap_expired`: one pass of `retain` under the write lock.
ReapExpired == Drop(Expired, "reaped")

\* Faulty variant: the entries are dropped before their paths are collected.
ReapedPathsLost == {}

\* Expired jobs whose result path the pass hands back to be deleted.  A job has
\* a result exactly when it completed: mark_completed alone sets `result`.
ReapedPaths == {j \in Expired : status[j] = "completed"}

\* One tick older, saturated at the retention window.
Older(age) == IF age = NotFinished \/ age >= Retention THEN age ELSE age + 1

Age == finished' = [j \in Ids |-> IF j \in Stored THEN Older(finished[j])
                                  ELSE finished[j]]
=============================================================================
