------------------------------ MODULE StreamCache ------------------------------
(***************************************************************************)
(* The object streams a document has parsed (crates/engine/src/reader.rs,  *)
(* object_stream_cache): a map behind a read-write lock that all threads   *)
(* reading the document share.  What they read, and when they ask for it,  *)
(* is in PageExtract.                                                      *)
(***************************************************************************)
CONSTANTS
    Workers,    \* rayon's worker threads
    Nobody

ASSUME StreamAssumption == Nobody \notin Workers

VARIABLES
    cache,      \* object_stream_cache: the parsed object streams
    writer      \* the worker holding the cache's write lock

(* Readers and writers come in only while nobody writes.                     *)
Unlocked == writer = Nobody

Acquire(w) == Unlocked /\ writer' = w

(* insert: the last writer wins.                                             *)
Store(w, s, parsed) ==
    /\ writer = w
    /\ cache' = [t \in {s} \cup DOMAIN cache |-> IF t = s THEN parsed ELSE cache[t]]
    /\ writer' = Nobody

(* A stream once cached stays cached with the same objects, whichever of two *)
(* workers that parsed it stores last (reader.rs: parsing twice is harmless).*)
CacheIsStable ==
    [][\A s \in DOMAIN cache : s \in DOMAIN cache' /\ cache'[s] = cache[s]]_cache
================================================================================
