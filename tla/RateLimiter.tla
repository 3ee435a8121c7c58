----------------------------- MODULE RateLimiter -----------------------------
(***************************************************************************)
(* The per-key request limiter of the HTTP server:                         *)
(* crates/server/src/rate_limit.rs.                                        *)
(*                                                                         *)
(* `check` and `cleanup_expired` hold the mutex and read the clock under   *)
(* it, so each is one step.  A Window's `start` is kept as its age,        *)
(* saturated at the window length: the code only compares it with WINDOW,  *)
(* and with other starts after every expired window has been swept.        *)
(***************************************************************************)
EXTENDS Integers, FiniteSets

CONSTANTS
    Keys,       \* API keys, and "anonymous"
    Limit,      \* requests per window; 0 disables the limiter (no state at all)
    MaxKeys,    \* max_keys, the cap on tracked keys
    Window      \* WINDOW, in ticks

ASSUME LimiterAssumption ==
    /\ Limit \in Nat \ {0}
    /\ MaxKeys \in Nat \ {0}
    /\ Window \in Nat \ {0}

VARIABLES
    tracked,    \* the keys of the `windows` map
    age,        \* age[k]: how long ago k's window started
    count,      \* count[k]: requests admitted in it
    answer,     \* the last request and what the middleware told it
    history     \* history[k][a]: requests of k admitted a ticks ago, since the
                \* last time k was evicted (no code reads it; the properties about
                \* rolling windows do)

vars == <<tracked, age, count, answer, history>>

\* The history counts admitted requests up to this many a tick.
HistoryCap == 2 * Limit + 1

TypeOK ==
    /\ tracked \subseteq Keys
    /\ age \in [Keys -> 0..Window]
    /\ count \in [Keys -> 0..Limit]
    /\ answer \in {<<>>} \cup (Keys \X {"admitted", "refused"})
    /\ history \in [Keys -> [0..(Window - 1) -> 0..HistoryCap]]

Init ==
    /\ tracked = {}
    /\ age = [k \in Keys |-> 0]
    /\ count = [k \in Keys |-> 0]
    /\ answer = <<>>
    /\ history = [k \in Keys |-> [a \in 0..(Window - 1) |-> 0]]

\* now.duration_since(w.start) < WINDOW
Active == {k \in tracked : age[k] < Window}

\* The map after the backstop: at the cap, a new key first sweeps the expired
\* windows and then, if that freed nothing, evicts a window with the oldest start.
RoomMade(k) ==
    IF k \in tracked \/ Cardinality(tracked) < MaxKeys THEN {tracked}
    ELSE IF Cardinality(Active) < MaxKeys THEN {Active}
    ELSE {Active \ {old} : old \in {o \in Active : \A a \in Active : age[a] <= age[o]}}

\* The entries of a map that holds only `kept`: a key that is not in it has an
\* entry that or_insert would create, a window that starts now with no requests.
Entries(f, kept) == [k \in Keys |-> IF k \in kept THEN f[k] ELSE 0]

\* Faulty variant: a window ends one tick early.
ElapsedEarly(k) == age[k] >= Window - 1

\* now.duration_since(window.start) >= WINDOW
Elapsed(k) == age[k] >= Window

\* window.count < self.limit
UnderLimit(spent) == spent < Limit

\* The active windows that go when the map becomes `kept`.
EvictedBy(kept) == Active \ kept

NoHistory == [a \in 0..(Window - 1) |-> 0]

Remembered(kept) == [k \in Keys |-> IF k \in EvictedBy(kept) THEN NoHistory ELSE history[k]]

Record(k, kept) ==
    history' = [Remembered(kept) EXCEPT ![k][0] = IF @ < HistoryCap THEN @ + 1 ELSE @]

\* `check`, called by the middleware for every request but the public probes.
Check(k) ==
    \E kept \in RoomMade(k) :
        LET spent == IF Elapsed(k) THEN 0 ELSE count[k]
        IN  /\ tracked' = kept \cup {k}
            /\ age' = [Entries(age, kept) EXCEPT ![k] = IF Elapsed(k) THEN 0 ELSE @]
            /\ \/ /\ UnderLimit(spent)
                  /\ count' = [Entries(count, kept) EXCEPT ![k] = spent + 1]
                  /\ answer' = <<k, "admitted">>
                  /\ Record(k, kept)
               \/ /\ ~UnderLimit(spent)
                  /\ count' = [Entries(count, kept) EXCEPT ![k] = spent]
                  /\ answer' = <<k, "refused">>
                  /\ history' = Remembered(kept)

\* Faulty variant: the sweep takes every window.
CleanupAll ==
    /\ tracked # {}
    /\ tracked' = {}
    /\ age' = Entries(age, {})
    /\ count' = Entries(count, {})
    /\ UNCHANGED <<answer, history>>

\* `cleanup_expired`, from the periodic task of spawn_cleanup.
Cleanup ==
    /\ tracked # Active
    /\ tracked' = Active
    /\ age' = Entries(age, Active)
    /\ count' = Entries(count, Active)
    /\ UNCHANGED <<answer, history>>

\* The clock: a tick passes.
Tick ==
    /\ age' = [k \in Keys |-> IF k \in tracked /\ age[k] < Window THEN age[k] + 1 ELSE age[k]]
    /\ history' = [k \in Keys |-> [a \in 0..(Window - 1) |->
                                      IF a = 0 THEN 0 ELSE history[k][a - 1]]]
    /\ UNCHANGED <<tracked, count, answer>>

Next == Tick \/ Cleanup \/ \E k \in Keys : Check(k)

Spec == Init /\ [][Next]_vars

-----------------------------------------------------------------------------
\* Requests of a history within the last n ticks, the present one included, for n
\* up to WINDOW.
Within(h, n) ==
    LET admitted[m \in 0..Window] == IF m = 0 THEN 0 ELSE admitted[m - 1] + h[m - 1]
    IN  admitted[n]

\* Requests of k admitted within the last WINDOW.
Recent(k) == Within(history[k], Window)

\* The map never tracks more than max_keys keys, however many distinct keys come.
MapBounded == Cardinality(tracked) <= MaxKeys

\* A rolling WINDOW meets at most two windows of a key, so it admits at most
\* twice the limit as long as the key is not evicted.
RollingTwice == \A k \in Keys : Recent(k) <= 2 * Limit

\* What a caller can tell of its window.
InWindow(k) == k \in tracked /\ age[k] < Window

Quota == INSTANCE RateQuota WITH
    used <- [k \in Keys |-> IF InWindow(k) THEN count[k] ELSE 0],
    open <- [k \in Keys |-> IF InWindow(k) THEN age[k] ELSE Window]

\* The limiter is the plain quota: the sweeps of expired windows, whenever they
\* run, change no answer ("removing it is equivalent to leaving it"), and a caller
\* loses an open window only when max_keys others are open and its own is oldest.
ImplementsQuota == Quota!Spec

=============================================================================
