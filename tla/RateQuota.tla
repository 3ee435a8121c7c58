------------------------------ MODULE RateQuota ------------------------------
(***************************************************************************)
(* The quota a caller is promised by the rate limiter: windows that start  *)
(* with the first request after the previous one ended, and `Limit`        *)
(* requests in each.  At most MaxKeys windows are open at a time: the      *)
(* oldest gives way when one more caller comes.  There is no map and no    *)
(* sweep.                                                                  *)
(***************************************************************************)
EXTENDS Integers, FiniteSets

CONSTANTS Keys, Limit, MaxKeys, Window    \* as in RateLimiter, which states their assumption

VARIABLES
    used,    \* used[k]: requests admitted in k's current window
    open,    \* open[k]: age of the window, Window when there is none
    answer   \* the last request and what it was told

quotaVars == <<used, open, answer>>

Init ==
    /\ used = [k \in Keys |-> 0]
    /\ open = [k \in Keys |-> Window]
    /\ answer = <<>>

Current == {k \in Keys : open[k] < Window}

\* The callers that may lose their window to a request of k: none, or one.
Displaced(k) ==
    IF k \in Current \/ Cardinality(Current) < MaxKeys THEN {{}}
    ELSE {{old} : old \in {o \in Current : \A c \in Current : open[c] <= open[o]}}

Admit(k) ==
    /\ used[k] < Limit
    /\ \E gone \in Displaced(k) :
        /\ used' = [x \in Keys |-> IF x = k THEN used[k] + 1
                                   ELSE IF x \in gone THEN 0 ELSE used[x]]
        /\ open' = [x \in Keys |-> IF x = k THEN (IF open[k] = Window THEN 0 ELSE open[k])
                                   ELSE IF x \in gone THEN Window ELSE open[x]]
    /\ answer' = <<k, "admitted">>

Refuse(k) ==
    /\ used[k] = Limit
    /\ answer' = <<k, "refused">>
    /\ UNCHANGED <<used, open>>

Tick ==
    /\ open' = [k \in Keys |-> IF open[k] = Window THEN Window ELSE open[k] + 1]
    /\ used' = [k \in Keys |-> IF open'[k] = Window THEN 0 ELSE used[k]]
    /\ UNCHANGED answer

Next == Tick \/ \E k \in Keys : Admit(k) \/ Refuse(k)

Spec == Init /\ [][Next]_quotaVars
=============================================================================
