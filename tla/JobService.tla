----------------------------- MODULE JobService -----------------------------
(***************************************************************************)
(* What the asynchronous job API promises a client: the lifecycle diagram  *)
(* of docs/jobs.md, with the bounds its configuration table gives.  It     *)
(* knows no worker, channel, timer, file or sweep.  JobSystem is shown to  *)
(* implement it.                                                           *)
(***************************************************************************)
EXTENDS Naturals, Sequences, FiniteSets

CONSTANTS
    Jobs,    \* the job ids clients may be given
    Slots,   \* jobs that may run at once, at least one
    Room     \* accepted jobs that may wait, at least one

VARIABLES
    phase,   \* phase[j]: where the client sees job j
    line,    \* the accepted jobs that wait, first come first
    results  \* the jobs whose output can be downloaded

serviceVars == <<phase, line, results>>

Phases == {"unknown", "offered", "waiting", "started", "completed", "failed", "gone"}

Init ==
    /\ phase = [j \in Jobs |-> "unknown"]
    /\ line = <<>>
    /\ results = {}

InPhase(p) == {j \in Jobs : phase[j] = p}

Offer(j) ==
    /\ phase[j] = "unknown"
    /\ phase' = [phase EXCEPT ![j] = "offered"]
    /\ UNCHANGED <<line, results>>

Accept(j) ==
    /\ phase[j] = "offered"
    /\ Len(line) < Room
    /\ phase' = [phase EXCEPT ![j] = "waiting"]
    /\ line' = Append(line, j)
    /\ UNCHANGED results

\* 503: only when every place in the line is taken.
TurnAway(j) ==
    /\ phase[j] = "offered"
    /\ Len(line) = Room
    /\ phase' = [phase EXCEPT ![j] = "failed"]
    /\ UNCHANGED <<line, results>>

Begin ==
    /\ line # <<>>
    /\ Cardinality(InPhase("started")) < Slots
    /\ phase' = [phase EXCEPT ![Head(line)] = "started"]
    /\ line' = Tail(line)
    /\ UNCHANGED results

Succeed(j) ==
    /\ phase[j] = "started"
    /\ phase' = [phase EXCEPT ![j] = "completed"]
    /\ results' = results \cup {j}
    /\ UNCHANGED line

GiveUp(j) ==
    /\ phase[j] = "started"
    /\ phase' = [phase EXCEPT ![j] = "failed"]
    /\ UNCHANGED <<line, results>>

\* The retention window of the jobs in S is over.
Forget(S) ==
    /\ S # {}
    /\ S \subseteq InPhase("completed") \cup InPhase("failed")
    /\ phase' = [j \in Jobs |-> IF j \in S THEN "gone" ELSE phase[j]]
    /\ results' = results \ S
    /\ UNCHANGED line

\* State is in memory: a restart loses every job.
Crash ==
    /\ phase' = [j \in Jobs |-> IF phase[j] = "unknown" THEN "unknown" ELSE "gone"]
    /\ line' = <<>>
    /\ results' = {}

Next ==
    \/ \E j \in Jobs : Offer(j) \/ Accept(j) \/ TurnAway(j) \/ Succeed(j) \/ GiveUp(j)
    \/ Begin
    \/ \E S \in SUBSET Jobs : Forget(S)
    \/ Crash

Spec == Init /\ [][Next]_serviceVars
=============================================================================
