------------------------------- MODULE LruCache -------------------------------
(***************************************************************************)
(* What a bounded least-recently-used cache promises: a hit returns what   *)
(* was last inserted under the key, and room is made by dropping the key   *)
(* whose last use is the oldest.  Recency is an order between keys; there  *)
(* is no clock and no index.                                               *)
(***************************************************************************)
EXTENDS Integers, FiniteSets

CONSTANTS Keys, Values, NoValue, Capacity

VARIABLES
    held,     \* held[k]: the value under key k, or NoValue
    before,   \* <<a, b>> when a was last used before b, both held
    answer    \* the value the last lookup returned

lruVars == <<held, before, answer>>

Held == {k \in Keys : held[k] # NoValue}

Init ==
    /\ held = [k \in Keys |-> NoValue]
    /\ before = {}
    /\ answer = NoValue

\* The order with k moved to the most recent end, over the keys of `kept`.
UsedLast(k, kept) ==
    {p \in before : p[1] \in kept \ {k} /\ p[2] \in kept \ {k}}
        \cup {<<a, k>> : a \in kept \ {k}}

Hit(k) ==
    /\ k \in Held
    /\ answer' = held[k]
    /\ before' = UsedLast(k, Held)
    /\ UNCHANGED held

Miss(k) ==
    /\ k \notin Held
    /\ answer' = NoValue
    /\ UNCHANGED <<held, before>>

Put(k, v) ==
    /\ k \in Held \/ Cardinality(Held) < Capacity
    /\ held' = [held EXCEPT ![k] = v]
    /\ before' = UsedLast(k, Held)
    /\ UNCHANGED answer

\* Full: exactly the key used longest ago makes room.
Replace(k, v) ==
    /\ k \notin Held
    /\ Cardinality(Held) >= Capacity
    /\ \E old \in Held :
          /\ \A a \in Held \ {old} : <<old, a>> \in before
          /\ held' = [held EXCEPT ![old] = NoValue, ![k] = v]
          /\ before' = UsedLast(k, Held \ {old})
    /\ UNCHANGED answer

Clear ==
    /\ held' = [k \in Keys |-> NoValue]
    /\ before' = {}
    /\ UNCHANGED answer

Next ==
    \/ \E k \in Keys : Hit(k) \/ Miss(k) \/ \E v \in Values : Put(k, v) \/ Replace(k, v)
    \/ Clear

Spec == Init /\ [][Next]_lruVars
=============================================================================
