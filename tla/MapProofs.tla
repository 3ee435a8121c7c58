------------------------------ MODULE MapProofs ------------------------------
(***************************************************************************)
(* Proofs about the three maps that outlive a call: the rate limiter's     *)
(* windows, for every set of keys, limit, cap and window length; the glyph *)
(* cache, for every capacity and every number of keys, glyphs and stamps;  *)
(* and the object streams that workers share, for every document and any   *)
(* number of workers.  They share no state.                                *)
(***************************************************************************)
EXTENDS RateLimiter, GlyphMaps, StreamCache, FiniteSetTheorems, SequenceTheorems,
        WellFoundedInduction, TLAPS

-----------------------------------------------------------------------------
(***************************************************************************)
(* The rate limiter.                                                       *)
(***************************************************************************)
\* The strengthening: an untracked key has the entry or_insert would create,
\* and the map is finite and within its cap.
Inv ==
    /\ TypeOK
    /\ \A k \in Keys \ tracked : age[k] = 0 /\ count[k] = 0
    /\ IsFiniteSet(tracked)
    /\ MapBounded

\* What the backstop may leave: a part of the map, with a place for the key.
LEMMA RoomMadeBounded ==
    ASSUME Inv, NEW k \in Keys, NEW kept \in RoomMade(k)
    PROVE  /\ kept \subseteq tracked
           /\ IsFiniteSet(kept \cup {k})
           /\ Cardinality(kept \cup {k}) <= MaxKeys
<1>1. IsFiniteSet(tracked) /\ Cardinality(tracked) \in Nat /\ Cardinality(tracked) <= MaxKeys
  BY FS_CardinalityType DEF Inv, MapBounded
<1>2. kept \subseteq tracked
  BY DEF RoomMade, Active
<1>3. IsFiniteSet(kept) /\ Cardinality(kept) \in Nat /\ Cardinality(kept) <= MaxKeys
  BY <1>1, <1>2, FS_Subset, FS_CardinalityType, LimiterAssumption
<1>4. CASE k \in kept
  <2>1. kept \cup {k} = kept
    BY <1>4
  <2> QED
    BY <1>2, <1>3, <2>1
<1>5. CASE k \notin kept /\ Cardinality(kept) < MaxKeys
  <2>1. IsFiniteSet(kept \cup {k}) /\ Cardinality(kept \cup {k}) = Cardinality(kept) + 1
    BY <1>3, <1>5, FS_AddElement
  <2> QED
    BY <1>2, <1>3, <1>5, <2>1, LimiterAssumption
<1>6. CASE k \notin kept /\ ~(Cardinality(kept) < MaxKeys)
  <2>1. k \notin tracked
    BY <1>6 DEF RoomMade
  <2>2. PICK old \in Active : kept = Active \ {old}
    BY <1>6, <2>1 DEF RoomMade
  <2>3. IsFiniteSet(Active) /\ Cardinality(Active) \in Nat /\ Cardinality(Active) <= MaxKeys
    BY <1>1, FS_Subset, FS_CardinalityType, LimiterAssumption DEF Active
  <2>4. Cardinality(kept) = Cardinality(Active) - 1
    BY <2>2, <2>3, FS_RemoveElement
  <2> QED
    BY <1>3, <1>6, <2>3, <2>4, LimiterAssumption
<1> QED
  BY <1>4, <1>5, <1>6

\* Every step keeps the invariant.
LEMMA InvStep == Inv /\ [Next]_vars => Inv'
<1> SUFFICES ASSUME Inv, [Next]_vars PROVE Inv'
  OBVIOUS
<1>0. /\ tracked \subseteq Keys
      /\ age \in [Keys -> 0..Window]
      /\ count \in [Keys -> 0..Limit]
      /\ history \in [Keys -> [0..(Window - 1) -> 0..HistoryCap]]
      /\ Limit \in Nat \ {0} /\ Window \in Nat \ {0} /\ HistoryCap \in Nat
  BY LimiterAssumption DEF Inv, TypeOK, HistoryCap
<1>1. ASSUME NEW k \in Keys, Check(k) PROVE Inv'
  <2>1. PICK kept \in RoomMade(k) :
          /\ tracked' = kept \cup {k}
          /\ age' = [Entries(age, kept) EXCEPT ![k] = IF Elapsed(k) THEN 0 ELSE @]
          /\ \E n \in 0..Limit : count' = [Entries(count, kept) EXCEPT ![k] = n]
          /\ answer' \in Keys \X {"admitted", "refused"}
          /\ Record(k, kept) \/ history' = Remembered(kept)
    <3> DEFINE spent == IF Elapsed(k) THEN 0 ELSE count[k]
    <3>1. PICK kept \in RoomMade(k) :
            /\ tracked' = kept \cup {k}
            /\ age' = [Entries(age, kept) EXCEPT ![k] = IF Elapsed(k) THEN 0 ELSE @]
            /\ \/ /\ spent < Limit
                  /\ count' = [Entries(count, kept) EXCEPT ![k] = spent + 1]
                  /\ answer' = <<k, "admitted">>
                  /\ Record(k, kept)
               \/ /\ ~(spent < Limit)
                  /\ count' = [Entries(count, kept) EXCEPT ![k] = spent]
                  /\ answer' = <<k, "refused">>
                  /\ history' = Remembered(kept)
      BY <1>1 DEF Check, UnderLimit
    <3>2. spent \in 0..Limit
      BY <1>0
    <3>3. \E n \in 0..Limit : count' = [Entries(count, kept) EXCEPT ![k] = n]
      <4> HIDE DEF spent
      <4>1. CASE spent < Limit
        BY <1>0, <3>1, <3>2, <4>1
      <4>2. CASE ~(spent < Limit)
        BY <1>0, <3>1, <3>2, <4>2
      <4> QED
        BY <4>1, <4>2
    <3>4. answer' \in Keys \X {"admitted", "refused"} /\ (Record(k, kept) \/ history' = Remembered(kept))
      BY <3>1
    <3> QED
      BY <3>1, <3>3, <3>4
  <2>2. /\ kept \subseteq tracked
        /\ IsFiniteSet(tracked') /\ MapBounded'
    BY <2>1, RoomMadeBounded DEF MapBounded
  <2>3. Entries(age, kept) \in [Keys -> 0..Window] /\ Entries(count, kept) \in [Keys -> 0..Limit]
    BY <1>0 DEF Entries
  <2>4. age' \in [Keys -> 0..Window] /\ count' \in [Keys -> 0..Limit]
    BY <1>0, <2>1, <2>3
  <2>5. history' \in [Keys -> [0..(Window - 1) -> 0..HistoryCap]]
    <3>0. Remembered(kept) \in [Keys -> [0..(Window - 1) -> 0..HistoryCap]]
      BY <1>0 DEF Remembered, NoHistory
    <3>1. CASE Record(k, kept)
      <4> DEFINE H == Remembered(kept)
      <4>1. history' = [H EXCEPT ![k] =
              [H[k] EXCEPT ![0] = IF H[k][0] < HistoryCap THEN H[k][0] + 1 ELSE H[k][0]]]
        BY <3>1 DEF Record
      <4>2. H[k] \in [0..(Window - 1) -> 0..HistoryCap] /\ 0 \in 0..(Window - 1)
        BY <1>0, <3>0
      <4> HIDE DEF H
      <4>3. H \in [Keys -> [0..(Window - 1) -> 0..HistoryCap]]
        BY <3>0 DEF H
      <4> QED
        BY <1>0, <4>1, <4>2, <4>3
    <3> QED
      BY <1>0, <2>1, <3>0, <3>1
  <2>6. \A x \in Keys \ tracked' : age'[x] = 0 /\ count'[x] = 0
    BY <2>1, <2>3 DEF Entries
  <2> QED
    BY <1>0, <2>1, <2>2, <2>4, <2>5, <2>6 DEF Inv, TypeOK
<1>2. CASE Cleanup
  <2>1. Active \subseteq tracked
    BY DEF Active
  <2>2. IsFiniteSet(Active) /\ Cardinality(Active) <= Cardinality(tracked)
    BY <2>1, FS_Subset DEF Inv
  <2>3. Cardinality(tracked) \in Nat /\ Cardinality(Active) \in Nat
    BY <2>2, FS_CardinalityType DEF Inv
  <2>4. MapBounded'
    BY <1>2, <2>2, <2>3, LimiterAssumption DEF Cleanup, Inv, MapBounded
  <2> QED
    BY <1>0, <1>2, <2>1, <2>2, <2>4 DEF Cleanup, Inv, TypeOK, Entries
<1>3. CASE Tick
  <2>1. age' \in [Keys -> 0..Window]
    BY <1>0, <1>3 DEF Tick
  <2>2. history' \in [Keys -> [0..(Window - 1) -> 0..HistoryCap]]
    BY <1>0, <1>3 DEF Tick
  <2> QED
    BY <1>0, <1>3, <2>1, <2>2 DEF Tick, Inv, TypeOK, MapBounded
<1>4. CASE UNCHANGED vars
  BY <1>4 DEF vars, Inv, TypeOK, MapBounded
<1> QED
  BY <1>1, <1>2, <1>3, <1>4 DEF Next

LEMMA Invariance == Spec => []Inv
<1>1. Init => Inv
  BY FS_EmptySet, LimiterAssumption DEF Init, Inv, TypeOK, MapBounded, HistoryCap
<1> QED
  BY <1>1, InvStep, PTL DEF Spec

\* Every variable of the limiter has its type.
THEOREM TypeCorrect == Spec => []TypeOK
<1>1. Inv => TypeOK
  BY DEF Inv
<1> QED
  BY <1>1, Invariance, PTL

\* The map never tracks more than max_keys keys, whatever keys come.
THEOREM MapIsBounded == Spec => []MapBounded
<1>1. Inv => MapBounded
  BY DEF Inv
<1> QED
  BY <1>1, Invariance, PTL

\* The quota module counts with its own copy of the standard module.
LEMMA SameCount == \A S : Quota!Cardinality(S) = Cardinality(S)
  BY DEF Quota!Cardinality, Cardinality

\* The limiter answers every request as the plain per-window quota does: sweeping
\* expired windows is invisible, and the backstop displaces what the quota would.
THEOREM LimiterIsQuota == Spec => ImplementsQuota
<1> USE DEF InWindow
<1>0. Limit \in Nat \ {0} /\ Window \in Nat \ {0} /\ MaxKeys \in Nat \ {0}
  BY LimiterAssumption
<1>1. Init => Quota!Init
  BY DEF Init, Quota!Init
<1>2. Inv /\ [Next]_vars => [Quota!Next]_(Quota!quotaVars)
  <2> SUFFICES ASSUME Inv, [Next]_vars PROVE [Quota!Next]_(Quota!quotaVars)
    OBVIOUS
  <2>0. /\ tracked \subseteq Keys
        /\ age \in [Keys -> 0..Window]
        /\ count \in [Keys -> 0..Limit]
        /\ \A x \in Keys \ tracked : age[x] = 0 /\ count[x] = 0
        /\ IsFiniteSet(tracked) /\ Cardinality(tracked) \in Nat
        /\ Cardinality(tracked) <= MaxKeys
    BY FS_CardinalityType DEF Inv, TypeOK, MapBounded
  <2> DEFINE Used(x) == IF InWindow(x) THEN count[x] ELSE 0
             Open(x) == IF InWindow(x) THEN age[x] ELSE Window
  <2>a. /\ Quota!Current = Active
        /\ Quota!Cardinality(Active) = Cardinality(Active)
        /\ IsFiniteSet(Active) /\ Cardinality(Active) \in Nat
        /\ Active \subseteq tracked /\ Cardinality(Active) <= Cardinality(tracked)
    <3>1. Active \subseteq tracked
      BY DEF Active
    <3>2. Quota!Current = Active
      BY <1>0, <2>0 DEF Quota!Current, Active
    <3> QED
      BY <2>0, <3>1, <3>2, FS_Subset, FS_CardinalityType, SameCount
  <2>1. ASSUME NEW k \in Keys, Check(k) PROVE Quota!Next
    <3> DEFINE spent == IF Elapsed(k) THEN 0 ELSE count[k]
    <3>1. PICK kept \in RoomMade(k) :
          /\ tracked' = kept \cup {k}
          /\ age' = [Entries(age, kept) EXCEPT ![k] = IF Elapsed(k) THEN 0 ELSE @]
          /\ \/ /\ spent < Limit
                /\ count' = [Entries(count, kept) EXCEPT ![k] = spent + 1]
                /\ answer' = <<k, "admitted">>
             \/ /\ ~(spent < Limit)
                /\ count' = [Entries(count, kept) EXCEPT ![k] = spent]
                /\ answer' = <<k, "refused">>
      BY <2>1 DEF Check, UnderLimit
    <3> DEFINE gone == Active \ kept
    <3>2. kept \subseteq tracked /\ gone \in Quota!Displaced(k)
      <4>1. CASE k \in tracked
        <5>1. kept = tracked /\ gone = {}
          BY <2>a, <3>1, <4>1 DEF RoomMade
        <5>2. CASE k \in Active
          BY <2>a, <5>1, <5>2 DEF Quota!Displaced
        <5>3. CASE k \notin Active
          <6>1. IsFiniteSet(tracked \ {k}) /\ Cardinality(tracked \ {k}) = Cardinality(tracked) - 1
            BY <2>0, <4>1, FS_RemoveElement
          <6>2. Active \subseteq tracked \ {k}
            BY <2>a, <5>3
          <6>3. Cardinality(Active) <= Cardinality(tracked \ {k})
            BY <6>1, <6>2, FS_Subset
          <6>4. Cardinality(Active) < MaxKeys
            BY <1>0, <2>0, <2>a, <6>1, <6>3
          <6> QED
            BY <2>a, <5>1, <6>4 DEF Quota!Displaced
        <5> QED
          BY <5>2, <5>3
      <4>2. CASE k \notin tracked /\ Cardinality(tracked) < MaxKeys
        <5>1. kept = tracked /\ gone = {}
          BY <2>a, <3>1, <4>2 DEF RoomMade
        <5>2. Cardinality(Active) < MaxKeys
          BY <1>0, <2>0, <2>a, <4>2
        <5> QED
          BY <2>a, <5>1, <5>2 DEF Quota!Displaced
      <4>3. CASE k \notin tracked /\ ~(Cardinality(tracked) < MaxKeys) /\ Cardinality(Active) < MaxKeys
        <5>1. kept = Active /\ gone = {}
          BY <3>1, <4>3 DEF RoomMade
        <5> QED
          BY <2>a, <4>3, <5>1 DEF Quota!Displaced
      <4>4. CASE k \notin tracked /\ ~(Cardinality(tracked) < MaxKeys) /\ ~(Cardinality(Active) < MaxKeys)
        <5>1. PICK old \in Active : kept = Active \ {old} /\ \A a \in Active : age[a] <= age[old]
          BY <3>1, <4>4 DEF RoomMade
        <5>2. gone = {old}
          BY <5>1
        <5>3. \A x \in Active : Open(x) = age[x]
          BY DEF Active
        <5>4. \A c \in Active : Open(c) <= Open(old)
          BY <5>1, <5>3
        <5>5. old \in Keys /\ Active \subseteq Keys
          BY <2>0, <2>a
        <5>6. k \notin Active
          BY <2>a, <4>4
        <5>7. gone \in {{o} : o \in {p \in Active : \A c \in Active : Open(c) <= Open(p)}}
          BY <5>2, <5>4
        <5>8. Quota!Displaced(k) = {{o} : o \in {p \in Active : \A c \in Active : Open(c) <= Open(p)}}
          BY <2>a, <4>4, <5>5, <5>6 DEF Quota!Displaced
        <5>9. kept \subseteq tracked
          BY <2>a, <5>1
        <5> HIDE DEF gone
        <5> QED
          BY <5>7, <5>8, <5>9
      <4> QED
        BY <4>1, <4>2, <4>3, <4>4
    <3>3. k \in Active => k \in kept
      BY <2>a, <3>1 DEF RoomMade
    <3>4. Used(k) = spent
      BY <1>0, <2>0 DEF Elapsed
    <3>5. \A x \in Keys \ {k} :
            /\ Used(x)' = IF x \in gone THEN 0 ELSE Used(x)
            /\ Open(x)' = IF x \in gone THEN Window ELSE Open(x)
      <4>1. ASSUME NEW x \in Keys \ {k}
            PROVE  /\ x \in tracked' <=> x \in kept
                   /\ age'[x] = IF x \in kept THEN age[x] ELSE 0
                   /\ count'[x] = IF x \in kept THEN count[x] ELSE 0
        BY <3>1 DEF Entries
      <4>2. \A x \in Keys : x \in gone <=> InWindow(x) /\ x \notin kept
        BY DEF Active
      <4>3. \A x \in kept : x \in tracked
        BY <3>2
      <4> HIDE DEF gone
      <4> QED
        BY <4>1, <4>2, <4>3
    <3>6. Open(k)' = IF Open(k) = Window THEN 0 ELSE Open(k)
      <4>1. k \in tracked' /\ age'[k] = IF Elapsed(k) THEN 0 ELSE Entries(age, kept)[k]
        BY <3>1 DEF Entries
      <4>2. CASE k \in Active
        <5>1. age'[k] = age[k] /\ age[k] < Window
          BY <1>0, <2>0, <3>3, <4>1, <4>2 DEF Entries, Elapsed, Active
        <5> QED
          BY <1>0, <2>0, <4>1, <4>2, <5>1 DEF Active
      <4>3. CASE k \notin Active
        <5>1. age'[k] = 0
          <6>1. CASE k \in tracked
            BY <1>0, <2>0, <4>1, <4>3, <6>1 DEF Elapsed, Active
          <6>2. CASE k \notin tracked
            BY <1>0, <2>0, <3>2, <4>1, <6>2 DEF Elapsed, Entries
          <6> QED
            BY <6>1, <6>2
        <5> QED
          BY <1>0, <2>0, <4>1, <4>3, <5>1 DEF Active
      <4> QED
        BY <4>2, <4>3
    <3>7. CASE spent < Limit
      <4>1. Used(k)' = spent + 1
        <5>1. k \in tracked' /\ age'[k] < Window
          BY <1>0, <2>0, <3>1, <3>6
        <5> QED
          BY <1>0, <2>0, <3>1, <3>7, <5>1 DEF Entries
      <4>2. answer' = <<k, "admitted">>
        BY <1>0, <2>0, <3>1, <3>7
      <4> HIDE DEF gone
      <4> QED
        BY <3>2, <3>4, <3>5, <3>6, <3>7, <4>1, <4>2 DEF Quota!Next, Quota!Admit
    <3>8. CASE ~(spent < Limit)
      <4>1. ~Elapsed(k) /\ spent = Limit /\ count[k] = Limit /\ k \in tracked
        BY <1>0, <2>0, <3>8
      <4>2. k \in Active /\ kept = tracked /\ gone = {}
        BY <1>0, <2>0, <2>a, <3>1, <4>1 DEF Elapsed, Active, RoomMade
      <4>3. answer' = <<k, "refused">>
        BY <1>0, <3>1, <3>8, <4>1
      <4>4. Used(k)' = Used(k) /\ Open(k)' = Open(k)
        <5>1. count'[k] = count[k] /\ age'[k] = age[k] /\ k \in tracked'
          BY <1>0, <2>0, <3>1, <3>8, <4>1, <4>2 DEF Entries
        <5> QED
          BY <4>1, <5>1
      <4>5. \A x \in Keys : Used(x)' = Used(x) /\ Open(x)' = Open(x)
        BY <3>5, <4>2, <4>4
      <4> HIDE DEF spent, gone
      <4> QED
        BY <3>4, <4>1, <4>3, <4>5 DEF Quota!Next, Quota!Refuse
    <3> QED
      BY <3>7, <3>8
  <2>2. CASE Cleanup
    <3>1. \A x \in Keys : Used(x)' = Used(x) /\ Open(x)' = Open(x)
      BY <1>0, <2>0, <2>2 DEF Cleanup, Active, Entries
    <3> QED
      BY <2>2, <3>1 DEF Cleanup, Quota!quotaVars
  <2>3. CASE Tick
    <3>1. \A x \in Keys : /\ Open(x)' = IF Open(x) = Window THEN Window ELSE Open(x) + 1
                          /\ Used(x)' = IF Open(x)' = Window THEN 0 ELSE Used(x)
      BY <1>0, <2>0, <2>3 DEF Tick
    <3> QED
      BY <2>3, <3>1 DEF Tick, Quota!Next, Quota!Tick
  <2>4. CASE UNCHANGED vars
    BY <2>4 DEF vars, Quota!quotaVars
  <2> QED
    BY <2>1, <2>2, <2>3, <2>4 DEF Next
<1> QED
  BY <1>1, <1>2, Invariance, PTL DEF Spec, ImplementsQuota, Quota!Spec

-----------------------------------------------------------------------------
\* The rolling window: sums over a history, by induction on the number of ticks.

\* Induction: a set of numbers that has 0 and the successor of each of its numbers
\* has them all.
LEMMA NatInduction0 ==
    ASSUME NEW S, 0 \in S, \A n \in Nat : n \in S => n + 1 \in S
    PROVE  Nat \subseteq S
<1> SUFFICES ASSUME NEW m \in Nat, m \notin S PROVE FALSE
  OBVIOUS
<1> DEFINE T == {n \in Nat : n \notin S}
           Less == OpToRel(<, Nat)
<1>1. \A a, b \in Nat : a < b => <<a, b>> \in Less
  BY DEF OpToRel
<1>2. IsWellFoundedOn(Less, Nat)
  BY NatLessThanWellFounded
<1> HIDE DEF Less
<1>3. PICK x \in T : \A y \in T : ~ (<<y, x>> \in Less)
  <2>1. T \subseteq Nat /\ T # {}
    OBVIOUS
  <2> HIDE DEF T
  <2> QED
    BY <1>2, <2>1, WFMin
<1>4. x # 0 /\ x \in Nat
  OBVIOUS
<1>5. x - 1 \in Nat /\ x = (x - 1) + 1 /\ x - 1 < x
  BY <1>4
<1>6. x - 1 \in T
  BY <1>5
<1>7. <<x - 1, x>> \in Less
  BY <1>1, <1>4, <1>5
<1> QED
  BY <1>3, <1>6, <1>7

\* g holds the sums of the first entries of h, up to the n-th.
IsSumTo(h, n, g) == g = [m \in 0..n |-> IF m = 0 THEN 0 ELSE g[m - 1] + h[m - 1]]

\* The histories of a key.
Histories == [0..(Window - 1) -> Nat]

\* There are such sums for every length.
LEMMA SumExists ==
    ASSUME NEW h, NEW n \in Nat
    PROVE  \E g : IsSumTo(h, n, g)
<1> DEFINE S == {k \in Nat : \E g : IsSumTo(h, k, g)}
<1>1. 0 \in S
  <2> DEFINE g == [i \in 0 .. 0 |-> 0]
  <2>1. \A i \in 0 .. 0 : i = 0
    OBVIOUS
  <2>2. g = [i \in 0 .. 0 |-> IF i = 0 THEN 0 ELSE g[i - 1] + h[i - 1]]
    BY <2>1
  <2> QED
    BY <2>2 DEF IsSumTo
<1>2. ASSUME NEW k \in Nat, k \in S
      PROVE  k + 1 \in S
  <2>1. PICK g : IsSumTo(h, k, g)
    BY <1>2
  <2> DEFINE f == [i \in 0 .. k + 1 |-> IF i = k + 1 THEN g[k] + h[k] ELSE g[i]]
  <2>2. ASSUME NEW i \in 0 .. k + 1
        PROVE  f[i] = IF i = 0 THEN 0 ELSE f[i - 1] + h[i - 1]
    <3>1. CASE i = k + 1
      BY <3>1
    <3>2. CASE i = 0
      BY <2>1, <3>2 DEF IsSumTo
    <3>3. CASE i # 0 /\ i # k + 1
      <4>1. i \in 0 .. k /\ i - 1 \in 0 .. k /\ i - 1 # k + 1 /\ i - 1 \in 0 .. k + 1
        BY <3>3
      <4>2. g[i] = g[i - 1] + h[i - 1]
        BY <2>1, <3>3, <4>1 DEF IsSumTo
      <4> QED
        BY <3>3, <4>1, <4>2
    <3> QED
      BY <3>1, <3>2, <3>3
  <2>3. IsSumTo(h, k + 1, f)
    BY <2>2 DEF IsSumTo
  <2> QED
    BY <2>3
<1> HIDE DEF S
<1>3. Nat \subseteq S
  BY <1>1, <1>2, NatInduction0
<1> QED
  BY <1>3 DEF S

\* Within is one of such sums.
LEMMA WithinIsSum ==
    ASSUME NEW h
    PROVE  \E g : IsSumTo(h, Window, g) /\ \A n : Within(h, n) = g[n]
<1>1. \E g : IsSumTo(h, Window, g)
  BY SumExists, LimiterAssumption
<1> DEFINE g == CHOOSE g : IsSumTo(h, Window, g)
<1>2. IsSumTo(h, Window, g)
  BY <1>1, Zenon
<1>3. \A n : Within(h, n) = g[n]
  BY Zenon DEF Within, IsSumTo
<1> QED
  BY <1>2, <1>3, Zenon

\* The sums, entry by entry.
LEMMA WithinSteps ==
    ASSUME NEW h
    PROVE  /\ Within(h, 0) = 0
           /\ \A n \in 0..(Window - 1) : Within(h, n + 1) = Within(h, n) + h[n]
<1>0. Window \in Nat \ {0}
  BY LimiterAssumption
<1>1. PICK g : IsSumTo(h, Window, g) /\ \A n : Within(h, n) = g[n]
  BY WithinIsSum
<1>2. g[0] = 0
  BY <1>0, <1>1 DEF IsSumTo
<1>3. ASSUME NEW n \in 0..(Window - 1) PROVE g[n + 1] = g[n] + h[n]
  <2>1. n + 1 \in 0..Window /\ n + 1 # 0 /\ (n + 1) - 1 = n
    BY <1>0
  <2> QED
    BY <1>1, <2>1 DEF IsSumTo
<1> QED
  BY <1>1, <1>2, <1>3

\* More ticks have no fewer requests.
LEMMA WithinMeasures ==
    ASSUME NEW h \in Histories
    PROVE  /\ \A n \in 0..Window : Within(h, n) \in Nat
           /\ \A m, n \in 0..Window : m <= n => Within(h, m) <= Within(h, n)
<1>0. Window \in Nat \ {0}
  BY LimiterAssumption
<1>a. \A n \in 0..(Window - 1) : h[n] \in Nat
  BY DEF Histories
<1> DEFINE S == {n \in Nat : n <= Window =>
                   \A m \in 0..n : Within(h, m) \in Nat /\ Within(h, m) <= Within(h, n)}
<1>1. 0 \in S
  <2>1. \A m \in 0..0 : m = 0
    OBVIOUS
  <2> QED
    BY <2>1, WithinSteps
<1>2. ASSUME NEW n \in Nat, n \in S PROVE n + 1 \in S
  <2> SUFFICES ASSUME n + 1 <= Window, NEW m \in 0..(n + 1)
               PROVE  Within(h, m) \in Nat /\ Within(h, m) <= Within(h, n + 1)
    OBVIOUS
  <2>1. n \in 0..(Window - 1) /\ n <= Window /\ n \in 0..n
    BY <1>0
  <2>2. Within(h, n + 1) = Within(h, n) + h[n] /\ h[n] \in Nat
    BY <1>a, <2>1, WithinSteps
  <2>3. \A x \in 0..n : Within(h, x) \in Nat /\ Within(h, x) <= Within(h, n)
    BY <1>2, <2>1
  <2>4. m = n + 1 \/ m \in 0..n
    OBVIOUS
  <2>5. Within(h, n) \in Nat
    BY <2>1, <2>3
  <2> QED
    BY <2>2, <2>3, <2>4, <2>5
<1> HIDE DEF S
<1>3. Nat \subseteq S
  BY <1>1, <1>2, NatInduction0
<1>4. ASSUME NEW n \in 0..Window
      PROVE  \A m \in 0..n : Within(h, m) \in Nat /\ Within(h, m) <= Within(h, n)
  BY <1>0, <1>3 DEF S
<1> QED
  BY <1>0, <1>4

\* An empty history has no requests.
LEMMA NothingWithin == \A n \in 0..Window : Within(NoHistory, n) = 0
<1>0. Window \in Nat \ {0}
  BY LimiterAssumption
<1> DEFINE S == {n \in Nat : n <= Window => Within(NoHistory, n) = 0}
<1>1. 0 \in S
  BY WithinSteps
<1>2. ASSUME NEW n \in Nat, n \in S PROVE n + 1 \in S
  <2> SUFFICES ASSUME n + 1 <= Window PROVE Within(NoHistory, n + 1) = 0
    OBVIOUS
  <2>1. n \in 0..(Window - 1) /\ n <= Window
    BY <1>0
  <2>2. Within(NoHistory, n + 1) = Within(NoHistory, n) + NoHistory[n]
    BY <2>1, WithinSteps
  <2>3. NoHistory[n] = 0 /\ Within(NoHistory, n) = 0
    BY <1>2, <2>1 DEF NoHistory
  <2> QED
    BY <2>2, <2>3
<1> HIDE DEF S
<1>3. Nat \subseteq S
  BY <1>1, <1>2, NatInduction0
<1> QED
  BY <1>0, <1>3 DEF S

\* A tick later the same requests are one tick older.
LEMMA WithinShifts ==
    ASSUME NEW h, NEW f,
           \A a \in 0..(Window - 1) : f[a] = IF a = 0 THEN 0 ELSE h[a - 1]
    PROVE  \A n \in 0..(Window - 1) : Within(f, n + 1) = Within(h, n)
<1>0. Window \in Nat \ {0}
  BY LimiterAssumption
<1> DEFINE S == {n \in Nat : n <= Window - 1 => Within(f, n + 1) = Within(h, n)}
<1>1. 0 \in S
  <2>1. 0 \in 0..(Window - 1)
    BY <1>0
  <2>2. Within(f, 0 + 1) = Within(f, 0) + f[0]
    BY <2>1, WithinSteps
  <2>3. f[0] = 0 /\ Within(f, 0) = 0 /\ Within(h, 0) = 0
    BY <2>1, WithinSteps
  <2> QED
    BY <2>2, <2>3
<1>2. ASSUME NEW n \in Nat, n \in S PROVE n + 1 \in S
  <2> SUFFICES ASSUME n + 1 <= Window - 1 PROVE Within(f, (n + 1) + 1) = Within(h, n + 1)
    OBVIOUS
  <2>1. n \in 0..(Window - 1) /\ n + 1 \in 0..(Window - 1) /\ n <= Window - 1
        /\ n + 1 # 0 /\ (n + 1) - 1 = n
    BY <1>0
  <2>2. Within(f, (n + 1) + 1) = Within(f, n + 1) + f[n + 1]
    BY <2>1, WithinSteps
  <2>3. Within(h, n + 1) = Within(h, n) + h[n]
    BY <2>1, WithinSteps
  <2>4. Within(f, n + 1) = Within(h, n)
    BY <1>2, <2>1
  <2>5. f[n + 1] = h[n]
    BY <2>1
  <2> QED
    BY <2>2, <2>3, <2>4, <2>5
<1> HIDE DEF S
<1>3. Nat \subseteq S
  BY <1>1, <1>2, NatInduction0
<1> QED
  BY <1>0, <1>3 DEF S

\* One request more now is one more within every number of ticks, and two
\* histories that agree have as many.
LEMMA WithinGrows ==
    ASSUME NEW h, NEW f, NEW d,
           f[0] = h[0] + d, d \in {0, 1},
           \A a \in 0..(Window - 1) : h[a] \in Nat,
           \A a \in 1..(Window - 1) : f[a] = h[a]
    PROVE  \A n \in 1..Window : Within(f, n) = Within(h, n) + d
<1>0. Window \in Nat \ {0}
  BY LimiterAssumption
<1> DEFINE S == {n \in Nat : n <= Window - 1 =>
                   Within(h, n + 1) \in Nat /\ Within(f, n + 1) = Within(h, n + 1) + d}
<1>1. 0 \in S
  <2>1. 0 \in 0..(Window - 1)
    BY <1>0
  <2>2. Within(f, 0 + 1) = Within(f, 0) + f[0] /\ Within(h, 0 + 1) = Within(h, 0) + h[0]
    BY <2>1, WithinSteps
  <2>3. h[0] \in Nat /\ Within(f, 0) = 0 /\ Within(h, 0) = 0
    BY <2>1, WithinSteps
  <2> QED
    BY <2>2, <2>3
<1>2. ASSUME NEW n \in Nat, n \in S PROVE n + 1 \in S
  <2> SUFFICES ASSUME n + 1 <= Window - 1
               PROVE  /\ Within(h, (n + 1) + 1) \in Nat
                      /\ Within(f, (n + 1) + 1) = Within(h, (n + 1) + 1) + d
    OBVIOUS
  <2>1. n + 1 \in 0..(Window - 1) /\ n + 1 \in 1..(Window - 1) /\ n <= Window - 1
    BY <1>0
  <2>2. Within(f, (n + 1) + 1) = Within(f, n + 1) + f[n + 1]
    BY <2>1, WithinSteps
  <2>3. Within(h, (n + 1) + 1) = Within(h, n + 1) + h[n + 1]
    BY <2>1, WithinSteps
  <2>4. Within(h, n + 1) \in Nat /\ Within(f, n + 1) = Within(h, n + 1) + d
    BY <1>2, <2>1
  <2>5. f[n + 1] = h[n + 1] /\ h[n + 1] \in Nat
    BY <2>1
  <2> QED
    BY <2>2, <2>3, <2>4, <2>5
<1> HIDE DEF S
<1>3. Nat \subseteq S
  BY <1>1, <1>2, NatInduction0
<1>4. ASSUME NEW n \in 1..Window PROVE Within(f, n) = Within(h, n) + d
  <2>1. n - 1 \in Nat /\ n - 1 <= Window - 1 /\ (n - 1) + 1 = n
    BY <1>0
  <2>2. n - 1 \in S
    BY <1>3, <2>1
  <2>3. Within(f, (n - 1) + 1) = Within(h, (n - 1) + 1) + d
    BY <2>1, <2>2 DEF S
  <2> QED
    BY <2>1, <2>3
<1> QED
  BY <1>4

\* What a history may hold for a window of age a and count c, and for none.
TwoWindows(h, a, c) ==
    /\ Within(h, a + 1) <= c
    /\ Within(h, Window) - Within(h, a + 1) <= Limit
OneWindow(h) == h[0] = 0 /\ Within(h, Window) <= Limit

\* The strengthening: the requests since a window started are counted in it, and
\* those before it were all counted in one window; without a window in force they
\* all were, and none came in the present tick.
RollInv ==
    \A k \in Keys : IF InWindow(k) THEN TwoWindows(history[k], age[k], count[k])
                                   ELSE OneWindow(history[k])

\* A tick: what was admitted a WINDOW ago is forgotten, and a window may end.
LEMMA RollTick == Inv /\ RollInv /\ Tick => RollInv'
<1> SUFFICES ASSUME Inv, RollInv, Tick, NEW k \in Keys
             PROVE  IF InWindow(k)' THEN TwoWindows(history'[k], age'[k], count'[k])
                                    ELSE OneWindow(history'[k])
  BY DEF RollInv
<1>0. /\ age \in [Keys -> 0..Window] /\ count \in [Keys -> 0..Limit]
      /\ history \in [Keys -> [0..(Window - 1) -> 0..HistoryCap]]
      /\ Limit \in Nat \ {0} /\ Window \in Nat \ {0} /\ HistoryCap \in Nat
  BY LimiterAssumption DEF Inv, TypeOK, HistoryCap
<1> DEFINE h == history[k]
           f == history'[k]
<1>1. /\ age'[k] = IF k \in tracked /\ age[k] < Window THEN age[k] + 1 ELSE age[k]
      /\ \A a \in 0..(Window - 1) : f[a] = IF a = 0 THEN 0 ELSE h[a - 1]
      /\ tracked' = tracked /\ count' = count
  BY <1>0 DEF Tick
<1>2. h \in Histories
  <2>1. h \in [0..(Window - 1) -> 0..HistoryCap]
    BY <1>0
  <2> HIDE DEF h
  <2> QED
    BY <1>0, <2>1 DEF Histories
<1>3. age[k] \in 0..Window /\ count[k] \in 0..Limit
  BY <1>0
<1> HIDE DEF h, f
<1>4. \A n \in 0..(Window - 1) : Within(f, n + 1) = Within(h, n)
  BY <1>1, WithinShifts
<1>5. /\ \A n \in 0..Window : Within(h, n) \in Nat
      /\ \A m, n \in 0..Window : m <= n => Within(h, m) <= Within(h, n)
  BY <1>2, WithinMeasures
<1>6. Within(f, Window) = Within(h, Window - 1) /\ Within(h, Window - 1) <= Within(h, Window)
      /\ Within(h, Window) \in Nat /\ Within(h, Window - 1) \in Nat
  <2>1. Window - 1 \in 0..(Window - 1) /\ Window - 1 \in 0..Window /\ Window \in 0..Window
        /\ (Window - 1) + 1 = Window /\ Window - 1 <= Window
    BY <1>0
  <2>2. Within(f, (Window - 1) + 1) = Within(h, Window - 1)
    BY <1>4, <2>1
  <2> QED
    BY <1>5, <2>1, <2>2
<1>7. f[0] = 0
  BY <1>0, <1>1
<1>8. CASE ~InWindow(k)
  <2>1. ~InWindow(k)'
    BY <1>0, <1>1, <1>8 DEF InWindow
  <2>2. OneWindow(h)
    BY <1>8 DEF RollInv, h
  <2> QED
    BY <1>0, <1>6, <1>7, <2>1, <2>2 DEF OneWindow, f
<1>9. CASE InWindow(k) /\ age[k] + 1 < Window
  <2>1. InWindow(k)' /\ age'[k] = age[k] + 1 /\ count'[k] = count[k]
    BY <1>0, <1>1, <1>3, <1>9 DEF InWindow
  <2>2. TwoWindows(h, age[k], count[k])
    BY <1>9 DEF RollInv, h
  <2>3. age[k] + 1 \in 0..(Window - 1) /\ age[k] + 1 \in 0..Window
    BY <1>0, <1>3, <1>9
  <2>4. Within(f, (age[k] + 1) + 1) = Within(h, age[k] + 1) /\ Within(h, age[k] + 1) \in Nat
    BY <1>4, <1>5, <2>3
  <2> QED
    BY <1>0, <1>3, <1>6, <2>1, <2>2, <2>4 DEF TwoWindows, f
<1>10. CASE InWindow(k) /\ age[k] + 1 = Window
  <2>1. ~InWindow(k)'
    BY <1>0, <1>1, <1>3, <1>10 DEF InWindow
  <2>2. TwoWindows(h, age[k], count[k])
    BY <1>10 DEF RollInv, h
  <2> QED
    BY <1>0, <1>3, <1>6, <1>7, <1>10, <2>1, <2>2 DEF TwoWindows, OneWindow, f
<1> QED
  BY <1>0, <1>3, <1>8, <1>9, <1>10 DEF InWindow

\* The sweep drops no window that is in force.
LEMMA RollCleanup == Inv /\ RollInv /\ Cleanup => RollInv'
<1> SUFFICES ASSUME Inv, RollInv, Cleanup, NEW k \in Keys
             PROVE  IF InWindow(k)' THEN TwoWindows(history'[k], age'[k], count'[k])
                                    ELSE OneWindow(history'[k])
  BY DEF RollInv
<1>1. InWindow(k)' <=> InWindow(k)
  BY DEF Cleanup, Entries, Active, InWindow
<1>2. InWindow(k) => age'[k] = age[k] /\ count'[k] = count[k]
  BY DEF Cleanup, Entries, Active, InWindow
<1>3. history' = history
  BY DEF Cleanup
<1> QED
  BY <1>1, <1>2, <1>3 DEF RollInv

\* A request is counted in its window or starts a new one; an evicted key starts
\* afresh.
LEMMA RollCheck == ASSUME Inv, RollInv, NEW k \in Keys, Check(k) PROVE RollInv'
<1>0. /\ tracked \subseteq Keys
      /\ age \in [Keys -> 0..Window] /\ count \in [Keys -> 0..Limit]
      /\ history \in [Keys -> [0..(Window - 1) -> 0..HistoryCap]]
      /\ \A x \in Keys \ tracked : age[x] = 0 /\ count[x] = 0
      /\ Limit \in Nat \ {0} /\ Window \in Nat \ {0} /\ HistoryCap \in Nat
  BY LimiterAssumption DEF Inv, TypeOK, HistoryCap
<1> DEFINE spent == IF Elapsed(k) THEN 0 ELSE count[k]
<1>1. PICK kept \in RoomMade(k) :
        /\ tracked' = kept \cup {k}
        /\ age' = [Entries(age, kept) EXCEPT ![k] = IF Elapsed(k) THEN 0 ELSE @]
        /\ \/ /\ spent < Limit
              /\ count' = [Entries(count, kept) EXCEPT ![k] = spent + 1]
              /\ Record(k, kept)
           \/ /\ ~(spent < Limit)
              /\ count' = [Entries(count, kept) EXCEPT ![k] = spent]
              /\ history' = Remembered(kept)
  BY DEF Check, UnderLimit
<1>2. kept \subseteq tracked
  BY <1>1, RoomMadeBounded
<1>3. k \in Active => k \in kept
  BY <1>1 DEF RoomMade, Active
<1>4. Remembered(kept) \in [Keys -> [0..(Window - 1) -> 0..HistoryCap]]
  BY <1>0 DEF Remembered, NoHistory
<1>5. /\ \A x \in Keys \ {k} : history'[x] = Remembered(kept)[x]
      /\ history'[k] = Remembered(kept)[k] \/ Record(k, kept)
  BY <1>1, <1>4 DEF Record
<1>6. ASSUME NEW x \in Keys, x # k
      PROVE  IF InWindow(x)' THEN TwoWindows(history'[x], age'[x], count'[x])
                             ELSE OneWindow(history'[x])
  <2>1. /\ x \in tracked' <=> x \in kept
        /\ age'[x] = IF x \in kept THEN age[x] ELSE 0
        /\ count'[x] = IF x \in kept THEN count[x] ELSE 0
    BY <1>1, <1>6 DEF Entries
  <2>2. CASE x \in Active /\ x \notin kept
    <3>1. history'[x] = NoHistory
      BY <1>5, <1>6, <2>2 DEF Remembered, EvictedBy
    <3>2. ~InWindow(x)'
      BY <2>1, <2>2 DEF InWindow
    <3>3. Within(NoHistory, Window) = 0 /\ NoHistory[0] = 0
      <4>1. Window \in 0..Window /\ 0 \in 0..(Window - 1)
        BY <1>0
      <4> QED
        BY <4>1, NothingWithin DEF NoHistory
    <3> QED
      BY <1>0, <3>1, <3>2, <3>3 DEF OneWindow
  <2>3. CASE ~(x \in Active /\ x \notin kept)
    <3>1. history'[x] = history[x]
      BY <1>5, <1>6, <2>3 DEF Remembered, EvictedBy
    <3>2. InWindow(x) <=> x \in Active
      BY DEF InWindow, Active
    <3>3. InWindow(x)' <=> InWindow(x)
      BY <1>2, <2>1, <2>3, <3>2 DEF InWindow
    <3>4. InWindow(x) => age'[x] = age[x] /\ count'[x] = count[x]
      BY <2>1, <2>3, <3>2
    <3> QED
      BY <3>1, <3>3, <3>4 DEF RollInv
  <2> QED
    BY <2>2, <2>3
<1>7. Remembered(kept)[k] = history[k]
  BY <1>3 DEF Remembered, EvictedBy
<1> DEFINE h == history[k]
<1>8. h \in [0..(Window - 1) -> 0..HistoryCap]
  BY <1>0
<1>9. InWindow(k) => k \in kept /\ ~Elapsed(k) /\ age'[k] = age[k] /\ spent = count[k]
  <2> SUFFICES ASSUME InWindow(k)
               PROVE  k \in kept /\ ~Elapsed(k) /\ age'[k] = age[k] /\ spent = count[k]
    OBVIOUS
  <2>1. k \in kept /\ ~Elapsed(k)
    BY <1>0, <1>3 DEF InWindow, Elapsed, Active
  <2> QED
    BY <1>1, <2>1 DEF Entries
<1>10. ~InWindow(k) => age'[k] = 0 /\ spent = 0
  <2> SUFFICES ASSUME ~InWindow(k) PROVE age'[k] = 0 /\ spent = 0
    OBVIOUS
  <2>1. CASE k \in tracked
    <3>1. Elapsed(k)
      BY <1>0, <2>1 DEF InWindow, Elapsed
    <3> QED
      BY <1>1, <3>1 DEF Entries
  <2>2. CASE k \notin tracked
    <3>1. age[k] = 0 /\ count[k] = 0 /\ ~Elapsed(k) /\ k \notin kept
      BY <1>0, <1>2, <2>2 DEF Elapsed
    <3> QED
      BY <1>1, <3>1 DEF Entries
  <2> QED
    BY <2>1, <2>2
<1>11. InWindow(k)'
  <2>1. k \in tracked' /\ age'[k] < Window
    BY <1>0, <1>1, <1>9, <1>10 DEF InWindow
  <2> QED
    BY <2>1 DEF InWindow
<1>12. /\ 1 \in 0..Window /\ Window \in 1..Window /\ Window \in 0..Window
       /\ age[k] \in 0..Window /\ count[k] \in 0..Limit
       /\ InWindow(k) => age[k] + 1 \in 0..Window /\ age[k] + 1 \in 1..Window
  BY <1>0 DEF InWindow
<1>13. \A n \in 0..Window : Within(h, n) \in Nat
  <2>1. h \in Histories
    BY <1>0, <1>8 DEF Histories
  <2> QED
    BY <2>1, WithinMeasures
<1>14. spent \in 0..Limit
  BY <1>0
<1>15. InWindow(k) => TwoWindows(h, age[k], count[k])
  BY DEF RollInv
<1>16. ~InWindow(k) => OneWindow(h)
  BY DEF RollInv
<1>17. CASE spent < Limit
  <2>1. count'[k] = spent + 1 /\ Record(k, kept)
    BY <1>1, <1>17 DEF Entries
  <2> DEFINE d == IF h[0] < HistoryCap THEN 1 ELSE 0
             H == Remembered(kept)
  <2>2. history' = [H EXCEPT ![k] = [H[k] EXCEPT ![0] = IF H[k][0] < HistoryCap THEN H[k][0] + 1 ELSE H[k][0]]]
    BY <2>1 DEF Record
  <2>3. H[k] = h /\ H \in [Keys -> [0..(Window - 1) -> 0..HistoryCap]]
    BY <1>4, <1>7
  <2>4. 0 \in 0..(Window - 1) /\ h[0] \in Nat
    BY <1>0, <1>8
  <2> HIDE DEF H, h
  <2>5. history'[k] = [h EXCEPT ![0] = IF h[0] < HistoryCap THEN h[0] + 1 ELSE h[0]]
    BY <2>2, <2>3
  <2>6. history'[k][0] = h[0] + d /\ d \in {0, 1}
    BY <1>8, <2>4, <2>5
  <2>7. /\ \A a \in 0..(Window - 1) : h[a] \in Nat
        /\ \A a \in 1..(Window - 1) : history'[k][a] = h[a]
    BY <1>0, <1>8, <2>5
  <2> HIDE DEF d
  <2>8. \A n \in 1..Window : Within(history'[k], n) = Within(h, n) + d
    BY <2>6, <2>7, WithinGrows
  <2>9. CASE InWindow(k)
    <3>1. TwoWindows(h, age[k], count[k]) /\ age'[k] = age[k] /\ count'[k] = count[k] + 1
      BY <1>9, <1>15, <2>1, <2>9
    <3>2. /\ Within(history'[k], age[k] + 1) = Within(h, age[k] + 1) + d
          /\ Within(history'[k], Window) = Within(h, Window) + d
          /\ Within(h, age[k] + 1) \in Nat /\ Within(h, Window) \in Nat
      BY <1>12, <1>13, <2>8, <2>9
    <3>3. TwoWindows(history'[k], age'[k], count'[k])
      BY <1>0, <1>12, <2>6, <3>1, <3>2 DEF TwoWindows
    <3> QED
      BY <1>6, <1>11, <3>3 DEF RollInv
  <2>10. CASE ~InWindow(k)
    <3>1. OneWindow(h) /\ age'[k] = 0 /\ count'[k] = 1
      BY <1>10, <1>16, <2>1, <2>10
    <3>2. Within(h, 0) = 0 /\ Within(h, 0 + 1) = Within(h, 0) + h[0]
      BY <2>4, WithinSteps
    <3>3. /\ Within(history'[k], 0 + 1) = Within(h, 0 + 1) + d
          /\ Within(history'[k], Window) = Within(h, Window) + d
          /\ Within(h, Window) \in Nat
      <4>1. 0 + 1 \in 1..Window
        BY <1>0
      <4> QED
        BY <1>12, <1>13, <2>8, <4>1
    <3>4. TwoWindows(history'[k], age'[k], count'[k])
      BY <1>0, <2>6, <3>1, <3>2, <3>3 DEF TwoWindows, OneWindow
    <3> QED
      BY <1>6, <1>11, <3>4 DEF RollInv
  <2> QED
    BY <2>9, <2>10
<1>18. CASE ~(spent < Limit)
  <2>1. count'[k] = spent /\ history'[k] = h
    BY <1>1, <1>7, <1>18 DEF Entries
  <2>2. InWindow(k)
    BY <1>0, <1>10, <1>18
  <2>3. TwoWindows(history'[k], age'[k], count'[k])
    BY <1>9, <1>15, <2>1, <2>2
  <2> QED
    BY <1>6, <1>11, <2>3 DEF RollInv
<1> QED
  BY <1>17, <1>18

\* A rolling WINDOW admits at most twice the limit of a key that is not evicted.
THEOREM RollingIsBounded == Spec => []RollingTwice
<1>0. Window \in Nat \ {0} /\ Limit \in Nat \ {0}
  BY LimiterAssumption
<1>1. Init => RollInv
  <2> SUFFICES ASSUME Init, NEW k \in Keys
               PROVE  IF InWindow(k) THEN TwoWindows(history[k], age[k], count[k])
                                     ELSE OneWindow(history[k])
    BY DEF RollInv
  <2>1. ~InWindow(k) /\ history[k] = NoHistory
    BY DEF Init, InWindow, NoHistory
  <2>2. Within(NoHistory, Window) = 0 /\ NoHistory[0] = 0
    <3>1. Window \in 0..Window /\ 0 \in 0..(Window - 1)
      BY <1>0
    <3> QED
      BY <3>1, NothingWithin DEF NoHistory
  <2> QED
    BY <1>0, <2>1, <2>2 DEF OneWindow
<1>2. Inv /\ RollInv /\ [Next]_vars => RollInv'
  <2>1. CASE UNCHANGED vars
    BY <2>1 DEF vars, RollInv, InWindow
  <2> QED
    BY <2>1, RollTick, RollCleanup, RollCheck DEF Next
<1>3. Inv /\ RollInv => RollingTwice
  <2> SUFFICES ASSUME Inv, RollInv, NEW k \in Keys PROVE Recent(k) <= 2 * Limit
    BY DEF RollingTwice
  <2>1. /\ history[k] \in [0..(Window - 1) -> 0..HistoryCap] /\ HistoryCap \in Nat
        /\ age[k] \in 0..Window /\ count[k] \in 0..Limit
    BY <1>0 DEF Inv, TypeOK, HistoryCap
  <2>2. history[k] \in Histories
    BY <1>0, <2>1 DEF Histories
  <2>3. \A n \in 0..Window : Within(history[k], n) \in Nat
    BY <2>2, WithinMeasures
  <2>4. Window \in 0..Window
    BY <1>0
  <2>5. CASE InWindow(k)
    <3>1. TwoWindows(history[k], age[k], count[k])
      BY <2>5 DEF RollInv
    <3>2. age[k] + 1 \in 0..Window
      BY <1>0, <2>1, <2>5 DEF InWindow
    <3>3. Within(history[k], age[k] + 1) \in Nat /\ Within(history[k], Window) \in Nat
      BY <2>3, <2>4, <3>2
    <3> QED
      BY <1>0, <2>1, <3>1, <3>3 DEF TwoWindows, Recent
  <2>6. CASE ~InWindow(k)
    <3>1. OneWindow(history[k]) /\ Within(history[k], Window) \in Nat
      BY <2>3, <2>4, <2>6 DEF RollInv
    <3> QED
      BY <1>0, <3>1 DEF OneWindow, Recent
  <2> QED
    BY <2>5, <2>6
<1> QED
  BY <1>1, <1>2, <1>3, Invariance, PTL DEF Spec

-----------------------------------------------------------------------------
(***************************************************************************)
(* The glyph cache: its two maps agree, its capacity is kept, and it       *)
(* implements the abstract least-recently-used cache.                      *)
(***************************************************************************)
Cache == INSTANCE GlyphCache

\* All three modules count alike.
LEMMA SameCardinality ==
    \A S : Cache!Cardinality(S) = Cardinality(S) /\ Cache!Lru!Cardinality(S) = Cardinality(S)
BY DEF Cache!Cardinality, Cache!Lru!Cardinality, Cardinality

\* A set of naturals that is not empty has a least element.
LEMMA LeastExists ==
    ASSUME NEW S, S \subseteq Nat, S # {}
    PROVE  \E s \in S : \A r \in S : s <= r
<1>1. PICK s \in S : \A r \in S : ~(<<r, s>> \in OpToRel(<, Nat))
  BY WFMin, NatLessThanWellFounded
<1>2. ASSUME NEW r \in S PROVE s <= r
  <2>1. <<r, s>> \in OpToRel(<, Nat) <=> r < s
    BY DEF OpToRel
  <2>2. ~(r < s)
    BY <1>1, <2>1, Zenon
  <2>3. r \in Nat /\ s \in Nat
    OBVIOUS
  <2> QED
    BY <2>2, <2>3
<1> QED
  BY <1>2
-----------------------------------------------------------------------------
\* The inductive invariant.  Bounded needs IndexExact: a full cache can make
\* room only if its index is not empty, and the key found there is an entry.
CacheInv == Cache!TypeOK /\ Cache!IndexExact /\ Cache!Bounded

\* What the invariant says of one key: it is an entry exactly when it has a
\* stamp, that stamp is in the index and was handed out.
LEMMA CacheFacts ==
    ASSUME CacheInv
    PROVE  /\ glyph \in [GlyphKeys -> Glyphs \cup {NoGlyph}]
           /\ stamp \in [GlyphKeys -> {Cache!NoStamp} \cup Cache!Stamps]
           /\ order \in [Cache!Stamps -> GlyphKeys \cup {NoKey}]
           /\ next_seq \in 0..MaxSeq
           /\ found \in Glyphs \cup {NoGlyph}
           /\ \A k \in GlyphKeys : stamp[k] < next_seq
           /\ \A k \in GlyphKeys : glyph[k] # NoGlyph <=> stamp[k] # Cache!NoStamp
           /\ \A k \in GlyphKeys, s \in Cache!Stamps : order[s] = k <=> stamp[k] = s
           /\ Cache!NoStamp = -1 /\ Cache!NoStamp \notin Cache!Stamps
           /\ Cache!Stamps \subseteq Nat
           /\ \A s \in Cache!Stamps : s < MaxSeq
           /\ next_seq < MaxSeq => next_seq \in Cache!Stamps
           /\ IsFiniteSet(Cache!Cached) /\ Cardinality(Cache!Cached) \in Nat
           /\ Cardinality(Cache!Cached) <= MaxEntries
           /\ Cache!Cached \subseteq GlyphKeys
<1>1. Cache!Cached \subseteq GlyphKeys
  BY DEF Cache!Cached
<1>2. IsFiniteSet(Cache!Cached) /\ Cardinality(Cache!Cached) \in Nat
  BY <1>1, FS_Subset, FS_CardinalityType, CacheAssumption
<1>3. Cache!NoStamp \notin Cache!Stamps /\ Cache!Stamps \subseteq Nat /\ \A s \in Cache!Stamps : s < MaxSeq
  BY CacheAssumption DEF Cache!NoStamp, Cache!Stamps
<1>4. next_seq \in 0..MaxSeq /\ (next_seq < MaxSeq => next_seq \in Cache!Stamps)
  BY CacheAssumption DEF CacheInv, Cache!TypeOK, Cache!Stamps
<1> QED
  BY <1>1, <1>2, <1>3, <1>4, SameCardinality
  DEF CacheInv, Cache!TypeOK, Cache!IndexExact, Cache!Bounded, Cache!Cached, Cache!NoStamp

\* What `insert` of a new key evicts: nothing while there is room; in a full
\* cache the one entry whose stamp is below all the others.
LEMMA Evicts ==
    ASSUME CacheInv
    PROVE  \/ /\ Cardinality(Cache!Cached) < MaxEntries
              /\ Cache!Evicted = {}
           \/ /\ Cardinality(Cache!Cached) = MaxEntries
              /\ \E old \in Cache!Cached :
                    /\ Cache!Evicted = {stamp[old]} /\ order[stamp[old]] = old
                    /\ \A a \in Cache!Cached \ {old} : stamp[old] < stamp[a]
<1>0. Cache!Cached = {k \in GlyphKeys : glyph[k] # NoGlyph}
  BY DEF Cache!Cached
<1>1. CASE Cardinality(Cache!Cached) < MaxEntries
  BY <1>1, CacheFacts, SameCardinality, CacheAssumption DEF Cache!Evicted
<1>2. CASE Cardinality(Cache!Cached) = MaxEntries
  <2> DEFINE Used == {s \in Cache!Stamps : order[s] # NoKey}
  <2>1. PICK x \in Cache!Cached : TRUE
    BY <1>2, CacheFacts, FS_EmptySet, CacheAssumption
  <2>2. stamp[x] \in Cache!Stamps /\ order[stamp[x]] = x /\ order[stamp[x]] # NoKey
    BY <1>0, <2>1, CacheFacts, CacheAssumption
  <2>3. Used \subseteq Nat /\ Used # {}
    BY <2>2, CacheFacts
  <2>4. PICK s \in Used : \A r \in Used : s <= r
    <3> HIDE DEF Used
    <3> QED
      BY <2>3, LeastExists
  <2>5. Cache!First = {s}
    BY <2>4, CacheFacts DEF Cache!First
  <2>6. order[s] \in GlyphKeys /\ stamp[order[s]] = s /\ order[s] \in Cache!Cached
    BY <1>0, <2>4, CacheFacts
  <2>7. \A a \in Cache!Cached : stamp[a] \in Used /\ stamp[a] \in Nat /\ order[stamp[a]] = a
    BY <1>0, CacheFacts, CacheAssumption
  <2>8. \A a \in Cache!Cached \ {order[s]} : s < stamp[a]
    BY <2>4, <2>6, <2>7, CacheFacts
  <2>9. Cache!Evicted = {stamp[order[s]]}
    BY <1>2, <2>5, <2>6, SameCardinality, CacheAssumption DEF Cache!Evicted
  <2> QED
    BY <1>2, <2>6, <2>8, <2>9
<1> QED
  BY <1>1, <1>2, CacheFacts, CacheAssumption

\* What a use of key k does to the stamps: k has the newest, the others keep theirs.
LEMMA Touches ==
    ASSUME CacheInv, NEW k \in Cache!Cached, Cache!Touch(k)
    PROVE  /\ next_seq' = next_seq + 1 /\ next_seq' \in 0..MaxSeq
           /\ stamp' \in [GlyphKeys -> {Cache!NoStamp} \cup Cache!Stamps]
           /\ order' \in [Cache!Stamps -> GlyphKeys \cup {NoKey}]
           /\ stamp'[k] = next_seq /\ \A x \in GlyphKeys \ {k} : stamp'[x] = stamp[x]
           /\ \A x \in GlyphKeys : stamp'[x] < next_seq'
           /\ \A x \in GlyphKeys : stamp[x] # Cache!NoStamp <=> stamp'[x] # Cache!NoStamp
           /\ \A x \in GlyphKeys, s \in Cache!Stamps : order'[s] = x <=> stamp'[x] = s
<1>1. k \in GlyphKeys /\ stamp[k] \in Cache!Stamps /\ stamp[k] # next_seq
  BY CacheFacts DEF Cache!Cached
<1>2. /\ next_seq < MaxSeq /\ next_seq' = next_seq + 1
      /\ stamp' = [stamp EXCEPT ![k] = next_seq]
      /\ order' = [order EXCEPT ![stamp[k]] = NoKey, ![next_seq] = k]
  BY DEF Cache!Touch
<1>3. next_seq \in Cache!Stamps /\ next_seq \in Nat /\ next_seq' \in 0..MaxSeq
  BY <1>2, CacheFacts, CacheAssumption
<1>4. \A x \in GlyphKeys, s \in Cache!Stamps : order'[s] = x <=> stamp'[x] = s
  BY <1>1, <1>2, <1>3, CacheFacts, CacheAssumption
<1>5. ASSUME NEW x \in GlyphKeys PROVE stamp'[x] < next_seq'
  <2>1. stamp[x] \in Int /\ stamp[x] < next_seq
    BY CacheFacts
  <2>2. stamp'[x] = IF x = k THEN next_seq ELSE stamp[x]
    BY <1>2, CacheFacts
  <2> QED
    BY <1>2, <1>3, <2>1, <2>2
<1> QED
  BY <1>1, <1>2, <1>3, <1>4, <1>5, CacheFacts

\* The same for `insert` of a new key, which also forgets the keys in `gone`.
Inserted(k, g, gone) ==
    /\ \/ gone = {} /\ Cardinality(Cache!Cached) < MaxEntries
       \/ /\ Cardinality(Cache!Cached) = MaxEntries
          /\ \E old \in Cache!Cached : /\ gone = {old}
                                 /\ \A a \in Cache!Cached \ {old} : stamp[old] < stamp[a]
    /\ glyph' = [x \in GlyphKeys |-> IF x = k THEN g ELSE IF x \in gone THEN NoGlyph ELSE glyph[x]]
    /\ stamp' = [x \in GlyphKeys |-> IF x = k THEN next_seq ELSE IF x \in gone THEN Cache!NoStamp
                                 ELSE stamp[x]]
    /\ order' \in [Cache!Stamps -> GlyphKeys \cup {NoKey}]
    /\ \A x \in GlyphKeys, s \in Cache!Stamps : order'[s] = x <=> stamp'[x] = s
    /\ Cache!Cached' = (Cache!Cached \ gone) \cup {k}
    /\ k \notin Cache!Cached /\ next_seq \in Cache!Stamps
    /\ next_seq' = next_seq + 1 /\ next_seq' \in 0..MaxSeq
    /\ UNCHANGED found

LEMMA Inserts ==
    ASSUME CacheInv, NEW k \in GlyphKeys, NEW g \in Glyphs, Cache!Insert(k, g)
    PROVE  \E gone \in SUBSET Cache!Cached : Inserted(k, g, gone)
<1> DEFINE gone == {order[s] : s \in Cache!Evicted}
<1>1. /\ k \notin Cache!Cached /\ next_seq < MaxSeq /\ next_seq' = next_seq + 1
      /\ order' = [s \in Cache!Stamps |-> IF s = next_seq THEN k
                                    ELSE IF s \in Cache!Evicted THEN NoKey ELSE order[s]]
      /\ glyph' = [x \in GlyphKeys |-> IF x = k THEN g ELSE IF x \in gone THEN NoGlyph ELSE glyph[x]]
      /\ stamp' = [x \in GlyphKeys |-> IF x = k THEN next_seq ELSE IF x \in gone THEN Cache!NoStamp
                                   ELSE stamp[x]]
      /\ UNCHANGED found
  BY DEF Cache!Insert
<1>2. /\ gone \in SUBSET Cache!Cached
      /\ \/ gone = {} /\ Cardinality(Cache!Cached) < MaxEntries
         \/ /\ Cardinality(Cache!Cached) = MaxEntries
            /\ \E old \in Cache!Cached : /\ gone = {old}
                                   /\ \A a \in Cache!Cached \ {old} : stamp[old] < stamp[a]
      /\ \A s \in Cache!Stamps : s \in Cache!Evicted <=> order[s] \in gone
  <2>1. CASE Cache!Evicted = {} /\ Cardinality(Cache!Cached) < MaxEntries
    BY <2>1
  <2>2. CASE /\ Cardinality(Cache!Cached) = MaxEntries
             /\ \E old \in Cache!Cached :
                    /\ Cache!Evicted = {stamp[old]} /\ order[stamp[old]] = old
                    /\ \A a \in Cache!Cached \ {old} : stamp[old] < stamp[a]
    <3>1. PICK old \in Cache!Cached :
                    /\ Cache!Evicted = {stamp[old]} /\ order[stamp[old]] = old
                    /\ \A a \in Cache!Cached \ {old} : stamp[old] < stamp[a]
      BY <2>2
    <3>2. gone = {old}
      BY <3>1
    <3>3. \A s \in Cache!Stamps : s \in Cache!Evicted <=> order[s] \in gone
      BY <3>1, <3>2, CacheFacts
    <3> QED
      BY <2>2, <3>1, <3>2, <3>3
  <2> QED
    BY <2>1, <2>2, Evicts
<1> HIDE DEF gone
<1>3. next_seq \in Cache!Stamps /\ next_seq \in Nat /\ next_seq' \in 0..MaxSeq
  BY <1>1, CacheFacts, CacheAssumption
<1>4. Cache!Cached' = (Cache!Cached \ gone) \cup {k}
  BY <1>1, <1>2, CacheAssumption DEF Cache!Cached
<1>5. order' \in [Cache!Stamps -> GlyphKeys \cup {NoKey}]
  BY <1>1, CacheFacts
<1>6. stamp[k] = Cache!NoStamp /\ order[next_seq] = NoKey
  BY <1>1, <1>3, CacheFacts DEF Cache!Cached
<1>7. ASSUME NEW x \in GlyphKeys, NEW s \in Cache!Stamps
      PROVE  order'[s] = x <=> stamp'[x] = s
  <2>1. order[s] = x <=> stamp[x] = s
    BY CacheFacts
  <2>2. stamp[x] # next_seq
    BY CacheFacts, <1>3
  <2>3. CASE s = next_seq
    BY <1>1, <1>6, <2>2, <2>3, CacheFacts
  <2>4. CASE s # next_seq
    BY <1>1, <1>2, <1>3, <1>6, <2>1, <2>4, CacheFacts, CacheAssumption
  <2> QED
    BY <2>3, <2>4
<1> QED
  BY <1>1, <1>2, <1>3, <1>4, <1>5, <1>7 DEF Inserted

-----------------------------------------------------------------------------
LEMMA CacheInit == Cache!Init => CacheInv
<1> SUFFICES ASSUME Cache!Init PROVE CacheInv
  OBVIOUS
<1>1. Cache!Cached = {}
  BY DEF Cache!Init, Cache!Cached
<1>2. Cache!Bounded
  BY <1>1, FS_EmptySet, SameCardinality, CacheAssumption DEF Cache!Bounded
<1>3. Cache!TypeOK
  BY CacheAssumption DEF Cache!Init, Cache!TypeOK, Cache!NoStamp
<1>4. Cache!IndexExact
  BY CacheAssumption DEF Cache!Init, Cache!IndexExact, Cache!Cached, Cache!Stamps, Cache!NoStamp
<1> QED
  BY <1>2, <1>3, <1>4 DEF CacheInv

LEMMA CacheStep == CacheInv /\ [Cache!Next]_(Cache!vars) => CacheInv'
<1> SUFFICES ASSUME CacheInv, [Cache!Next]_(Cache!vars) PROVE CacheInv'
  OBVIOUS
<1>0. /\ glyph \in [GlyphKeys -> Glyphs \cup {NoGlyph}]
      /\ \A k \in GlyphKeys : glyph[k] # NoGlyph <=> stamp[k] # Cache!NoStamp
      /\ Cardinality(Cache!Cached) <= MaxEntries /\ found \in Glyphs \cup {NoGlyph}
  BY CacheFacts
<1>1. ASSUME NEW k \in GlyphKeys, Cache!Hit(k) PROVE CacheInv'
  <2>1. k \in Cache!Cached /\ Cache!Touch(k) /\ glyph' = glyph /\ found' \in Glyphs \cup {NoGlyph}
    BY <1>0, <1>1 DEF Cache!Hit
  <2>2. Cache!Cached' = Cache!Cached
    BY <2>1 DEF Cache!Cached
  <2>3. Cache!TypeOK'
    BY <1>0, <2>1, Touches DEF Cache!TypeOK
  <2>4. Cache!IndexExact'
    BY <1>0, <2>1, Touches DEF Cache!IndexExact, Cache!Cached
  <2> QED
    BY <1>0, <2>2, <2>3, <2>4 DEF CacheInv, Cache!Bounded
<1>2. ASSUME NEW k \in GlyphKeys, Cache!Miss(k) PROVE CacheInv'
  BY <1>2 DEF Cache!Miss, CacheInv, Cache!TypeOK, Cache!IndexExact, Cache!Bounded, Cache!Cached
<1>3. ASSUME NEW k \in GlyphKeys, NEW g \in Glyphs, Cache!Overwrite(k, g) PROVE CacheInv'
  <2>1. k \in Cache!Cached /\ Cache!Touch(k) /\ glyph' = [glyph EXCEPT ![k] = g] /\ found' = found
    BY <1>3 DEF Cache!Overwrite
  <2>2. Cache!Cached' = Cache!Cached /\ glyph' \in [GlyphKeys -> Glyphs \cup {NoGlyph}]
    BY <1>0, <2>1, CacheAssumption DEF Cache!Cached
  <2>3. Cache!TypeOK'
    BY <1>0, <2>1, <2>2, Touches DEF Cache!TypeOK
  <2>4. Cache!IndexExact'
    BY <1>0, <2>1, <2>2, Touches DEF Cache!IndexExact, Cache!Cached
  <2> QED
    BY <1>0, <2>2, <2>3, <2>4 DEF CacheInv, Cache!Bounded
<1>4. ASSUME NEW k \in GlyphKeys, NEW g \in Glyphs, Cache!Insert(k, g) PROVE CacheInv'
  <2>0. PICK gone \in SUBSET Cache!Cached : Inserted(k, g, gone)
    BY <1>4, Inserts
  <2>1. /\ \/ gone = {} /\ Cardinality(Cache!Cached) < MaxEntries
           \/ /\ Cardinality(Cache!Cached) = MaxEntries
              /\ \E old \in Cache!Cached : /\ gone = {old}
                                     /\ \A a \in Cache!Cached \ {old} : stamp[old] < stamp[a]
        /\ glyph' = [x \in GlyphKeys |-> IF x = k THEN g ELSE IF x \in gone THEN NoGlyph ELSE glyph[x]]
        /\ stamp' = [x \in GlyphKeys |-> IF x = k THEN next_seq ELSE IF x \in gone THEN Cache!NoStamp
                                     ELSE stamp[x]]
        /\ order' \in [Cache!Stamps -> GlyphKeys \cup {NoKey}]
        /\ \A x \in GlyphKeys, s \in Cache!Stamps : order'[s] = x <=> stamp'[x] = s
        /\ Cache!Cached' = (Cache!Cached \ gone) \cup {k}
        /\ k \notin Cache!Cached /\ next_seq \in Cache!Stamps
        /\ next_seq' = next_seq + 1 /\ next_seq' \in 0..MaxSeq
        /\ UNCHANGED found
    BY <2>0 DEF Inserted
  <2>2. stamp' \in [GlyphKeys -> {Cache!NoStamp} \cup Cache!Stamps] /\ \A x \in GlyphKeys : stamp'[x] < next_seq'
    <3>1. \A x \in GlyphKeys : stamp[x] \in Int /\ stamp[x] < next_seq
      BY CacheFacts
    <3>2. next_seq \in Nat /\ Cache!NoStamp = -1
      BY CacheFacts
    <3>3. \A x \in GlyphKeys : stamp'[x] = IF x = k THEN next_seq ELSE IF x \in gone THEN Cache!NoStamp
                                      ELSE stamp[x]
      BY <2>1
    <3>4. \A x \in GlyphKeys : stamp'[x] < next_seq'
      BY <2>1, <3>1, <3>2, <3>3
    <3> QED
      BY <2>1, <3>4, CacheFacts
  <2>3. glyph' \in [GlyphKeys -> Glyphs \cup {NoGlyph}]
    BY <1>0, <2>1
  <2>4. Cache!TypeOK'
    BY <1>0, <2>1, <2>2, <2>3 DEF Cache!TypeOK
  <2>5. Cache!IndexExact'
    BY <1>0, <2>1, CacheFacts, CacheAssumption DEF Cache!IndexExact, Cache!Cached
  <2>6. Cardinality(Cache!Cached') <= MaxEntries
    <3>1. IsFiniteSet(Cache!Cached) /\ Cardinality(Cache!Cached) \in Nat
      BY CacheFacts
    <3>2. CASE gone = {} /\ Cardinality(Cache!Cached) < MaxEntries
      <4>1. Cache!Cached' = Cache!Cached \cup {k}
        BY <2>1, <3>2
      <4>2. Cardinality(Cache!Cached \cup {k}) = Cardinality(Cache!Cached) + 1
        BY <2>1, <3>1, FS_AddElement
      <4> QED
        BY <3>1, <3>2, <4>1, <4>2, CacheAssumption
    <3>3. CASE Cardinality(Cache!Cached) = MaxEntries /\ \E old \in Cache!Cached : gone = {old}
      <4>1. PICK old \in Cache!Cached : gone = {old}
        BY <3>3
      <4>2. IsFiniteSet(Cache!Cached \ {old}) /\ Cardinality(Cache!Cached \ {old}) = MaxEntries - 1
        BY <3>1, <3>3, FS_RemoveElement
      <4>3. k \notin Cache!Cached \ {old}
        BY <2>1
      <4>4. Cardinality((Cache!Cached \ {old}) \cup {k}) = Cardinality(Cache!Cached \ {old}) + 1
        BY <4>2, <4>3, FS_AddElement
      <4>5. Cache!Cached' = (Cache!Cached \ {old}) \cup {k}
        BY <2>1, <4>1
      <4> QED
        BY <4>2, <4>4, <4>5, CacheAssumption
    <3> QED
      BY <2>1, <3>2, <3>3
  <2> QED
    BY <2>4, <2>5, <2>6, SameCardinality DEF CacheInv, Cache!Bounded
<1>5. ASSUME Cache!Clear PROVE CacheInv'
  <2>1. Cache!Cached' = {}
    BY <1>5 DEF Cache!Clear, Cache!Cached
  <2>2. Cache!TypeOK'
    BY <1>5, CacheFacts DEF Cache!Clear, Cache!TypeOK
  <2>3. Cache!IndexExact'
    BY <1>5, CacheFacts, CacheAssumption DEF Cache!Clear, Cache!IndexExact, Cache!Cached
  <2> QED
    BY <2>1, <2>2, <2>3, FS_EmptySet, SameCardinality, CacheAssumption DEF CacheInv, Cache!Bounded
<1>6. ASSUME UNCHANGED Cache!vars PROVE CacheInv'
  BY <1>6 DEF Cache!vars, CacheInv, Cache!TypeOK, Cache!IndexExact, Cache!Bounded, Cache!Cached
<1> QED
  BY <1>1, <1>2, <1>3, <1>4, <1>5, <1>6 DEF Cache!Next

LEMMA CacheInvariance == Cache!Spec => []CacheInv
  BY CacheInit, CacheStep, PTL DEF Cache!Spec

\* Type correctness, for every capacity: stamps in use were handed out before.
THEOREM CacheTypeCorrect == Cache!Spec => []Cache!TypeOK
<1>1. CacheInv => Cache!TypeOK
  BY DEF CacheInv
<1> QED
  BY <1>1, CacheInvariance, PTL

\* The hash map and the recency index of GlyphCache always agree.
THEOREM IndexIsExact == Cache!Spec => []IndexExact
<1>1. CacheInv => IndexExact
  BY DEF CacheInv, Cache!IndexExact, Cache!Cached, Cache!NoStamp, Cache!Stamps,
         IndexExact, Cached, NoStamp, Stamps
<1> QED
  BY <1>1, CacheInvariance, PTL

\* The cache never outgrows max_entries.
THEOREM CacheIsBounded == Cache!Spec => []Bounded
<1>1. Cache!Cached = Cached
  BY DEF Cache!Cached, Cached
<1>2. CacheInv => Bounded
  BY <1>1, SameCardinality DEF CacheInv, Cache!Bounded, Bounded
<1> QED
  BY <1>2, CacheInvariance, PTL
-----------------------------------------------------------------------------
(***************************************************************************)
(* Refinement.                                                             *)
(***************************************************************************)
Before == {p \in GlyphKeys \X GlyphKeys : p[1] \in Cache!Cached /\ p[2] \in Cache!Cached
                                  /\ stamp[p[1]] < stamp[p[2]]}

\* Giving k the newest stamp and dropping `gone` moves k to the end of the order.
LEMMA OrderMoves ==
    ASSUME CacheInv, NEW k \in GlyphKeys, NEW kept \in SUBSET Cache!Cached,
           Cache!Cached' = kept \cup {k},
           stamp'[k] = next_seq,
           \A x \in kept \ {k} : stamp'[x] = stamp[x]
    PROVE  Before' = Cache!Lru!UsedLast(k, kept)
<1> DEFINE U == Cache!Lru!UsedLast(k, kept)
<1>0. /\ kept \subseteq GlyphKeys
      /\ \A x \in GlyphKeys : stamp[x] \in Int /\ stamp[x] < next_seq
      /\ next_seq \in Int
  BY CacheFacts
<1>1. U \subseteq GlyphKeys \X GlyphKeys
  BY <1>0 DEF Cache!Lru!UsedLast, Before
<1>2. ASSUME NEW a \in GlyphKeys, NEW b \in GlyphKeys
      PROVE  <<a, b>> \in Before' <=> <<a, b>> \in U
  <2>1. <<a, b>> \in U <=>
            \/ a \in kept \ {k} /\ b \in kept \ {k} /\ stamp[a] < stamp[b]
            \/ a \in kept \ {k} /\ b = k
    BY <1>0 DEF Cache!Lru!UsedLast, Before
  <2>2. <<a, b>> \in Before' <=> a \in Cache!Cached' /\ b \in Cache!Cached' /\ stamp'[a] < stamp'[b]
    BY DEF Before
  <2>3. CASE a \in kept \ {k} /\ b \in kept \ {k}
    BY <2>1, <2>2, <2>3
  <2>4. CASE a \in kept \ {k} /\ b = k
    BY <1>0, <2>1, <2>2, <2>4
  <2>5. CASE a = k /\ b \in kept \ {k}
    BY <1>0, <2>1, <2>2, <2>5
  <2>6. CASE a = k /\ b = k
    BY <1>0, <2>1, <2>2, <2>6
  <2>7. CASE a \notin kept \cup {k} \/ b \notin kept \cup {k}
    BY <2>1, <2>2, <2>7
  <2> QED
    BY <2>3, <2>4, <2>5, <2>6, <2>7
<1>3. Before' \subseteq GlyphKeys \X GlyphKeys
  BY DEF Before
<1> HIDE DEF U
<1>4. Before' = U
  <2>1. ASSUME NEW p \in GlyphKeys \X GlyphKeys PROVE p \in Before' <=> p \in U
    <3>1. p = <<p[1], p[2]>> /\ p[1] \in GlyphKeys /\ p[2] \in GlyphKeys
      OBVIOUS
    <3> HIDE DEF Before
    <3> QED
      BY <1>2, <3>1, Zenon
  <2> QED
    BY <1>1, <1>3, <2>1, Zenon
<1> QED
  BY <1>4 DEF U

\* Seen from the methods.
LEMMA MethodsAreLru == Cache!Spec => Cache!ImplementsLru
<1>1. Cache!Init => Cache!Lru!Init
  <2> SUFFICES ASSUME Cache!Init PROVE Cache!Lru!Init
    OBVIOUS
  <2>1. Before = {}
    BY DEF Cache!Init, Before, Cache!Cached
  <2> QED
    BY <2>1 DEF Cache!Init, Cache!Lru!Init, Before
<1>2. CacheInv /\ [Cache!Next]_(Cache!vars) => [Cache!Lru!Next]_(Cache!Lru!lruVars)
  <2> SUFFICES ASSUME CacheInv, [Cache!Next]_(Cache!vars) PROVE [Cache!Lru!Next]_(Cache!Lru!lruVars)
    OBVIOUS
  <2>0. Cache!Lru!Held = Cache!Cached
    BY DEF Cache!Lru!Held, Cache!Cached
  <2>1. ASSUME NEW k \in GlyphKeys, Cache!Hit(k) PROVE Cache!Lru!Hit(k)
    <3>1. k \in Cache!Cached /\ Cache!Touch(k) /\ found' = glyph[k] /\ glyph' = glyph
      BY <2>1 DEF Cache!Hit
    <3>2. Cache!Cached' = Cache!Cached \cup {k}
      BY <3>1 DEF Cache!Cached
    <3>3. Before' = Cache!Lru!UsedLast(k, Cache!Cached)
      BY <3>1, <3>2, Touches, CacheFacts, OrderMoves
    <3> QED
      BY <2>0, <3>1, <3>3 DEF Cache!Lru!Hit, Before
  <2>2. ASSUME NEW k \in GlyphKeys, Cache!Miss(k) PROVE Cache!Lru!Miss(k)
    <3>1. Before' = Before
      BY <2>2 DEF Cache!Miss, Before, Cache!Cached
    <3> QED
      BY <2>0, <2>2, <3>1 DEF Cache!Miss, Cache!Lru!Miss, Before
  <2>3. ASSUME NEW k \in GlyphKeys, NEW g \in Glyphs, Cache!Overwrite(k, g) PROVE Cache!Lru!Put(k, g)
    <3>1. k \in Cache!Cached /\ Cache!Touch(k) /\ found' = found /\ glyph' = [glyph EXCEPT ![k] = g]
      BY <2>3 DEF Cache!Overwrite
    <3>2. Cache!Cached' = Cache!Cached \cup {k}
      BY <3>1, CacheFacts, CacheAssumption DEF Cache!Cached
    <3>3. Before' = Cache!Lru!UsedLast(k, Cache!Cached)
      BY <3>1, <3>2, Touches, CacheFacts, OrderMoves
    <3> QED
      BY <2>0, <3>1, <3>3 DEF Cache!Lru!Put, Before
  <2>4. ASSUME NEW k \in GlyphKeys, NEW g \in Glyphs, Cache!Insert(k, g)
        PROVE  Cache!Lru!Put(k, g) \/ Cache!Lru!Replace(k, g)
    <3>0. PICK gone \in SUBSET Cache!Cached : Inserted(k, g, gone)
      BY <2>4, Inserts
    <3>1. /\ \/ gone = {} /\ Cardinality(Cache!Cached) < MaxEntries
             \/ /\ Cardinality(Cache!Cached) = MaxEntries
                /\ \E old \in Cache!Cached : /\ gone = {old}
                                       /\ \A a \in Cache!Cached \ {old} : stamp[old] < stamp[a]
          /\ glyph' = [x \in GlyphKeys |-> IF x = k THEN g ELSE IF x \in gone THEN NoGlyph ELSE glyph[x]]
          /\ stamp' = [x \in GlyphKeys |-> IF x = k THEN next_seq ELSE IF x \in gone THEN Cache!NoStamp
                                       ELSE stamp[x]]
          /\ order' \in [Cache!Stamps -> GlyphKeys \cup {NoKey}]
          /\ \A x \in GlyphKeys, s \in Cache!Stamps : order'[s] = x <=> stamp'[x] = s
          /\ Cache!Cached' = (Cache!Cached \ gone) \cup {k}
          /\ k \notin Cache!Cached /\ next_seq \in Cache!Stamps
          /\ next_seq' = next_seq + 1 /\ next_seq' \in 0..MaxSeq
          /\ UNCHANGED found
      BY <3>0 DEF Inserted
    <3>5. found' = found /\ k \notin Cache!Cached
      BY <3>1
    <3>2. Before' = Cache!Lru!UsedLast(k, Cache!Cached \ gone)
      BY <3>1, CacheFacts, OrderMoves
    <3>3. CASE gone = {} /\ Cardinality(Cache!Cached) < MaxEntries
      <4>1. glyph' = [glyph EXCEPT ![k] = g]
        BY <3>1, <3>3, CacheFacts
      <4>2. Before' = Cache!Lru!UsedLast(k, Cache!Cached)
        BY <3>2, <3>3
      <4>3. Cache!Lru!Cardinality(Cache!Lru!Held) < MaxEntries
        BY <2>0, <3>3, SameCardinality
      <4>4. Cache!Lru!Put(k, g)
        BY <2>0, <3>5, <4>1, <4>2, <4>3 DEF Cache!Lru!Put, Before
      <4> QED
        BY <4>4
    <3>4. CASE /\ Cardinality(Cache!Cached) = MaxEntries
               /\ \E old \in Cache!Cached : /\ gone = {old}
                                      /\ \A a \in Cache!Cached \ {old} : stamp[old] < stamp[a]
      <4>1. PICK old \in Cache!Cached : /\ gone = {old}
                                  /\ \A a \in Cache!Cached \ {old} : stamp[old] < stamp[a]
        BY <3>4
      <4>2. \A a \in Cache!Cached \ {old} : <<old, a>> \in Before
        BY <4>1, CacheFacts DEF Before
      <4>3. glyph' = [glyph EXCEPT ![old] = NoGlyph, ![k] = g]
        BY <3>1, <4>1, CacheFacts
      <4>4. Before' = Cache!Lru!UsedLast(k, Cache!Cached \ {old})
        BY <3>2, <4>1
      <4>5. Cardinality(Cache!Cached) >= MaxEntries
        BY <3>4, CacheAssumption
      <4>6. k \notin Cache!Lru!Held /\ Cache!Lru!Cardinality(Cache!Lru!Held) >= MaxEntries
        BY <2>0, <3>5, <4>5, SameCardinality
      <4>7. /\ old \in Cache!Lru!Held
            /\ \A a \in Cache!Lru!Held \ {old} : <<old, a>> \in Before
            /\ Before' = Cache!Lru!UsedLast(k, Cache!Lru!Held \ {old})
        BY <2>0, <4>2, <4>4
      <4>8. Cache!Lru!Replace(k, g)
        BY <3>5, <4>3, <4>6, <4>7 DEF Cache!Lru!Replace, Before
      <4> QED
        BY <4>8
    <3> QED
      BY <3>1, <3>3, <3>4
  <2>5. ASSUME Cache!Clear PROVE Cache!Lru!Clear
    <3>1. Cache!Cached' = {}
      BY <2>5 DEF Cache!Clear, Cache!Cached
    <3>2. Before' = {}
      BY <3>1 DEF Before
    <3> QED
      BY <2>5, <3>2 DEF Cache!Clear, Cache!Lru!Clear, Before
  <2>6. ASSUME UNCHANGED Cache!vars PROVE UNCHANGED Cache!Lru!lruVars
    BY <2>6 DEF Cache!vars, Cache!Lru!lruVars, Cache!Cached
  <2> QED
    BY <2>1, <2>2, <2>3, <2>4, <2>5, <2>6 DEF Cache!Next, Cache!Lru!Next
<1> QED
  BY <1>1, <1>2, CacheInvariance, PTL DEF Cache!Spec, Cache!ImplementsLru, Cache!Lru!Spec

\* The recency stamps implement the abstract order of use: what GlyphCache
\* evicts is always the key whose last hit or insertion is the oldest.
THEOREM CacheIsLru == Cache!Spec => ImplementsLru
<1>1. Cache!Cached = Cached /\ Cache!Cached' = Cached'
  BY DEF Cache!Cached, Cached
<1>2. Cache!Lru!Held = Lru!Held /\ \A k, kept : Cache!Lru!UsedLast(k, kept) = Lru!UsedLast(k, kept)
  BY <1>1 DEF Cache!Lru!Held, Lru!Held, Cache!Lru!UsedLast, Lru!UsedLast
<1>3. \A S : Cache!Lru!Cardinality(S) = Lru!Cardinality(S)
  BY DEF Cache!Lru!Cardinality, Lru!Cardinality
<1>4. Cache!Lru!Init => Lru!Init
  BY <1>1 DEF Cache!Lru!Init, Lru!Init
<1>5. [Cache!Lru!Next]_(Cache!Lru!lruVars) => [Lru!Next]_(Lru!lruVars)
  <2>1. \A k \in GlyphKeys : Cache!Lru!Hit(k) => Lru!Hit(k)
    BY <1>1, <1>2 DEF Cache!Lru!Hit, Lru!Hit
  <2>2. \A k \in GlyphKeys : Cache!Lru!Miss(k) => Lru!Miss(k)
    BY <1>1, <1>2 DEF Cache!Lru!Miss, Lru!Miss
  <2>3. \A k \in GlyphKeys, v \in Glyphs : Cache!Lru!Put(k, v) => Lru!Put(k, v)
    BY <1>1, <1>2, <1>3 DEF Cache!Lru!Put, Lru!Put
  <2>4. \A k \in GlyphKeys, v \in Glyphs : Cache!Lru!Replace(k, v) => Lru!Replace(k, v)
    BY <1>1, <1>2, <1>3 DEF Cache!Lru!Replace, Lru!Replace
  <2>5. Cache!Lru!Clear => Lru!Clear
    BY <1>1 DEF Cache!Lru!Clear, Lru!Clear
  <2>6. UNCHANGED Cache!Lru!lruVars => UNCHANGED Lru!lruVars
    BY <1>1 DEF Cache!Lru!lruVars, Lru!lruVars
  <2> QED
    BY <2>1, <2>2, <2>3, <2>4, <2>5, <2>6 DEF Cache!Lru!Next, Lru!Next
<1> QED
  BY <1>4, <1>5, MethodsAreLru, PTL DEF Cache!ImplementsLru, Cache!Lru!Spec, ImplementsLru, Lru!Spec

-----------------------------------------------------------------------------
(***************************************************************************)
(* The object streams.  The workers of PageExtract share them; what a      *)
(* worker is about to do is the frame on top of its stack.  Of the         *)
(* documents nothing is assumed: any table may say anything.               *)
(***************************************************************************)
CONSTANTS Numbers, Root, NoNumber, Bad, Error, Request, Documents, Rotations, Pending

VARIABLES doc, worker, total, out, rotated, serial

Extract == INSTANCE PageExtract

Frames(s) == {s[k] : k \in DOMAIN s}

\* A sequence of frames.
IsStack(s) ==
    /\ s \in Seq(Frames(s))
    /\ \A k \in DOMAIN s : DOMAIN s[k] = {"num", "at"}

\* A worker's record.
Shaped(r) == DOMAIN r = DOMAIN Extract!Idle /\ IsStack(r.stack)

\* The record is at work: nothing is cached now, and nothing taken from the cache.
AtWork(r) == r.stack # <<>> => r.stack[Len(r.stack)].at \notin {"store", "read"}

\* What reading an object comes to.
Goes(r, q) == Shaped(q) /\ AtWork(q) /\ q.job = r.job

\* A function on 1..n is a sequence of its values.
LEMMA FramesAreSeq ==
    ASSUME NEW n \in Nat, NEW s, s = [k \in 1..n |-> s[k]]
    PROVE  s \in Seq(Frames(s)) /\ Len(s) = n
<1> DEFINE E == Frames(s)
<1>1. DOMAIN s = 1..n
  OBVIOUS
<1>2. s \in [1..n -> E]
  BY <1>1 DEF Frames
<1> HIDE DEF E
<1>3. s \in Seq(E)
  BY <1>2, SeqDef
<1> QED
  BY <1>1, <1>3, LenProperties DEF E

\* A record whose stack has been replaced.
LEMMA OneFrame ==
    ASSUME NEW n, NEW s, s = <<Extract!Frame(n)>>
    PROVE  IsStack(s) /\ s # <<>> /\ Len(s) = 1 /\ s[1].at = "entry"
<1>1. Extract!Frame(n) = [num |-> n, at |-> "entry"]
  BY DEF Extract!Frame
<1>2. s \in Seq({Extract!Frame(n)}) /\ Len(s) = 1 /\ DOMAIN s = {1} /\ s[1] = Extract!Frame(n) /\ s # <<>>
  OBVIOUS
<1>3. Frames(s) = {Extract!Frame(n)}
  BY <1>2 DEF Frames
<1>4. DOMAIN s[1] = {"num", "at"} /\ s[1].at = "entry"
  BY <1>1, <1>2
<1> QED
  BY <1>2, <1>3, <1>4 DEF IsStack

\* No calls are left.
LEMMA NoFrames == IsStack(<<>>)
<1>1. <<>> \in Seq(Frames(<<>>)) /\ DOMAIN <<>> = {}
  OBVIOUS
<1> QED
  BY <1>1 DEF IsStack

\* The innermost call has returned.
LEMMA Returned ==
    ASSUME NEW s, IsStack(s), s # <<>>, NEW f, f = Extract!Front(s)
    PROVE  IsStack(f)
<1> DEFINE F == Frames(s)
<1>1. s \in Seq(F) /\ Len(s) \in Nat /\ Len(s) # 0 /\ DOMAIN s = 1..Len(s)
  BY DEF IsStack
<1>2. f = SubSeq(s, 1, Len(s) - 1)
  BY DEF Extract!Front
<1> HIDE DEF F
<1>3. f \in Seq(F) /\ Len(f) = Len(s) - 1 /\ DOMAIN f = 1..Len(f) /\ \A k \in DOMAIN f : f[k] = s[k]
  BY <1>1, <1>2
<1>4. f = [k \in 1..Len(f) |-> f[k]] /\ \A k \in 1..Len(f) : f[k] \in Frames(f)
  BY <1>3 DEF Frames
<1>5. f \in Seq(Frames(f))
  BY <1>1, <1>3, <1>4
<1>6. \A k \in DOMAIN f : DOMAIN f[k] = {"num", "at"}
  BY <1>1, <1>3 DEF IsStack
<1> QED
  BY <1>5, <1>6 DEF IsStack

\* The innermost call has come to another place.
LEMMA MovedTo ==
    ASSUME NEW r, Shaped(r), r.stack # <<>>, NEW place
    PROVE  /\ Shaped(Extract!At(r, place))
           /\ Extract!At(r, place).stack # <<>>
           /\ Len(Extract!At(r, place).stack) = Len(r.stack)
           /\ Extract!At(r, place).stack[Len(r.stack)].at = place
           /\ Extract!At(r, place).stack[Len(r.stack)].num = r.stack[Len(r.stack)].num
           /\ Extract!At(r, place).job = r.job
<1> DEFINE q == Extract!At(r, place)
<1> DEFINE s == r.stack
<1> DEFINE n == Len(s)
<1> DEFINE t == q.stack
<1>1. s \in Seq(Frames(s)) /\ n \in Nat /\ n # 0 /\ DOMAIN s = 1..n /\ s = [k \in 1..n |-> s[k]]
  BY DEF Shaped, IsStack
<1>2. "stack" \in DOMAIN r /\ DOMAIN r = DOMAIN Extract!Idle
  BY DEF Shaped, Extract!Idle
<1>3. t = [s EXCEPT ![n].at = place] /\ DOMAIN q = DOMAIN r /\ q.job = r.job
  BY <1>2 DEF Extract!At
<1> HIDE DEF q, s, n, t
<1>4. DOMAIN t = 1..n /\ t[n] = [s[n] EXCEPT !.at = place] /\ \A k \in 1..n : k # n => t[k] = s[k]
  <2>1. t = [k \in 1..n |-> IF k = n THEN [s[n] EXCEPT !.at = place] ELSE s[k]]
    BY <1>1, <1>3
  <2>2. n \in 1..n
    BY <1>1
  <2> QED
    BY <2>1, <2>2
<1>5. DOMAIN s[n] = {"num", "at"}
  BY <1>1 DEF Shaped, IsStack, s
<1>6. DOMAIN t[n] = {"num", "at"} /\ t[n].at = place /\ t[n].num = s[n].num
  BY <1>4, <1>5
<1>7. \A k \in 1..n : DOMAIN t[k] = {"num", "at"}
  BY <1>1, <1>4, <1>6 DEF Shaped, IsStack, s
<1>8. t = [k \in 1..n |-> t[k]] /\ \A k \in 1..n : t[k] \in Frames(t)
  BY <1>1, <1>3, <1>4 DEF Frames
<1>9. t \in Seq(Frames(t)) /\ Len(t) = n /\ t # <<>>
  <2>1. t \in Seq(Frames(t)) /\ Len(t) = n
    BY <1>1, <1>8, FramesAreSeq
  <2> QED
    BY <1>1, <2>1
<1>10. IsStack(t)
  BY <1>4, <1>7, <1>9 DEF IsStack
<1>11. Shaped(q)
  BY <1>2, <1>3, <1>10 DEF Shaped, t
<1> QED
  BY <1>3, <1>6, <1>9, <1>11 DEF q, s, t, n

\* A call begins on top of the others.
LEMMA Called ==
    ASSUME NEW r, Shaped(r), r.stack # <<>>, NEW place, NEW n
    PROVE  Goes(r, Extract!Call(r, place, n))
<1> DEFINE q == Extract!At(r, place)
<1> DEFINE c == Extract!Call(r, place, n)
<1> DEFINE s == q.stack
<1> DEFINE t == c.stack
<1>1. Shaped(q) /\ q.job = r.job
  BY MovedTo
<1>2. s \in Seq(Frames(s)) /\ Len(s) \in Nat /\ DOMAIN s = 1..Len(s)
      /\ \A k \in DOMAIN s : DOMAIN s[k] = {"num", "at"}
  BY <1>1 DEF Shaped, IsStack
<1>3. "stack" \in DOMAIN q /\ DOMAIN q = DOMAIN Extract!Idle
  BY <1>1 DEF Shaped, Extract!Idle
<1> DEFINE f == Extract!Frame(n)
<1>4. t = Append(s, f) /\ DOMAIN c = DOMAIN q /\ c.job = q.job
  BY <1>3 DEF Extract!Call
<1>5. DOMAIN f = {"num", "at"} /\ f.at = "entry"
  BY DEF Extract!Frame
<1> DEFINE U == Frames(s) \cup {f}
<1>6. s \in Seq(U)
  BY <1>2
<1> HIDE DEF q, c, s, t, f, U
<1>7. f \in U
  BY DEF U
<1>8. /\ Len(t) = Len(s) + 1 /\ DOMAIN t = 1..(Len(s) + 1) /\ t[Len(s) + 1] = f
      /\ \A k \in 1..Len(s) : t[k] = s[k]
      /\ t = [k \in 1..(Len(s) + 1) |-> t[k]]
  <2>1. t \in Seq(U) /\ Len(t) = Len(s) + 1 /\ t[Len(s) + 1] = f /\ \A k \in 1..Len(s) : t[k] = s[k]
    BY <1>4, <1>6, <1>7, AppendProperties
  <2>2. DOMAIN t = 1..(Len(s) + 1) /\ t = [k \in DOMAIN t |-> t[k]]
    BY <2>1
  <2> QED
    BY <2>1, <2>2
<1>9. t \in Seq(Frames(t))
  BY <1>2, <1>8, FramesAreSeq
<1>10. \A k \in DOMAIN t : DOMAIN t[k] = {"num", "at"}
  BY <1>2, <1>5, <1>8
<1>11. Shaped(c)
  BY <1>3, <1>4, <1>9, <1>10 DEF Shaped, IsStack, t
<1>12. AtWork(c)
  BY <1>5, <1>8 DEF AtWork, t
<1> QED
  BY <1>1, <1>4, <1>11, <1>12 DEF Goes, c

\* A record with no calls left, or one just begun, is at work.
LEMMA StackSet ==
    ASSUME NEW r, Shaped(r), NEW q, DOMAIN q = DOMAIN r, q.job = r.job,
           q.stack = <<>> \/ \E n : q.stack = <<Extract!Frame(n)>>
    PROVE  Goes(r, q)
<1>1. CASE q.stack = <<>>
  BY <1>1, NoFrames DEF Goes, Shaped, AtWork
<1>2. ASSUME NEW n, q.stack = <<Extract!Frame(n)>>
      PROVE  Goes(r, q)
  BY <1>2, OneFrame DEF Goes, Shaped, AtWork
<1> QED
  BY <1>1, <1>2

\* The fields of a record.
LEMMA Fields ==
    ASSUME NEW r, Shaped(r)
    PROVE  DOMAIN r = {"job", "walks", "stack", "seen", "at", "todo", "visited", "pages", "content"}
BY DEF Shaped, Extract!Idle

\* The next content stream, or none.
LEMMA ContentGoes ==
    ASSUME NEW r, Shaped(r)
    PROVE  Goes(r, Extract!NextContent(r))
<1> DEFINE q == Extract!NextContent(r)
<1>1. DOMAIN q = DOMAIN r /\ q.job = r.job
  BY Fields DEF Extract!NextContent
<1>2. q.stack = <<>> \/ \E n : q.stack = <<Extract!Frame(n)>>
  BY Fields DEF Extract!NextContent
<1> QED
  BY <1>1, <1>2, StackSet

\* An error.
LEMMA FailedGoes ==
    ASSUME NEW r, Shaped(r)
    PROVE  Goes(r, Extract!Failed(r))
<1>1. CASE r.at = "content"
  BY <1>1, ContentGoes DEF Extract!Failed
<1>2. CASE r.at # "content"
  <2> DEFINE q == Extract!Failed(r)
  <2>1. DOMAIN q = DOMAIN r /\ q.job = r.job /\ q.stack = <<>>
    BY <1>2, Fields DEF Extract!Failed
  <2> QED
    BY <2>1, StackSet
<1> QED
  BY <1>1, <1>2

\* The next kid, or none.
LEMMA KidGoes ==
    ASSUME NEW r, Shaped(r)
    PROVE  Goes(r, Extract!NextKid(r))
<1> DEFINE q == Extract!NextKid(r)
<1>1. DOMAIN q = DOMAIN r /\ q.job = r.job
  BY Fields DEF Extract!NextKid, Extract!GetAndResolve
<1>2. q.stack = <<>> \/ \E n : q.stack = <<Extract!Frame(n)>>
  BY Fields DEF Extract!NextKid, Extract!GetAndResolve
<1> QED
  BY <1>1, <1>2, StackSet

\* What goes on from a record with the same calls goes on from the record.
LEMMA GoesOn ==
    ASSUME NEW r, Shaped(r), NEW q, DOMAIN q = DOMAIN r, q.job = r.job, q.stack = r.stack
    PROVE  Shaped(q) /\ \A x : Goes(q, x) => Goes(r, x)
BY DEF Shaped, Goes

\* An object of the page tree has been read.
LEMMA NodeGoes ==
    ASSUME NEW r, Shaped(r), NEW o
    PROVE  Goes(r, Extract!WalkNode(r, o))
<1>1. ASSUME NEW kids PROVE Goes(r, Extract!NextKid([r EXCEPT !.todo = kids]))
  <2> DEFINE q == [r EXCEPT !.todo = kids]
  <2>1. DOMAIN q = DOMAIN r /\ q.job = r.job /\ q.stack = r.stack
    BY Fields
  <2> HIDE DEF q
  <2> QED
    BY <2>1, GoesOn, KidGoes DEF q
<1>2. ASSUME NEW left, NEW built
      PROVE  Goes(r, Extract!NextKid([r EXCEPT !.todo = left, !.pages = built]))
  <2> DEFINE q == [r EXCEPT !.todo = left, !.pages = built]
  <2>1. DOMAIN q = DOMAIN r /\ q.job = r.job /\ q.stack = r.stack
    BY Fields
  <2> HIDE DEF q
  <2>2. Shaped(q) /\ \A x : Goes(q, x) => Goes(r, x)
    BY <2>1, GoesOn
  <2>3. Goes(q, Extract!NextKid(q))
    BY <2>2, KidGoes
  <2> QED
    BY <2>2, <2>3 DEF q
<1>3. Goes(r, Extract!Failed(r))
  BY FailedGoes
<1> QED
  BY <1>1, <1>2, <1>3, Zenon DEF Extract!WalkNode

\* The catalog has been read.
LEMMA CatalogGoes ==
    ASSUME NEW r, Shaped(r), NEW o
    PROVE  Goes(r, Extract!EnterTree(r, o))
<1>1. ASSUME NEW kids PROVE Goes(r, Extract!NextKid([r EXCEPT !.todo = kids]))
  <2> DEFINE q == [r EXCEPT !.todo = kids]
  <2>1. DOMAIN q = DOMAIN r /\ q.job = r.job /\ q.stack = r.stack
    BY Fields
  <2> HIDE DEF q
  <2> QED
    BY <2>1, GoesOn, KidGoes DEF q
<1>2. Goes(r, Extract!Failed(r))
  BY FailedGoes
<1> QED
  BY <1>1, <1>2, Zenon DEF Extract!EnterTree

\* A content stream has been read.
LEMMA BytesGo ==
    ASSUME NEW r, Shaped(r), NEW o
    PROVE  Goes(r, Extract!AddContent(r, o))
<1>1. ASSUME NEW bytes PROVE Goes(r, Extract!NextContent([r EXCEPT !.content = bytes]))
  <2> DEFINE q == [r EXCEPT !.content = bytes]
  <2>1. DOMAIN q = DOMAIN r /\ q.job = r.job /\ q.stack = r.stack
    BY Fields
  <2> HIDE DEF q
  <2> QED
    BY <2>1, GoesOn, ContentGoes DEF q
<1>2. Goes(r, Extract!NextContent(r))
  BY ContentGoes
<1> QED
  BY <1>1, <1>2, Zenon DEF Extract!AddContent

\* The innermost call returns, whatever it found.
LEMMA ReturnGoes ==
    ASSUME NEW r, Shaped(r), r.stack # <<>>, NEW o
    PROVE  Goes(r, Extract!Return(r, o))
<1> DEFINE callers == Extract!Front(r.stack)
<1> DEFINE back == [r EXCEPT !.stack = callers]
<1>1. IsStack(callers)
  BY Returned DEF Shaped
<1>2. DOMAIN back = DOMAIN r /\ back.job = r.job /\ back.stack = callers
  BY Fields
<1> HIDE DEF back
<1>3. Shaped(back) /\ \A x : Goes(back, x) => Goes(r, x)
  BY <1>1, <1>2 DEF Shaped, Goes
<1>4. ASSUME callers # <<>>, NEW place, place \notin {"store", "read"}
      PROVE  Goes(r, Extract!At(back, place))
  <2> DEFINE q == Extract!At(back, place)
  <2>1. Shaped(q) /\ Len(q.stack) = Len(back.stack) /\ q.stack[Len(back.stack)].at = place /\ q.job = back.job
    BY <1>2, <1>3, <1>4, MovedTo
  <2> HIDE DEF q
  <2> QED
    BY <1>2, <1>4, <2>1 DEF Goes, AtWork, q
<1>5. ASSUME NEW n, NEW s, callers = <<>>
      PROVE  Goes(r, [r EXCEPT !.stack = <<Extract!Frame(n)>>, !.seen = s])
  <2> DEFINE q == [r EXCEPT !.stack = <<Extract!Frame(n)>>, !.seen = s]
  <2>1. DOMAIN q = DOMAIN r /\ q.job = r.job /\ q.stack = <<Extract!Frame(n)>>
    BY Fields
  <2> HIDE DEF q
  <2> QED
    BY <2>1, StackSet DEF q
<1>6. Goes(r, Extract!Failed(r))
  BY FailedGoes
<1>7. /\ Goes(r, Extract!AddContent(r, o)) /\ Goes(r, Extract!EnterTree(r, o))
      /\ Goes(r, Extract!WalkNode(r, o))
  BY BytesGo, CatalogGoes, NodeGoes
<1>8. CASE callers # <<>> /\ Extract!Last(callers).at = "length"
  <2>1. Goes(r, Extract!At(back, "whole"))
    BY <1>4, <1>8
  <2>2. Extract!Return(r, o) = IF o.kind = "int" THEN Extract!At(back, "whole") ELSE Extract!Failed(r)
    BY <1>8 DEF Extract!Return, back
  <2> QED
    BY <1>6, <2>1, <2>2
<1>9. CASE callers # <<>> /\ Extract!Last(callers).at = "parse"
  <2>1. Goes(r, Extract!At(back, "parsed"))
    BY <1>4, <1>9
  <2>2. Extract!Return(r, o) = IF o.kind = "objstm" /\ o.cipher = "clear"
                               THEN Extract!At(back, "parsed") ELSE Extract!Failed(r)
    BY <1>9 DEF Extract!Return, back
  <2> QED
    BY <1>6, <2>1, <2>2
<1>10. CASE callers = <<>> /\ r.at = "content"
  BY <1>7, <1>10 DEF Extract!Return
<1>11. CASE callers = <<>> /\ r.at # "content" /\ o.kind = "ref"
  <2>1. Extract!Return(r, o) =
          IF o.to \in r.seen THEN Extract!Failed(r)
          ELSE [r EXCEPT !.stack = <<Extract!Frame(o.to)>>, !.seen = @ \cup {o.to}]
    BY <1>11 DEF Extract!Return
  <2>2. Goes(r, [r EXCEPT !.stack = <<Extract!Frame(o.to)>>, !.seen = r.seen \cup {o.to}])
    BY <1>5, <1>11
  <2> QED
    BY <1>6, <2>1, <2>2
<1>12. CASE callers = <<>> /\ r.at = "catalog" /\ o.kind # "ref"
  BY <1>7, <1>12 DEF Extract!Return
<1>13. CASE /\ ~(callers # <<>> /\ Extract!Last(callers).at \in {"length", "parse"})
            /\ ~(callers = <<>> /\ (r.at \in {"content", "catalog"} \/ o.kind = "ref"))
  <2>1. Extract!Return(r, o) = Extract!WalkNode(r, o)
    BY <1>13 DEF Extract!Return
  <2> QED
    BY <1>7, <2>1
<1> QED
  BY <1>8, <1>9, <1>10, <1>11, <1>12, <1>13

\* A walk over the page tree begins.
LEMMA WalkGoes ==
    ASSUME NEW r, Shaped(r)
    PROVE  Goes(r, Extract!StartWalk(r))
<1> DEFINE q == Extract!StartWalk(r)
<1>1. DOMAIN q = DOMAIN r /\ q.job = r.job /\ q.stack = <<Extract!Frame(Root)>>
  BY Fields DEF Extract!StartWalk, Extract!GetAndResolve
<1> HIDE DEF q
<1> QED
  BY <1>1, StackSet DEF q

\* A worker that waits.
LEMMA IdleIs == Shaped(Extract!Idle) /\ AtWork(Extract!Idle) /\ Extract!Idle.stack = <<>> /\ Extract!Idle.job = -1
<1>1. Extract!Idle.stack = <<>> /\ Extract!Idle.job = -1
  BY DEF Extract!Idle
<1> QED
  BY <1>1, NoFrames DEF Shaped, AtWork

\* A worker that waits begins a job.
LEMMA BeginsJob ==
    ASSUME NEW j, NEW n, NEW q, q = Extract!StartWalk([Extract!Idle EXCEPT !.job = j, !.walks = n])
    PROVE  Shaped(q) /\ AtWork(q) /\ q.job = j
<1> DEFINE r == [Extract!Idle EXCEPT !.job = j, !.walks = n]
<1>1. DOMAIN r = DOMAIN Extract!Idle /\ r.job = j /\ r.stack = Extract!Idle.stack
  BY DEF Extract!Idle
<1>2. Shaped(r)
  BY <1>1, IdleIs DEF Shaped
<1> HIDE DEF r
<1>3. Goes(r, Extract!StartWalk(r))
  BY <1>2, WalkGoes
<1> QED
  BY <1>1, <1>3 DEF Goes, r

\* A walk that has ended gives a result, or the worker goes on with its job.
LEMMA EndWalkIs ==
    ASSUME NEW w \in Workers, Shaped(worker[w]), Extract!EndWalk(w)
    PROVE  /\ worker[w].job >= 0 /\ worker[w].stack = <<>>
           /\ cache' = cache /\ writer' = writer /\ doc' = doc
           /\ \/ \E result :
                    /\ worker' = [worker EXCEPT ![w] = Extract!Idle]
                    /\ out' = IF worker[w].job = 0 THEN out ELSE [out EXCEPT ![worker[w].job] = result]
              \/ \E q : Goes(worker[w], q) /\ worker' = [worker EXCEPT ![w] = q] /\ out' = out
<1> DEFINE r == worker[w]
<1> DEFINE number == Request[r.job]
<1> DEFINE Finishes(result) ==
      /\ worker' = [worker EXCEPT ![w] = Extract!Idle]
      /\ out' = IF r.job = 0 THEN out ELSE [out EXCEPT ![r.job] = result]
<1> DEFINE Continues(q) == worker' = [worker EXCEPT ![w] = q] /\ out' = out
<1> DEFINE page == [r EXCEPT !.at = "content", !.todo = r.pages[number].contents,
                             !.stack = <<Extract!Frame(r.pages[number].contents[1])>>]
<1> DEFINE again == Extract!StartWalk([r EXCEPT !.walks = @ - 1])
<1>1. r.job >= 0 /\ r.stack = <<>> /\ cache' = cache /\ writer' = writer /\ doc' = doc
  BY DEF Extract!EndWalk, Extract!Count
<1>2. (\E result : Finishes(result)) \/ Continues(page) \/ Continues(again)
  <2>1. CASE r.at = "failed"
    BY <2>1 DEF Extract!EndWalk, Extract!Count
  <2>2. CASE r.at = "walked" /\ r.job = 0
    BY <2>2 DEF Extract!EndWalk, Extract!Count
  <2>3. CASE r.at = "walked" /\ r.job > 0 /\ number > Len(r.pages)
    BY <2>3 DEF Extract!EndWalk, Extract!Count
  <2>4. CASE r.at = "walked" /\ r.job > 0 /\ number <= Len(r.pages) /\ r.walks = 3
             /\ r.pages[number].contents # <<>>
    BY <2>4 DEF Extract!EndWalk, Extract!Count
  <2>5. CASE r.at = "walked" /\ r.job > 0 /\ number <= Len(r.pages) /\ r.walks = 1
    BY <2>5 DEF Extract!EndWalk, Extract!Count
  <2>6. CASE /\ ~(r.at = "failed")
             /\ ~(r.at = "walked" /\ r.job = 0)
             /\ ~(r.at = "walked" /\ r.job > 0 /\ number > Len(r.pages))
             /\ ~(r.at = "walked" /\ r.job > 0 /\ number <= Len(r.pages) /\ r.walks = 3
                  /\ r.pages[number].contents # <<>>)
             /\ ~(r.at = "walked" /\ r.job > 0 /\ number <= Len(r.pages) /\ r.walks = 1)
    BY <2>6 DEF Extract!EndWalk, Extract!Count
  <2> QED
    BY <2>1, <2>2, <2>3, <2>4, <2>5, <2>6
<1>3. Goes(r, page)
  <2>1. DOMAIN page = DOMAIN r /\ page.job = r.job /\ \E n : page.stack = <<Extract!Frame(n)>>
    BY Fields
  <2> HIDE DEF page
  <2> QED
    BY <2>1, StackSet
<1>4. Goes(r, again)
  <2> DEFINE q == [r EXCEPT !.walks = @ - 1]
  <2>1. DOMAIN q = DOMAIN r /\ q.job = r.job /\ q.stack = r.stack
    BY Fields
  <2> HIDE DEF q
  <2>2. Shaped(q) /\ \A x : Goes(q, x) => Goes(r, x)
    BY <2>1, GoesOn
  <2>3. Goes(q, Extract!StartWalk(q))
    BY <2>2, WalkGoes
  <2> QED
    BY <2>2, <2>3 DEF q
<1> QED
  BY <1>1, <1>2, <1>3, <1>4

-----------------------------------------------------------------------------
\* The worker's innermost call is at a place.
Holds(r, place) == r.stack # <<>> /\ r.stack[Len(r.stack)].at = place

\* The object stream the worker's innermost call is about.
Wanted(d, r) == d.entry[r.stack[Len(r.stack)].num].stream

\* The inductive invariant: what is cached is what a stream holds, the write
\* lock is held exactly by the worker that stores, and who wants to take an
\* object from the cache finds its stream there.
StreamInv ==
    /\ \A s \in DOMAIN cache : cache[s] = Extract!ParsedStream(doc, s)
    /\ DOMAIN worker = Workers
    /\ \A w \in Workers : Shaped(worker[w])
    /\ \A w \in Workers : writer = w <=> Holds(worker[w], "store")
    /\ \A w \in Workers : Holds(worker[w], "read") => Wanted(doc, worker[w]) \in DOMAIN cache

\* Jobs are not shared, and the slot of a page is empty while its job lasts.
JobInv ==
    /\ \A w \in Workers : worker[w].job \in {-1, 0} \cup DOMAIN Request
    /\ \A v, w \in Workers : v # w /\ worker[v].job = worker[w].job => worker[w].job = -1
    /\ \A w \in Workers : worker[w].job > 0 => out[worker[w].job] = Pending
    /\ DOMAIN out = DOMAIN Request

\* A worker that neither stores nor takes goes on to do neither.
LEMMA WorkStep ==
    ASSUME StreamInv, NEW w \in Workers, ~Holds(worker[w], "store"),
           NEW q, Shaped(q), AtWork(q), worker' = [worker EXCEPT ![w] = q],
           cache' = cache, writer' = writer, doc' = doc
    PROVE  StreamInv'
<1>1. DOMAIN worker' = Workers /\ worker'[w] = q /\ \A v \in Workers : v # w => worker'[v] = worker[v]
  BY DEF StreamInv
<1>2. ~Holds(q, "store") /\ ~Holds(q, "read")
  BY DEF Holds, AtWork
<1>3. \A v \in Workers : Shaped(worker'[v])
  BY <1>1 DEF StreamInv
<1>4. ASSUME NEW v \in Workers PROVE writer' = v <=> Holds(worker'[v], "store")
  BY <1>1, <1>2 DEF StreamInv
<1>5. ASSUME NEW v \in Workers, Holds(worker'[v], "read")
      PROVE  Wanted(doc', worker'[v]) \in DOMAIN cache'
  <2>1. v # w
    BY <1>1, <1>2, <1>5
  <2> QED
    BY <1>1, <1>5, <2>1 DEF StreamInv, Wanted
<1>6. \A s \in DOMAIN cache' : cache'[s] = Extract!ParsedStream(doc', s)
  BY DEF StreamInv
<1>7. \A s \in DOMAIN cache' : cache'[s] = Extract!ParsedStream(doc, s)'
  BY <1>6 DEF Extract!ParsedStream
<1>8. \A v \in Workers : writer' = v <=> Holds(worker[v], "store")'
  BY <1>4 DEF Holds
<1>9. \A v \in Workers : Holds(worker[v], "read")' => Wanted(doc, worker[v])' \in DOMAIN cache'
  BY <1>5 DEF Holds, Wanted
<1>10. \A v \in Workers : Shaped(worker[v])'
  BY <1>3 DEF Shaped, IsStack, Frames
<1> QED
  BY <1>1, <1>7, <1>8, <1>9, <1>10 DEF StreamInv

\* The write lock is taken by a worker that has parsed its stream.
LEMMA LockStep ==
    ASSUME StreamInv, NEW w \in Workers, Extract!LockCache(w)
    PROVE  StreamInv'
<1> DEFINE r == worker[w]
<1> DEFINE q == Extract!At(r, "store")
<1>1. /\ r.stack # <<>> /\ writer = Nobody /\ writer' = w
      /\ worker' = [worker EXCEPT ![w] = q] /\ cache' = cache /\ doc' = doc
  BY DEF Extract!LockCache, Extract!Running, Extract!Acquire, Extract!Unlocked
<1>2. Shaped(q) /\ Holds(q, "store") /\ ~Holds(q, "read")
  <2>1. /\ Shaped(q) /\ q.stack # <<>> /\ Len(q.stack) = Len(r.stack)
        /\ q.stack[Len(r.stack)].at = "store"
    BY <1>1, MovedTo DEF StreamInv
  <2> HIDE DEF q, r
  <2> QED
    BY <2>1 DEF Holds
<1> HIDE DEF q
<1>3. DOMAIN worker' = Workers /\ worker'[w] = q /\ \A v \in Workers : v # w => worker'[v] = worker[v]
  BY <1>1 DEF StreamInv
<1>4. ASSUME NEW v \in Workers PROVE writer' = v <=> Holds(worker'[v], "store")
  BY <1>1, <1>2, <1>3, StreamAssumption DEF StreamInv
<1>5. ASSUME NEW v \in Workers, Holds(worker'[v], "read")
      PROVE  Wanted(doc', worker'[v]) \in DOMAIN cache'
  <2>1. v # w
    BY <1>2, <1>3, <1>5
  <2> QED
    BY <1>1, <1>3, <1>5, <2>1 DEF StreamInv
<1>6. \A s \in DOMAIN cache' : cache'[s] = Extract!ParsedStream(doc, s)'
  BY <1>1 DEF StreamInv, Extract!ParsedStream
<1>7. \A v \in Workers : Shaped(worker'[v])
  BY <1>2, <1>3 DEF StreamInv
<1>8. \A v \in Workers : writer' = v <=> Holds(worker[v], "store")'
  BY <1>4 DEF Holds
<1>9. \A v \in Workers : Holds(worker[v], "read")' => Wanted(doc, worker[v])' \in DOMAIN cache'
  BY <1>5 DEF Holds, Wanted
<1>10. \A v \in Workers : Shaped(worker[v])'
  BY <1>7 DEF Shaped, IsStack, Frames
<1> QED
  BY <1>3, <1>6, <1>8, <1>9, <1>10 DEF StreamInv

\* What storing a stream does to the cache.
LEMMA StoredIs ==
    ASSUME NEW w \in Workers, NEW s, NEW parsed, Store(w, s, parsed)
    PROVE  /\ writer = w /\ writer' = Nobody
           /\ DOMAIN cache' = {s} \cup DOMAIN cache
           /\ cache'[s] = parsed
           /\ \A t \in DOMAIN cache : t # s => cache'[t] = cache[t]
BY DEF Store

\* The stream is stored, and the lock let go.
LEMMA StoreStep ==
    ASSUME StreamInv, NEW w \in Workers, Extract!StoreParsed(w)
    PROVE  /\ StreamInv'
           /\ \A s \in DOMAIN cache : s \in DOMAIN cache' /\ cache'[s] = cache[s]
<1> DEFINE r == worker[w]
<1> DEFINE q == Extract!At(r, "read")
<1> DEFINE s == Wanted(doc, r)
<1>0. r.stack # <<>> /\ r.stack \in Seq(Frames(r.stack))
  BY DEF Extract!StoreParsed, Extract!Running, StreamInv, Shaped, IsStack
<1>1. /\ Store(w, s, Extract!ParsedStream(doc, s))
      /\ worker' = [worker EXCEPT ![w] = q] /\ doc' = doc
  BY DEF Extract!StoreParsed, Extract!Store, Store, Wanted, Extract!StreamOf, Extract!Top, Extract!Last
<1>2. /\ writer = w /\ writer' = Nobody
      /\ DOMAIN cache' = {s} \cup DOMAIN cache
      /\ cache'[s] = Extract!ParsedStream(doc, s)
      /\ \A t \in DOMAIN cache : t # s => cache'[t] = cache[t]
  BY <1>1, StoredIs
<1>3. Shaped(q) /\ ~Holds(q, "store") /\ Wanted(doc, q) = s
  <2>1. /\ Shaped(q) /\ Len(q.stack) = Len(r.stack) /\ q.stack[Len(r.stack)].at = "read"
        /\ q.stack[Len(r.stack)].num = r.stack[Len(r.stack)].num
    BY <1>0, MovedTo DEF StreamInv
  <2> HIDE DEF q, r
  <2> QED
    BY <2>1 DEF Holds, Wanted
<1> HIDE DEF q, s
<1>4. DOMAIN worker' = Workers /\ worker'[w] = q /\ \A v \in Workers : v # w => worker'[v] = worker[v]
  BY <1>1 DEF StreamInv
<1>5. ASSUME NEW v \in Workers PROVE writer' = v <=> Holds(worker'[v], "store")
  BY <1>2, <1>3, <1>4, StreamAssumption DEF StreamInv
<1>6. ASSUME NEW v \in Workers, Holds(worker'[v], "read")
      PROVE  Wanted(doc', worker'[v]) \in DOMAIN cache'
  <2>1. CASE v = w
    BY <1>1, <1>2, <1>3, <1>4, <2>1
  <2>2. CASE v # w
    BY <1>1, <1>2, <1>4, <1>6, <2>2 DEF StreamInv
  <2> QED
    BY <2>1, <2>2
<1>7. \A t \in DOMAIN cache' : cache'[t] = Extract!ParsedStream(doc, t)
  BY <1>2 DEF StreamInv
<1>8. \A t \in DOMAIN cache' : cache'[t] = Extract!ParsedStream(doc, t)'
  BY <1>1, <1>7 DEF Extract!ParsedStream
<1>9. \A v \in Workers : Shaped(worker'[v])
  BY <1>3, <1>4 DEF StreamInv
<1>10. \A v \in Workers : writer' = v <=> Holds(worker[v], "store")'
  BY <1>5 DEF Holds
<1>11. \A v \in Workers : Holds(worker[v], "read")' => Wanted(doc, worker[v])' \in DOMAIN cache'
  BY <1>6 DEF Holds, Wanted
<1>12. \A v \in Workers : Shaped(worker[v])'
  BY <1>9 DEF Shaped, IsStack, Frames
<1>13. StreamInv'
  BY <1>4, <1>8, <1>10, <1>11, <1>12 DEF StreamInv
<1>14. \A t \in DOMAIN cache : t \in DOMAIN cache' /\ cache'[t] = cache[t]
  BY <1>2, <1>7 DEF StreamInv
<1> QED
  BY <1>13, <1>14

\* The cache is asked for a stream.
LEMMA AskStep ==
    ASSUME StreamInv, NEW w \in Workers, Extract!AskCache(w)
    PROVE  StreamInv'
<1> DEFINE r == worker[w]
<1> DEFINE q == Extract!At(r, "read")
<1> DEFINE s == Wanted(doc, r)
<1> DEFINE c == Extract!Call(r, "parse", s)
<1>1. /\ r.stack # <<>> /\ r.stack[Len(r.stack)].at = "look" /\ Shaped(r)
      /\ worker' = [worker EXCEPT ![w] = IF s \in DOMAIN cache THEN q ELSE c]
      /\ cache' = cache /\ writer' = writer /\ doc' = doc
  BY DEF Extract!AskCache, Extract!Running, Extract!StreamOf, Extract!Top, Extract!Last, Wanted, StreamInv
<1>2. ~Holds(r, "store")
  BY <1>1 DEF Holds
<1>3. CASE s \notin DOMAIN cache
  <2>1. Goes(r, c)
    BY <1>1, Called
  <2> HIDE DEF c, r, s
  <2> QED
    BY <1>1, <1>2, <1>3, <2>1, WorkStep DEF Goes, r
<1>4. CASE s \in DOMAIN cache
  <2>1. Shaped(q) /\ ~Holds(q, "store") /\ Wanted(doc, q) = s
    <3>1. /\ Shaped(q) /\ Len(q.stack) = Len(r.stack) /\ q.stack[Len(r.stack)].at = "read"
          /\ q.stack[Len(r.stack)].num = r.stack[Len(r.stack)].num
      BY <1>1, MovedTo
    <3> HIDE DEF q, r
    <3> QED
      BY <3>1 DEF Holds, Wanted
  <2> HIDE DEF q, s
  <2>2. DOMAIN worker' = Workers /\ worker'[w] = q /\ \A v \in Workers : v # w => worker'[v] = worker[v]
    BY <1>1, <1>4 DEF StreamInv
  <2>3. ASSUME NEW v \in Workers PROVE writer' = v <=> Holds(worker'[v], "store")
    BY <1>1, <1>2, <2>1, <2>2 DEF StreamInv
  <2>4. ASSUME NEW v \in Workers, Holds(worker'[v], "read")
        PROVE  Wanted(doc', worker'[v]) \in DOMAIN cache'
    <3>1. CASE v = w
      BY <1>1, <1>4, <2>1, <2>2, <3>1
    <3>2. CASE v # w
      BY <1>1, <2>2, <2>4, <3>2 DEF StreamInv
    <3> QED
      BY <3>1, <3>2
  <2>5. \A t \in DOMAIN cache' : cache'[t] = Extract!ParsedStream(doc, t)'
    <3>1. cache' = cache /\ doc' = doc
      BY <1>1
    <3>2. \A t : Extract!ParsedStream(doc, t)' = Extract!ParsedStream(doc, t)
      BY <3>1 DEF Extract!ParsedStream
    <3> QED
      BY <3>1, <3>2 DEF StreamInv
  <2>6. \A v \in Workers : Shaped(worker'[v])
    BY <2>1, <2>2 DEF StreamInv
  <2>7. \A v \in Workers : writer' = v <=> Holds(worker[v], "store")'
    BY <2>3 DEF Holds
  <2>8. \A v \in Workers : Holds(worker[v], "read")' => Wanted(doc, worker[v])' \in DOMAIN cache'
    BY <2>4 DEF Holds, Wanted
  <2>9. \A v \in Workers : Shaped(worker[v])'
    BY <2>6 DEF Shaped, IsStack, Frames
  <2> QED
    BY <2>2, <2>5, <2>7, <2>8, <2>9 DEF StreamInv
<1> QED
  BY <1>3, <1>4

\* The invariant is about four variables only.
LEMMA StillStep ==
    ASSUME StreamInv, cache' = cache, writer' = writer, doc' = doc, worker' = worker
    PROVE  StreamInv'
<1>1. \A s \in DOMAIN cache' : cache'[s] = Extract!ParsedStream(doc, s)'
  BY DEF StreamInv, Extract!ParsedStream
<1>2. \A v \in Workers : Shaped(worker[v])'
  <2>1. \A v \in Workers : Shaped(worker'[v])
    BY DEF StreamInv
  <2> QED
    BY <2>1 DEF Shaped, IsStack, Frames
<1>3. \A v \in Workers : writer' = v <=> Holds(worker[v], "store")'
  BY DEF StreamInv, Holds
<1>4. \A v \in Workers : Holds(worker[v], "read")' => Wanted(doc, worker[v])' \in DOMAIN cache'
  BY DEF StreamInv, Holds, Wanted
<1>5. DOMAIN worker' = Workers
  BY DEF StreamInv
<1> QED
  BY <1>1, <1>2, <1>3, <1>4, <1>5 DEF StreamInv

\* An object is returned, or missing.
LEMMA ReadStep ==
    ASSUME StreamInv, NEW w \in Workers,
           Extract!LookUp(w) \/ Extract!ReadWhole(w) \/ Extract!ReadPacked(w)
    PROVE  /\ StreamInv' /\ out' = out
           /\ \E q : q.job = worker[w].job /\ worker' = [worker EXCEPT ![w] = q]
           /\ cache' = cache
<1> DEFINE r == worker[w]
<1>1. /\ r.stack # <<>> /\ Shaped(r) /\ cache' = cache /\ writer' = writer /\ doc' = doc /\ out' = out
      /\ r.stack[Len(r.stack)].at \in {"entry", "whole", "read"}
  BY DEF Extract!LookUp, Extract!ReadWhole, Extract!ReadPacked, Extract!Running, Extract!Top,
         Extract!Last, StreamInv
<1>2. ~Holds(r, "store")
  BY <1>1 DEF Holds
<1>3. \A o : Goes(r, Extract!Return(r, o))
  BY <1>1, ReturnGoes
<1>4. Goes(r, Extract!Failed(r)) /\ \A place, n : Goes(r, Extract!Call(r, place, n))
  BY <1>1, FailedGoes, Called
<1>5. Goes(r, Extract!At(r, "look"))
  <2> DEFINE q == Extract!At(r, "look")
  <2>1. /\ Shaped(q) /\ q.job = r.job /\ Len(q.stack) = Len(r.stack)
        /\ q.stack[Len(r.stack)].at = "look"
    BY <1>1, MovedTo
  <2> HIDE DEF q, r
  <2> QED
    BY <2>1 DEF Goes, AtWork, q
<1>6. \E q : Goes(r, q) /\ worker' = [worker EXCEPT ![w] = q]
  <2>1. CASE Extract!LookUp(w)
    <3> DEFINE n == Extract!Top(w).num
    <3>1. \/ worker' = [worker EXCEPT ![w] = Extract!Failed(r)]
          \/ worker' = [worker EXCEPT ![w] = Extract!At(r, "look")]
          \/ worker' = [worker EXCEPT ![w] = Extract!Call(r, "length", doc.length[n])]
          \/ worker' = [worker EXCEPT ![w] = Extract!Return(r, Extract!Decrypt(Extract!InFile(n)))]
      <4>1. CASE doc.entry[n].kind = "free"
        BY <2>1, <4>1 DEF Extract!LookUp
      <4>2. CASE doc.entry[n].kind = "packed"
        BY <2>1, <4>2 DEF Extract!LookUp
      <4>3. CASE doc.entry[n].kind = "plain" /\ doc.length[n] # NoNumber
        BY <2>1, <4>3 DEF Extract!LookUp
      <4>4. CASE /\ doc.entry[n].kind \notin {"free", "packed"}
                 /\ ~(doc.entry[n].kind = "plain" /\ doc.length[n] # NoNumber)
        BY <2>1, <4>4 DEF Extract!LookUp
      <4> QED
        BY <4>1, <4>2, <4>3, <4>4
    <3> QED
      BY <1>3, <1>4, <1>5, <3>1
  <2>2. CASE Extract!ReadWhole(w)
    BY <1>3, <2>2 DEF Extract!ReadWhole
  <2>3. CASE Extract!ReadPacked(w)
    <3> DEFINE n == Extract!Top(w).num
    <3> DEFINE s == Extract!StreamOf(n)
    <3>1. \/ worker' = [worker EXCEPT ![w] = Extract!Failed(r)]
          \/ worker' = [worker EXCEPT ![w] = Extract!Return(r, cache[s][n].obj)]
      BY <2>3 DEF Extract!ReadPacked
    <3> QED
      BY <1>3, <1>4, <3>1
  <2> QED
    BY <2>1, <2>2, <2>3
<1>7. PICK q : Goes(r, q) /\ worker' = [worker EXCEPT ![w] = q]
  BY <1>6
<1>8. StreamInv'
  BY <1>1, <1>2, <1>7, WorkStep DEF Goes
<1> QED
  BY <1>1, <1>7, <1>8 DEF Goes

\* A worker that waits begins the count, or a page, or finds its number out of range.
LEMMA BeginStep ==
    ASSUME StreamInv, NEW w \in Workers, Extract!StartCount(w) \/ Extract!TakePage(w)
    PROVE  /\ StreamInv' /\ cache' = cache
           /\ \/ /\ \A v \in Workers : worker[v] = Extract!Idle
                 /\ \E q : q.job = 0 /\ worker' = [worker EXCEPT ![w] = q]
                 /\ out' = out
              \/ \E i \in DOMAIN Request :
                    /\ worker[w] = Extract!Idle /\ out[i] = Pending
                    /\ \A v \in Workers : worker[v].job # i
                    /\ \/ out' = out /\ \E q : q.job = i /\ worker' = [worker EXCEPT ![w] = q]
                       \/ out' = [out EXCEPT ![i] = Error] /\ worker' = worker
<1>1. /\ worker[w] = Extract!Idle /\ cache' = cache /\ writer' = writer /\ doc' = doc
  BY DEF Extract!StartCount, Extract!TakePage
<1>2. ~Holds(worker[w], "store")
  BY <1>1, IdleIs DEF Holds
<1>3. ASSUME NEW j, NEW n,
             worker' = [worker EXCEPT ![w] =
                          Extract!StartWalk([Extract!Idle EXCEPT !.job = j, !.walks = n])]
      PROVE  StreamInv' /\ \E q : q.job = j /\ worker' = [worker EXCEPT ![w] = q]
  <2> DEFINE q == Extract!StartWalk([Extract!Idle EXCEPT !.job = j, !.walks = n])
  <2>1. Shaped(q) /\ AtWork(q) /\ q.job = j
    BY BeginsJob
  <2>2. worker' = [worker EXCEPT ![w] = q]
    BY <1>3
  <2> HIDE DEF q
  <2> QED
    BY <1>1, <1>2, <2>1, <2>2, WorkStep
<1>4. CASE Extract!StartCount(w)
  <2>1. /\ worker' = [worker EXCEPT ![w] =
                        Extract!StartWalk([Extract!Idle EXCEPT !.job = 0, !.walks = 1])]
        /\ out' = out /\ \A v \in Workers : worker[v] = Extract!Idle
    BY <1>4 DEF Extract!StartCount, Extract!Count
  <2> QED
    BY <1>1, <1>3, <2>1
<1>5. CASE Extract!TakePage(w)
  <2>1. PICK i \in DOMAIN Request :
          /\ out[i] = Pending
          /\ \A v \in Workers : worker[v].job # i
          /\ \/ /\ worker' = [worker EXCEPT ![w] =
                                Extract!StartWalk([Extract!Idle EXCEPT !.job = i, !.walks = 4])]
                /\ out' = out
             \/ out' = [out EXCEPT ![i] = Error] /\ worker' = worker
    BY <1>5 DEF Extract!TakePage
  <2>2. CASE worker' = [worker EXCEPT ![w] =
                          Extract!StartWalk([Extract!Idle EXCEPT !.job = i, !.walks = 4])]
             /\ out' = out
    BY <1>1, <1>3, <2>1, <2>2
  <2>3. CASE out' = [out EXCEPT ![i] = Error] /\ worker' = worker
    <3>1. StreamInv'
      BY <1>1, <2>3, StillStep
    <3> QED
      BY <1>1, <2>1, <2>3, <3>1
  <2> QED
    BY <2>1, <2>2, <2>3
<1> QED
  BY <1>4, <1>5

\* A walk has ended.
LEMMA EndStep ==
    ASSUME StreamInv, NEW w \in Workers, Extract!EndWalk(w)
    PROVE  StreamInv'
<1>1. /\ worker[w].job >= 0 /\ worker[w].stack = <<>>
      /\ cache' = cache /\ writer' = writer /\ doc' = doc
      /\ \/ worker' = [worker EXCEPT ![w] = Extract!Idle]
         \/ \E q : Goes(worker[w], q) /\ worker' = [worker EXCEPT ![w] = q]
  BY EndWalkIs DEF StreamInv
<1>2. ~Holds(worker[w], "store")
  BY <1>1 DEF Holds
<1>3. PICK q : Shaped(q) /\ AtWork(q) /\ worker' = [worker EXCEPT ![w] = q]
  BY <1>1, IdleIs DEF Goes
<1> QED
  BY <1>1, <1>2, <1>3, WorkStep

\* Every step keeps the invariant, and what is cached.
LEMMA StreamStep ==
    ASSUME StreamInv, [Extract!Next]_(Extract!vars)
    PROVE  StreamInv' /\ \A s \in DOMAIN cache : s \in DOMAIN cache' /\ cache'[s] = cache[s]
<1>1. ASSUME NEW w \in Workers, Extract!WorkerStep(w)
      PROVE  StreamInv' /\ \A s \in DOMAIN cache : s \in DOMAIN cache' /\ cache'[s] = cache[s]
  <2>1. CASE Extract!LookUp(w) \/ Extract!ReadWhole(w) \/ Extract!ReadPacked(w)
    BY <2>1, ReadStep
  <2>2. CASE Extract!AskCache(w)
    <3>1. cache' = cache
      BY <2>2 DEF Extract!AskCache
    <3> QED
      BY <2>2, <3>1, AskStep
  <2>3. CASE Extract!LockCache(w)
    <3>1. cache' = cache
      BY <2>3 DEF Extract!LockCache
    <3> QED
      BY <2>3, <3>1, LockStep
  <2>4. CASE Extract!StoreParsed(w)
    BY <2>4, StoreStep
  <2>5. CASE Extract!StartCount(w) \/ Extract!TakePage(w)
    BY <2>5, BeginStep
  <2>6. CASE Extract!EndWalk(w)
    <3>1. cache' = cache
      BY <2>6 DEF Extract!EndWalk
    <3> QED
      BY <2>6, <3>1, EndStep
  <2> QED
    BY <1>1, <2>1, <2>2, <2>3, <2>4, <2>5, <2>6 DEF Extract!WorkerStep
<1>2. CASE Extract!RotatePages \/ Extract!Done \/ UNCHANGED Extract!vars
  <2>1. cache' = cache /\ writer' = writer /\ doc' = doc /\ worker' = worker
    BY <1>2 DEF Extract!RotatePages, Extract!Done, Extract!vars
  <2>2. StreamInv'
    BY <2>1, StillStep
  <2> QED
    BY <2>1, <2>2
<1> QED
  BY <1>1, <1>2 DEF Extract!Next

\* Nothing is cached at first, and nobody works.
LEMMA StreamInit == Extract!Init => StreamInv
<1> SUFFICES ASSUME Extract!Init PROVE StreamInv
  OBVIOUS
<1>1. /\ cache = <<>> /\ writer = Nobody /\ DOMAIN worker = Workers
      /\ \A w \in Workers : worker[w] = Extract!Idle
  BY DEF Extract!Init
<1>2. DOMAIN cache = {}
  BY <1>1
<1>3. \A w \in Workers : Shaped(worker[w]) /\ ~Holds(worker[w], "store") /\ ~Holds(worker[w], "read")
  BY <1>1, IdleIs DEF Holds
<1>4. \A w \in Workers : writer # w
  BY <1>1, StreamAssumption
<1> QED
  BY <1>1, <1>2, <1>3, <1>4 DEF StreamInv

\* A worker that keeps its job keeps the others from it.
LEMMA SameJobs ==
    ASSUME JobInv, StreamInv, \A v \in Workers : worker'[v].job = worker[v].job, out' = out
    PROVE  JobInv'
BY DEF JobInv

\* What a step changes of one worker's job.
LEMMA OneJob ==
    ASSUME StreamInv, NEW w \in Workers, NEW q, worker' = [worker EXCEPT ![w] = q]
    PROVE  worker'[w] = q /\ \A v \in Workers : v # w => worker'[v] = worker[v]
BY DEF StreamInv

\* Every step keeps jobs apart, and a slot that was written stays.
LEMMA JobStep ==
    ASSUME StreamInv, JobInv, Request \in Seq(Nat), [Extract!Next]_(Extract!vars)
    PROVE  JobInv' /\ \A i \in DOMAIN out : out[i] # Pending => out'[i] = out[i]
<1>0. DOMAIN Request \subseteq Nat \ {0}
  OBVIOUS
<1>1. ASSUME NEW w \in Workers, NEW q, q.job = worker[w].job,
             worker' = [worker EXCEPT ![w] = q], out' = out
      PROVE  JobInv' /\ \A i \in DOMAIN out : out[i] # Pending => out'[i] = out[i]
  <2>1. worker'[w] = q /\ \A v \in Workers : v # w => worker'[v] = worker[v]
    BY <1>1, OneJob
  <2>2. \A v \in Workers : worker'[v].job = worker[v].job
    BY <1>1, <2>1
  <2> QED
    BY <1>1, <2>2, SameJobs
<1>2. ASSUME NEW w \in Workers, Extract!WorkerStep(w)
      PROVE  JobInv' /\ \A i \in DOMAIN out : out[i] # Pending => out'[i] = out[i]
  <2> DEFINE r == worker[w]
  <2>0. Shaped(r)
    BY DEF StreamInv
  <2>1. CASE Extract!LookUp(w) \/ Extract!ReadWhole(w) \/ Extract!ReadPacked(w)
    BY <1>1, <2>1, ReadStep
  <2>2. CASE Extract!AskCache(w) \/ Extract!LockCache(w) \/ Extract!StoreParsed(w)
    <3>1. r.stack # <<>> /\ out' = out
      BY <2>2 DEF Extract!AskCache, Extract!LockCache, Extract!StoreParsed, Extract!Running
    <3>2. \A place : Extract!At(r, place).job = r.job
      BY <2>0, <3>1, MovedTo
    <3>3. \A n : Extract!Call(r, "parse", n).job = r.job
      BY <2>0, <3>1, Called DEF Goes
    <3>4. \/ \E place : worker' = [worker EXCEPT ![w] = Extract!At(r, place)]
          \/ \E n : worker' = [worker EXCEPT ![w] = Extract!Call(r, "parse", n)]
      <4>1. CASE Extract!AskCache(w)
        BY <4>1 DEF Extract!AskCache
      <4>2. CASE Extract!LockCache(w)
        BY <4>2 DEF Extract!LockCache
      <4>3. CASE Extract!StoreParsed(w)
        BY <4>3 DEF Extract!StoreParsed
      <4> QED
        BY <2>2, <4>1, <4>2, <4>3
    <3> HIDE DEF r
    <3>5. PICK q : q.job = r.job /\ worker' = [worker EXCEPT ![w] = q]
      BY <3>2, <3>3, <3>4
    <3> QED
      BY <1>1, <3>1, <3>5 DEF r
  <2>3. CASE Extract!StartCount(w) \/ Extract!TakePage(w)
    <3>1. CASE /\ \A v \in Workers : worker[v] = Extract!Idle
               /\ \E q : q.job = 0 /\ worker' = [worker EXCEPT ![w] = q]
               /\ out' = out
      <4>1. PICK q : q.job = 0 /\ worker' = [worker EXCEPT ![w] = q]
        BY <3>1
      <4>2. worker'[w] = q /\ \A v \in Workers : v # w => worker'[v].job = -1
        <5>1. worker'[w] = q /\ \A v \in Workers : v # w => worker'[v] = worker[v]
          BY <4>1, OneJob
        <5>2. \A v \in Workers : worker[v].job = -1
          BY <3>1, IdleIs
        <5> QED
          BY <5>1, <5>2
      <4>3. JobInv'
        BY <3>1, <4>1, <4>2 DEF JobInv
      <4> QED
        BY <3>1, <4>3
    <3>2. ASSUME NEW i \in DOMAIN Request, worker[w] = Extract!Idle, out[i] = Pending,
                 \A v \in Workers : worker[v].job # i,
                 \/ out' = out /\ \E q : q.job = i /\ worker' = [worker EXCEPT ![w] = q]
                 \/ out' = [out EXCEPT ![i] = Error] /\ worker' = worker
          PROVE  JobInv' /\ \A j \in DOMAIN out : out[j] # Pending => out'[j] = out[j]
      <4>1. CASE out' = out /\ \E q : q.job = i /\ worker' = [worker EXCEPT ![w] = q]
        <5>1. PICK q : q.job = i /\ worker' = [worker EXCEPT ![w] = q]
          BY <4>1
        <5>2. worker'[w].job = i /\ \A v \in Workers : v # w => worker'[v] = worker[v]
          BY <5>1, OneJob
        <5>3. \A v \in Workers : worker'[v].job \in {-1, 0} \cup DOMAIN Request
          BY <5>2 DEF JobInv
        <5>4. \A v, x \in Workers : v # x /\ worker'[v].job = worker'[x].job => worker'[x].job = -1
          BY <3>2, <5>2 DEF JobInv
        <5>5. \A v \in Workers : worker'[v].job > 0 => out'[worker'[v].job] = Pending
          BY <3>2, <4>1, <5>2 DEF JobInv
        <5> QED
          BY <4>1, <5>3, <5>4, <5>5 DEF JobInv
      <4>2. CASE out' = [out EXCEPT ![i] = Error] /\ worker' = worker
        <5>1. DOMAIN out' = DOMAIN out /\ \A j \in DOMAIN out : j # i => out'[j] = out[j]
          BY <4>2
        <5>2. \A v \in Workers : worker[v].job > 0 => out'[worker[v].job] = Pending
          BY <1>0, <3>2, <5>1 DEF JobInv
        <5>3. JobInv'
          BY <4>2, <5>1, <5>2 DEF JobInv
        <5> QED
          BY <3>2, <5>1, <5>3
      <4> QED
        BY <3>2, <4>1, <4>2
    <3> QED
      BY <2>3, <3>1, <3>2, BeginStep
  <2>4. CASE Extract!EndWalk(w)
    <3>1. /\ r.job >= 0
          /\ \/ \E result :
                   /\ worker' = [worker EXCEPT ![w] = Extract!Idle]
                   /\ out' = IF r.job = 0 THEN out ELSE [out EXCEPT ![r.job] = result]
             \/ \E q : Goes(r, q) /\ worker' = [worker EXCEPT ![w] = q] /\ out' = out
      BY <2>0, <2>4, EndWalkIs
    <3>2. ASSUME NEW result,
                 worker' = [worker EXCEPT ![w] = Extract!Idle],
                 out' = IF r.job = 0 THEN out ELSE [out EXCEPT ![r.job] = result]
          PROVE  JobInv' /\ \A j \in DOMAIN out : out[j] # Pending => out'[j] = out[j]
      <4>1. worker'[w].job = -1 /\ \A v \in Workers : v # w => worker'[v] = worker[v]
        BY <3>2, OneJob, IdleIs
      <4>2. /\ r.job \in {0} \cup DOMAIN Request /\ (r.job # 0 => out[r.job] = Pending)
            /\ DOMAIN out = DOMAIN Request
        BY <1>0, <3>1 DEF JobInv
      <4>3. DOMAIN out' = DOMAIN out /\ \A j \in DOMAIN out : j # r.job => out'[j] = out[j]
        BY <3>2
      <4>4. \A v \in Workers : worker'[v].job \in {-1, 0} \cup DOMAIN Request
        BY <4>1 DEF JobInv
      <4>5. \A v, x \in Workers : v # x /\ worker'[v].job = worker'[x].job => worker'[x].job = -1
        BY <4>1 DEF JobInv
      <4>6. ASSUME NEW v \in Workers, worker'[v].job > 0
            PROVE  out'[worker'[v].job] = Pending
        <5>1. v # w /\ worker'[v] = worker[v]
          BY <4>1, <4>6
        <5>2. worker[v].job # r.job
          BY <3>1, <5>1 DEF JobInv
        <5>3. worker[v].job \in DOMAIN out /\ out[worker[v].job] = Pending
          BY <4>2, <4>6, <5>1 DEF JobInv
        <5> QED
          BY <4>3, <5>1, <5>2, <5>3
      <4>7. JobInv'
        BY <4>2, <4>3, <4>4, <4>5, <4>6 DEF JobInv
      <4>8. ASSUME NEW j \in DOMAIN out, out[j] # Pending
            PROVE  out'[j] = out[j]
        <5>1. j # r.job
          BY <1>0, <4>2, <4>8
        <5> QED
          BY <4>3, <5>1
      <4> QED
        BY <4>7, <4>8
    <3> QED
      BY <1>1, <3>1, <3>2 DEF Goes
  <2> QED
    BY <1>2, <2>1, <2>2, <2>3, <2>4 DEF Extract!WorkerStep
<1>3. CASE Extract!RotatePages \/ Extract!Done \/ UNCHANGED Extract!vars
  <2>1. worker' = worker /\ out' = out
    BY <1>3 DEF Extract!RotatePages, Extract!Done, Extract!vars
  <2> QED
    BY <2>1, SameJobs
<1> QED
  BY <1>2, <1>3 DEF Extract!Next

\* Nobody has a job at first, and no slot is written.
LEMMA JobInit == Extract!Init => JobInv
BY IdleIs DEF Extract!Init, JobInv

\* Whatever the document says, whoever comes to take an object from the cache
\* finds its stream there, and it is what the stream holds; the write lock is
\* held only to store what was parsed before, never while objects are read
\* (ensure_object_stream_cached, reader.rs).
THEOREM StreamsAreFound == Extract!Spec => []StreamInv
<1>1. StreamInv /\ [Extract!Next]_(Extract!vars) => StreamInv'
  BY StreamStep
<1> QED
  BY <1>1, StreamInit, PTL DEF Extract!Spec

\* A stream that was cached stays cached with the same objects, whatever the
\* document says, and whichever worker that parsed it stores last (reader.rs:
\* parsing twice is harmless).
THEOREM StreamsStay == Extract!Spec => CacheIsStable
<1>1. StreamInv /\ [Extract!Next]_(Extract!vars) =>
        [\A s \in DOMAIN cache : s \in DOMAIN cache' /\ cache'[s] = cache[s]]_cache
  BY StreamStep
<1>2. StreamInv /\ [Extract!Next]_(Extract!vars) => StreamInv'
  BY StreamStep
<1> QED
  BY <1>1, <1>2, StreamInit, PTL DEF Extract!Spec, CacheIsStable

\* No two threads work on the same page, and the text of a page, once written to
\* its slot, stays there (extractor.rs: par_iter over the page numbers).
THEOREM SlotsAreWrittenOnce ==
    ASSUME Request \in Seq(Nat)
    PROVE  Extract!Spec => [][\A i \in DOMAIN out : out[i] # Pending => out'[i] = out[i]]_out
<1>1. StreamInv /\ JobInv /\ [Extract!Next]_(Extract!vars) =>
        [\A i \in DOMAIN out : out[i] # Pending => out'[i] = out[i]]_out
  BY JobStep
<1>2. StreamInv /\ JobInv /\ [Extract!Next]_(Extract!vars) => StreamInv' /\ JobInv'
  BY StreamStep, JobStep
<1> QED
  BY <1>1, <1>2, StreamInit, JobInit, PTL DEF Extract!Spec
=============================================================================
