---------------------------- MODULE ChunkerProofs ----------------------------
(***************************************************************************)
(* Proofs about the retrieval chunker: its four properties hold for every   *)
(* document, target, overlap and choice of options.                         *)
(*                                                                          *)
(* A chunk is judged by itself and the chunk before it (Good), so that      *)
(* appending a chunk needs no argument about the earlier ones.  The         *)
(* accumulation promises what it will owe as a chunk: it goes on where the  *)
(* chunks stop and is within the target or has one new piece (CurInv), lies *)
(* in one section (CurInv), and shares only context with the chunk before   *)
(* it (ShareInv).  The stack of headings holds those in force at the piece  *)
(* being placed, which makes cur_section the sorted set that SectionOf      *)
(* picks (StackFor, SectionIs).                                             *)
(*                                                                          *)
(* Sum, Picked and split_oversized are recursive functions.  What they      *)
(* compute is shown by induction on the length of their argument, stated    *)
(* over sets of numbers (NatInduction0).                                    *)
(***************************************************************************)
EXTENDS Chunker, WellFoundedInduction, TLAPS

-----------------------------------------------------------------------------

(* Induction: a set of numbers that has 0 and the successor of each of its  *)
(* numbers has them all.                                                    *)
LEMMA NatInduction0 ==
    ASSUME NEW S, 0 \in S, \A n \in Nat : n \in S => n + 1 \in S
    PROVE  Nat \subseteq S
<1> SUFFICES ASSUME NEW m \in Nat, m \notin S PROVE FALSE
  OBVIOUS
<1> DEFINE T == {n \in Nat : n \notin S}
           Less == OpToRel(<, Nat)
<1>1. \A a, b \in Nat : a < b => <<a, b>> \in Less
  BY DEF OpToRel
<1>2. IsWellFoundedOn(Less, Nat)
  BY NatLessThanWellFounded
<1> HIDE DEF Less
<1>3. PICK x \in T : \A y \in T : ~ (<<y, x>> \in Less)
  <2>1. T \subseteq Nat /\ T # {}
    OBVIOUS
  <2> HIDE DEF T
  <2> QED
    BY <1>2, <2>1, WFMin
<1>4. x # 0 /\ x \in Nat
  OBVIOUS
<1>5. x - 1 \in Nat /\ x = (x - 1) + 1 /\ x - 1 < x
  BY <1>4
<1>6. x - 1 \in T
  BY <1>5
<1>7. <<x - 1, x>> \in Less
  BY <1>1, <1>4, <1>5
<1> QED
  BY <1>3, <1>6, <1>7

(* g holds the sums of the first elements of s.                             *)
IsSumTo(s, n, g) == g = [i \in 0 .. n |-> IF i = 0 THEN 0 ELSE g[i - 1] + s[i]]

(* Sum is the last of such sums.                                            *)
LEMMA SumChosen ==
    ASSUME NEW s
    PROVE  Sum(s) = (CHOOSE g : IsSumTo(s, Len(s), g))[Len(s)]
BY Zenon DEF Sum, IsSumTo

(* There are such sums for every length.                                    *)
LEMMA SumToExists ==
    ASSUME NEW s, NEW n \in Nat
    PROVE  \E g : IsSumTo(s, n, g)
<1> DEFINE S == {k \in Nat : \E g : IsSumTo(s, k, g)}
<1>1. 0 \in S
  <2> DEFINE g == [i \in 0 .. 0 |-> 0]
  <2>1. \A i \in 0 .. 0 : i = 0
    OBVIOUS
  <2>2. g = [i \in 0 .. 0 |-> IF i = 0 THEN 0 ELSE g[i - 1] + s[i]]
    BY <2>1
  <2> QED
    BY <2>2 DEF IsSumTo
<1>2. ASSUME NEW k \in Nat, k \in S
      PROVE  k + 1 \in S
  <2>1. PICK g : IsSumTo(s, k, g)
    BY <1>2
  <2> DEFINE h == [i \in 0 .. k + 1 |-> IF i = k + 1 THEN g[k] + s[k + 1] ELSE g[i]]
  <2>2. ASSUME NEW i \in 0 .. k + 1
        PROVE  h[i] = IF i = 0 THEN 0 ELSE h[i - 1] + s[i]
    <3>1. CASE i = k + 1
      BY <3>1
    <3>2. CASE i = 0
      BY <2>1, <3>2 DEF IsSumTo
    <3>3. CASE i # 0 /\ i # k + 1
      <4>1. i \in 0 .. k /\ i - 1 \in 0 .. k /\ i - 1 # k + 1 /\ i - 1 \in 0 .. k + 1
        BY <3>3
      <4>2. g[i] = g[i - 1] + s[i]
        BY <2>1, <3>3, <4>1 DEF IsSumTo
      <4> QED
        BY <3>3, <4>1, <4>2
    <3> QED
      BY <3>1, <3>2, <3>3
  <2>3. IsSumTo(s, k + 1, h)
    BY <2>2 DEF IsSumTo
  <2> QED
    BY <2>3
<1> HIDE DEF S
<1>3. Nat \subseteq S
  BY <1>1, <1>2, NatInduction0
<1> QED
  BY <1>3 DEF S

(* They depend on the elements summed only.                                 *)
LEMMA SumsAgree ==
    ASSUME NEW s, NEW t, NEW n \in Nat, NEW m \in Nat, n <= m,
           \A i \in 1 .. n : s[i] = t[i],
           NEW g, IsSumTo(s, n, g), NEW h, IsSumTo(t, m, h)
    PROVE  \A k \in 0 .. n : g[k] = h[k]
<1> DEFINE S == {k \in Nat : k <= n => g[k] = h[k]}
<1>1. 0 \in S
  BY DEF IsSumTo
<1>2. ASSUME NEW k \in Nat, k \in S
      PROVE  k + 1 \in S
  <2> SUFFICES ASSUME k + 1 <= n PROVE g[k + 1] = h[k + 1]
    OBVIOUS
  <2>1. /\ k + 1 \in 0 .. n /\ k + 1 \in 0 .. m /\ k + 1 \in 1 .. n /\ k + 1 # 0
        /\ (k + 1) - 1 = k /\ k <= n
    OBVIOUS
  <2>2. g[k + 1] = g[k] + s[k + 1]
    BY <2>1 DEF IsSumTo
  <2>3. h[k + 1] = h[k] + t[k + 1]
    BY <2>1 DEF IsSumTo
  <2> QED
    BY <1>2, <2>1, <2>2, <2>3
<1> HIDE DEF S
<1>3. Nat \subseteq S
  BY <1>1, <1>2, NatInduction0
<1> QED
  BY <1>3 DEF S

(* Sum as the last of sums that are known to exist.                         *)
LEMMA SumOf ==
    ASSUME NEW s, Len(s) \in Nat
    PROVE  \E g : IsSumTo(s, Len(s), g) /\ Sum(s) = g[Len(s)]
<1>1. \E g : IsSumTo(s, Len(s), g)
  BY SumToExists
<1> DEFINE g == CHOOSE g : IsSumTo(s, Len(s), g)
<1>2. IsSumTo(s, Len(s), g)
  BY <1>1, Zenon
<1> QED
  BY <1>2, SumChosen, Zenon

(* The sum of nothing.                                                      *)
LEMMA SumEmpty ==
    ASSUME NEW s, Len(s) = 0
    PROVE  Sum(s) = 0
<1>1. PICK g : IsSumTo(s, 0, g) /\ Sum(s) = g[0]
  BY SumOf
<1> QED
  BY <1>1 DEF IsSumTo

(* The sum of a sequence that is one element longer.                        *)
LEMMA SumStep ==
    ASSUME NEW s, NEW t, NEW n \in Nat, Len(s) = n, Len(t) = n + 1,
           \A i \in 1 .. n : s[i] = t[i]
    PROVE  Sum(t) = Sum(s) + t[n + 1]
<1>1. PICK g : IsSumTo(s, n, g) /\ Sum(s) = g[n]
  BY SumOf
<1>2. PICK h : IsSumTo(t, n + 1, h) /\ Sum(t) = h[n + 1]
  <2>1. n + 1 \in Nat
    OBVIOUS
  <2> QED
    BY <2>1, SumOf
<1>3. g[n] = h[n]
  <2>1. n + 1 \in Nat /\ n <= n + 1 /\ n \in 0 .. n
    OBVIOUS
  <2>2. \A k \in 0 .. n : g[k] = h[k]
    BY <1>1, <1>2, <2>1, SumsAgree
  <2> QED
    BY <2>1, <2>2
<1>4. h[n + 1] = h[n] + t[n + 1]
  <2>1. n + 1 \in 0 .. n + 1 /\ n + 1 # 0 /\ (n + 1) - 1 = n
    OBVIOUS
  <2> QED
    BY <1>2, <2>1 DEF IsSumTo
<1> QED
  BY <1>1, <1>2, <1>3, <1>4

(* The sum of natural numbers is one.                                       *)
LEMMA SumType ==
    ASSUME NEW s, Len(s) \in Nat, \A i \in 1 .. Len(s) : s[i] \in Nat
    PROVE  Sum(s) \in Nat
<1> DEFINE n == Len(s)
<1>1. PICK g : IsSumTo(s, n, g) /\ Sum(s) = g[n]
  BY SumOf
<1> HIDE DEF n
<1> DEFINE S == {k \in Nat : k <= n => g[k] \in Nat}
<1>2. 0 \in S
  BY <1>1 DEF IsSumTo, n
<1>3. ASSUME NEW k \in Nat, k \in S
      PROVE  k + 1 \in S
  <2> SUFFICES ASSUME k + 1 <= n PROVE g[k + 1] \in Nat
    OBVIOUS
  <2>1. n \in Nat /\ k + 1 \in 0 .. n /\ k + 1 \in 1 .. n /\ k + 1 # 0 /\ (k + 1) - 1 = k /\ k <= n
    BY DEF n
  <2>2. g[k + 1] = g[k] + s[k + 1]
    BY <1>1, <2>1 DEF IsSumTo
  <2>3. s[k + 1] \in Nat
    BY <2>1 DEF n
  <2> QED
    BY <1>3, <2>1, <2>2, <2>3
<1> HIDE DEF S
<1>4. Nat \subseteq S
  BY <1>2, <1>3, NatInduction0
<1>5. n \in S /\ n \in Nat
  BY <1>4 DEF n
<1>6. g[n] \in Nat
  BY <1>5 DEF S
<1> QED
  BY <1>1, <1>6

-----------------------------------------------------------------------------
(* g holds what is picked of the first elements of s.                       *)
IsPickedTo(s, K, n, g) ==
    g = [i \in 0 .. n |->
            IF i = 0 THEN <<>>
            ELSE IF i \in K THEN Append(g[i - 1], s[i]) ELSE g[i - 1]]

(* Picked is the last of such sequences.                                    *)
LEMMA PickedChosen ==
    ASSUME NEW s, NEW K
    PROVE  Picked(s, K) = (CHOOSE g : IsPickedTo(s, K, Len(s), g))[Len(s)]
BY Zenon DEF Picked, IsPickedTo

(* There are such sequences for every length.                               *)
LEMMA PickedToExists ==
    ASSUME NEW s, NEW K, NEW n \in Nat
    PROVE  \E g : IsPickedTo(s, K, n, g)
<1> DEFINE S == {k \in Nat : \E g : IsPickedTo(s, K, k, g)}
<1>1. 0 \in S
  <2> DEFINE g == [i \in 0 .. 0 |-> <<>>]
  <2>1. \A i \in 0 .. 0 : i = 0
    OBVIOUS
  <2>2. IsPickedTo(s, K, 0, g)
    BY <2>1 DEF IsPickedTo
  <2> QED
    BY <2>2
<1>2. ASSUME NEW k \in Nat, k \in S
      PROVE  k + 1 \in S
  <2>1. PICK g : IsPickedTo(s, K, k, g)
    BY <1>2
  <2> DEFINE next_k == IF k + 1 \in K THEN Append(g[k], s[k + 1]) ELSE g[k]
             h == [i \in 0 .. k + 1 |-> IF i = k + 1 THEN next_k ELSE g[i]]
  <2>2. ASSUME NEW i \in 0 .. k + 1
        PROVE  h[i] = IF i = 0 THEN <<>>
                      ELSE IF i \in K THEN Append(h[i - 1], s[i]) ELSE h[i - 1]
    <3>1. CASE i = k + 1
      <4>1. h[i] = next_k /\ i # 0 /\ i - 1 = k /\ h[i - 1] = g[k]
        BY <3>1
      <4> QED
        BY <3>1, <4>1
    <3>2. CASE i = 0
      BY <2>1, <3>2 DEF IsPickedTo
    <3>3. CASE i # 0 /\ i # k + 1
      <4>1. i \in 0 .. k /\ i - 1 \in 0 .. k /\ i - 1 # k + 1 /\ i - 1 \in 0 .. k + 1
        BY <3>3
      <4>2. g[i] = IF i \in K THEN Append(g[i - 1], s[i]) ELSE g[i - 1]
        BY <2>1, <3>3, <4>1 DEF IsPickedTo
      <4>3. h[i] = g[i] /\ h[i - 1] = g[i - 1]
        BY <3>3, <4>1
      <4> QED
        BY <3>3, <4>2, <4>3
    <3> QED
      BY <3>1, <3>2, <3>3
  <2>3. IsPickedTo(s, K, k + 1, h)
    BY <2>2 DEF IsPickedTo
  <2> QED
    BY <2>3
<1> HIDE DEF S
<1>3. Nat \subseteq S
  BY <1>1, <1>2, NatInduction0
<1> QED
  BY <1>3 DEF S

Increasing(s) == \A i, j \in 1 .. Len(s) : i < j => s[i] < s[j]

(* p is s at the positions of K up to n, in order.                          *)
PicksUpTo(p, s, K, n) ==
    \E f : /\ f \in [1 .. Len(p) -> Nat]
           /\ Increasing(f)
           /\ {f[j] : j \in 1 .. Len(p)} = K \cap 1 .. n
           /\ \A j \in 1 .. Len(p) : p[j] = s[f[j]]

(* Picking one element more.                                                *)
LEMMA PickedStep ==
    ASSUME NEW S, NEW p \in Seq(S), NEW s, NEW K, NEW n \in Nat, PicksUpTo(p, s, K, n),
           s[n + 1] \in S
    PROVE  /\ n + 1 \in K => /\ Append(p, s[n + 1]) \in Seq(S)
                             /\ PicksUpTo(Append(p, s[n + 1]), s, K, n + 1)
           /\ n + 1 \notin K => PicksUpTo(p, s, K, n + 1)
<1>1. PICK f \in [1 .. Len(p) -> Nat] :
         /\ Increasing(f)
         /\ {f[j] : j \in 1 .. Len(p)} = K \cap 1 .. n
         /\ \A j \in 1 .. Len(p) : p[j] = s[f[j]]
  BY DEF PicksUpTo
<1>2. CASE n + 1 \notin K
  <2>1. K \cap 1 .. (n + 1) = K \cap 1 .. n
    BY <1>2
  <2> QED
    BY <1>1, <1>2, <2>1 DEF PicksUpTo
<1>3. CASE n + 1 \in K
  <2> DEFINE m == Len(p)
             q == Append(p, s[n + 1])
             h == [j \in 1 .. m + 1 |-> IF j = m + 1 THEN n + 1 ELSE f[j]]
  <2>1. m \in Nat /\ q \in Seq(S) /\ Len(q) = m + 1 /\ q[m + 1] = s[n + 1]
        /\ \A j \in 1 .. m : q[j] = p[j]
    OBVIOUS
  <2>2. f \in [1 .. m -> Nat] /\ f \in Seq(Nat) /\ Len(f) = m
    BY <2>1, <1>1
  <2> HIDE DEF m, q
  <2>3. h \in [1 .. m + 1 -> Nat]
    BY <2>1, <2>2
  <2>4. Len(h) = m + 1
    BY <2>1, <2>3
  <2>5. Increasing(h)
    <3> SUFFICES ASSUME NEW i \in 1 .. m + 1, NEW j \in 1 .. m + 1, i < j
                 PROVE  h[i] < h[j]
      BY <2>4 DEF Increasing
    <3>1. i \in 1 .. m /\ i # m + 1
      BY <2>1
    <3>2. CASE j = m + 1
      <4>1. f[i] \in 1 .. n
        BY <1>1, <2>1, <3>1 DEF m
      <4> QED
        BY <2>1, <3>1, <3>2, <4>1
    <3>3. CASE j # m + 1
      <4>1. j \in 1 .. m
        BY <2>1, <3>3
      <4>2. f[i] < f[j]
        BY <1>1, <2>2, <3>1, <4>1 DEF Increasing
      <4> QED
        BY <3>1, <3>3, <4>2
    <3> QED
      BY <3>2, <3>3
  <2>6. {h[j] : j \in 1 .. m + 1} = K \cap 1 .. (n + 1)
    <3>1. ASSUME NEW j \in 1 .. m + 1
          PROVE  h[j] \in K \cap 1 .. (n + 1)
      <4>1. CASE j = m + 1
        BY <1>3, <4>1
      <4>2. CASE j # m + 1
        <5>1. j \in 1 .. m
          BY <2>1, <4>2
        <5>2. f[j] \in K \cap 1 .. n
          BY <1>1, <5>1 DEF m
        <5> QED
          BY <4>2, <5>2
      <4> QED
        BY <4>1, <4>2
    <3>2. ASSUME NEW k \in K \cap 1 .. (n + 1)
          PROVE  \E j \in 1 .. m + 1 : h[j] = k
      <4>1. CASE k = n + 1
        <5>1. m + 1 \in 1 .. m + 1 /\ h[m + 1] = k
          BY <2>1, <4>1
        <5> QED
          BY <5>1
      <4>2. CASE k # n + 1
        <5>1. k \in K \cap 1 .. n
          BY <4>2
        <5>2. PICK j \in 1 .. m : f[j] = k
          BY <1>1, <5>1 DEF m
        <5>3. j \in 1 .. m + 1 /\ j # m + 1
          BY <2>1
        <5> QED
          BY <5>2, <5>3
      <4> QED
        BY <4>1, <4>2
    <3> QED
      BY <3>1, <3>2
  <2>7. ASSUME NEW j \in 1 .. m + 1
        PROVE  q[j] = s[h[j]]
    <3>1. CASE j = m + 1
      BY <2>1, <3>1
    <3>2. CASE j # m + 1
      <4>1. j \in 1 .. m
        BY <2>1, <3>2
      <4> QED
        BY <1>1, <2>1, <3>2, <4>1 DEF m
    <3> QED
      BY <3>1, <3>2
  <2> HIDE DEF h
  <2>8. PicksUpTo(q, s, K, n + 1)
    <3>1. Len(q) = m + 1
      BY <2>1
    <3>2. /\ h \in [1 .. Len(q) -> Nat]
          /\ {h[j] : j \in 1 .. Len(q)} = K \cap 1 .. (n + 1)
          /\ \A j \in 1 .. Len(q) : q[j] = s[h[j]]
      BY <2>3, <2>6, <2>7, <3>1
    <3> QED
      BY <2>5, <3>2 DEF PicksUpTo
  <2> QED
    BY <1>3, <2>1, <2>8 DEF q
<1> QED
  BY <1>2, <1>3

(* What Picked returns: the elements at the chosen positions, in order.     *)
LEMMA PickedOf ==
    ASSUME NEW S, NEW s, Len(s) \in Nat, \A i \in 1 .. Len(s) : s[i] \in S, NEW K
    PROVE  Picked(s, K) \in Seq(S) /\ PicksUpTo(Picked(s, K), s, K, Len(s))
<1> DEFINE n == Len(s)
<1>1. PICK g : IsPickedTo(s, K, n, g) /\ Picked(s, K) = g[n]
  <2>1. \E g : IsPickedTo(s, K, n, g)
    BY PickedToExists
  <2> DEFINE g == CHOOSE g : IsPickedTo(s, K, n, g)
  <2>2. IsPickedTo(s, K, n, g)
    BY <2>1, Zenon
  <2> QED
    BY <2>2, PickedChosen, Zenon
<1>2. n \in Nat /\ \A i \in 1 .. n : s[i] \in S
  OBVIOUS
<1> HIDE DEF n
<1> DEFINE A == {k \in Nat : k <= n => g[k] \in Seq(S) /\ PicksUpTo(g[k], s, K, k)}
<1>3. 0 \in A
  <2>1. g[0] = <<>>
    BY <1>1, <1>2 DEF IsPickedTo
  <2>2. <<>> \in Seq(S) /\ Len(<<>>) = 0 /\ <<>> \in [1 .. 0 -> Nat] /\ 1 .. 0 = {}
    OBVIOUS
  <2>3. PicksUpTo(<<>>, s, K, 0)
    <3> DEFINE f == <<>>
    <3>1. f \in [1 .. Len(<<>>) -> Nat] /\ Increasing(f)
          /\ {f[j] : j \in 1 .. Len(<<>>)} = K \cap 1 .. 0
          /\ \A j \in 1 .. Len(<<>>) : <<>>[j] = s[f[j]]
      BY <2>2 DEF Increasing
    <3> QED
      BY <3>1 DEF PicksUpTo
  <2> QED
    BY <2>1, <2>2, <2>3
<1>4. ASSUME NEW k \in Nat, k \in A
      PROVE  k + 1 \in A
  <2> SUFFICES ASSUME k + 1 <= n
               PROVE  g[k + 1] \in Seq(S) /\ PicksUpTo(g[k + 1], s, K, k + 1)
    OBVIOUS
  <2>1. k + 1 \in 0 .. n /\ k + 1 \in 1 .. n /\ k + 1 # 0 /\ (k + 1) - 1 = k /\ k <= n
    BY <1>2
  <2>2. g[k] \in Seq(S) /\ PicksUpTo(g[k], s, K, k) /\ s[k + 1] \in S
    BY <1>2, <1>4, <2>1
  <2>3. g[k + 1] = IF k + 1 \in K THEN Append(g[k], s[k + 1]) ELSE g[k]
    BY <1>1, <2>1 DEF IsPickedTo
  <2> QED
    BY <2>2, <2>3, PickedStep
<1> HIDE DEF A
<1>5. Nat \subseteq A
  BY <1>3, <1>4, NatInduction0
<1>6. g[n] \in Seq(S) /\ PicksUpTo(g[n], s, K, n)
  BY <1>2, <1>5 DEF A
<1> QED
  BY <1>1, <1>6 DEF n

(* Picking keeps an increasing sequence increasing.                         *)
LEMMA PickedIncreasing ==
    ASSUME NEW s \in Seq(Nat), Increasing(s), NEW K
    PROVE  Picked(s, K) \in Seq(Nat) /\ Increasing(Picked(s, K))
<1> DEFINE p == Picked(s, K)
           n == Len(s)
<1>1. n \in Nat /\ \A i \in 1 .. n : s[i] \in Nat
  OBVIOUS
<1>2. p \in Seq(Nat) /\ PicksUpTo(p, s, K, n)
  BY <1>1, PickedOf
<1> HIDE DEF p
<1>3. PICK f : /\ f \in [1 .. Len(p) -> Nat]
               /\ Increasing(f)
               /\ {f[j] : j \in 1 .. Len(p)} = K \cap 1 .. n
               /\ \A j \in 1 .. Len(p) : p[j] = s[f[j]]
  BY <1>2 DEF PicksUpTo
<1>4. Len(p) \in Nat /\ Len(f) = Len(p)
  BY <1>2, <1>3
<1>5. ASSUME NEW i \in 1 .. Len(p), NEW j \in 1 .. Len(p), i < j
      PROVE  p[i] < p[j]
  <2>1. f[i] < f[j] /\ f[i] \in 1 .. n /\ f[j] \in 1 .. n
    BY <1>3, <1>4, <1>5 DEF Increasing
  <2> QED
    BY <1>3, <2>1 DEF Increasing
<1> QED
  BY <1>2, <1>5 DEF p, Increasing

(* A sequence as a function.                                                *)
LEMMA SeqFunction ==
    ASSUME NEW S, NEW s \in Seq(S)
    PROVE  s \in [1 .. Len(s) -> S] /\ Len(s) \in Nat
OBVIOUS

(* Two increasing sequences with the same elements are equal.               *)
LEMMA SameIncreasing ==
    ASSUME NEW s \in Seq(Nat), NEW t \in Seq(Nat), Increasing(s), Increasing(t),
           \A i \in 1 .. Len(s) : \E j \in 1 .. Len(t) : t[j] = s[i],
           \A j \in 1 .. Len(t) : \E i \in 1 .. Len(s) : t[j] = s[i]
    PROVE  s = t
<1> DEFINE n == Len(s)
           m == Len(t)
           A == {k \in Nat : (k <= n <=> k <= m) /\ \A i \in 1 .. k : i <= n => s[i] = t[i]}
<1>1. n \in Nat /\ m \in Nat
      /\ (\A i \in 1 .. n : s[i] \in Nat) /\ (\A i \in 1 .. m : t[i] \in Nat)
      /\ s \in [1 .. n -> Nat] /\ t \in [1 .. m -> Nat]
  <2>1. s \in [1 .. Len(s) -> Nat] /\ Len(s) \in Nat
    BY SeqFunction
  <2>2. t \in [1 .. Len(t) -> Nat] /\ Len(t) \in Nat
    BY SeqFunction
  <2> QED
    BY <2>1, <2>2
<1>2. /\ \A i, j \in 1 .. n : i < j => s[i] < s[j]
      /\ \A i, j \in 1 .. m : i < j => t[i] < t[j]
      /\ \A i \in 1 .. n : \E j \in 1 .. m : t[j] = s[i]
      /\ \A j \in 1 .. m : \E i \in 1 .. n : t[j] = s[i]
  BY DEF Increasing
<1> HIDE DEF n, m
<1>3. 0 \in A
  BY <1>1
<1>4. ASSUME NEW k \in Nat, k \in A
      PROVE  k + 1 \in A
  <2>1. \A i \in 1 .. k : i <= n => s[i] = t[i]
    BY <1>4
  <2>2. k <= n <=> k <= m
    BY <1>4
  <2>3. ASSUME k + 1 <= n
        PROVE  k + 1 <= m /\ s[k + 1] = t[k + 1]
    <3>1. k + 1 \in 1 .. n /\ k <= n /\ k <= m
      BY <1>1, <2>2, <2>3
    <3>2. PICK j \in 1 .. m : t[j] = s[k + 1]
      BY <1>2, <3>1
    <3>3. j > k
      <4> SUFFICES ASSUME j <= k PROVE FALSE
        BY <1>1
      <4>1. j \in 1 .. k /\ j <= n /\ j \in 1 .. n /\ j < k + 1
        BY <1>1, <3>1
      <4>2. s[j] = t[j] /\ s[j] < s[k + 1] /\ s[j] \in Nat
        BY <1>1, <1>2, <2>1, <3>1, <4>1
      <4> QED
        BY <3>2, <4>2
    <3>4. k + 1 \in 1 .. m
      BY <1>1, <3>2, <3>3
    <3>5. ASSUME j # k + 1 PROVE FALSE
      <4>1. k + 1 < j /\ t[k + 1] < t[j]
        BY <1>1, <1>2, <3>3, <3>4, <3>5
      <4>2. PICK i \in 1 .. n : t[k + 1] = s[i]
        BY <1>2, <3>4
      <4>3. i < k + 1
        <5> SUFFICES ASSUME ~ (i < k + 1) PROVE FALSE
          OBVIOUS
        <5>1. i = k + 1 \/ k + 1 < i
          BY <1>1, <4>2
        <5>2. s[k + 1] \in Nat /\ s[i] \in Nat
          BY <1>1, <3>1, <4>2
        <5>3. s[k + 1] <= s[i]
          <6>1. CASE i = k + 1
            BY <5>2, <6>1
          <6>2. CASE k + 1 < i
            <7>1. s[k + 1] < s[i]
              BY <1>2, <3>1, <4>2, <6>2
            <7> QED
              BY <5>2, <7>1
          <6> QED
            BY <5>1, <6>1, <6>2
        <5> QED
          BY <1>1, <3>2, <3>4, <4>1, <4>2, <5>2, <5>3
      <4>4. i \in 1 .. k /\ i <= n /\ i \in 1 .. m
        BY <1>1, <3>1, <4>3
      <4>5. s[i] = t[i] /\ t[i] < t[k + 1] /\ t[i] \in Nat
        BY <1>1, <1>2, <2>1, <3>4, <4>3, <4>4
      <4> QED
        BY <4>2, <4>5
    <3> QED
      BY <1>1, <3>2, <3>4, <3>5
  <2>4. ASSUME k + 1 <= m
        PROVE  k + 1 <= n
    <3> SUFFICES ASSUME ~ (k + 1 <= n) PROVE FALSE
      OBVIOUS
    <3>1. n = k /\ k + 1 \in 1 .. m
      BY <1>1, <2>2, <2>4
    <3>2. PICK i \in 1 .. n : t[k + 1] = s[i]
      BY <1>2, <3>1
    <3>3. i \in 1 .. k /\ i <= n /\ i \in 1 .. m /\ i < k + 1
      BY <1>1, <3>1
    <3>4. s[i] = t[i] /\ t[i] < t[k + 1] /\ t[i] \in Nat
      BY <1>1, <1>2, <2>1, <3>1, <3>3
    <3> QED
      BY <3>2, <3>4
  <2>5. ASSUME NEW i \in 1 .. (k + 1), i <= n
        PROVE  s[i] = t[i]
    <3>1. i = k + 1 \/ i \in 1 .. k
      OBVIOUS
    <3> QED
      BY <2>1, <2>3, <2>5, <3>1
  <2> QED
    BY <2>3, <2>4, <2>5
<1> HIDE DEF A
<1>5. Nat \subseteq A
  BY <1>3, <1>4, NatInduction0
<1>6. n \in A /\ m \in A
  BY <1>1, <1>5
<1>7. n = m
  BY <1>1, <1>6 DEF A
<1>8. \A i \in 1 .. n : s[i] = t[i]
  BY <1>1, <1>6 DEF A
<1> QED
  BY <1>1, <1>7, <1>8

(* A body, or the sentences of a part: consecutive numbers.                 *)
Run(r) ==
    /\ r \in Seq(Nat)
    /\ r # <<>>
    /\ Consecutive(r)

(* The ends of a run.                                                       *)
LEMMA RunFacts ==
    ASSUME NEW r, Run(r)
    PROVE  /\ Len(r) \in Nat \ {0}
           /\ r \in [1 .. Len(r) -> Nat]
           /\ Head(r) = r[1] /\ Last(r) = r[Len(r)]
           /\ Head(r) \in Nat /\ Last(r) \in Nat
<1>1. r \in Seq(Nat) /\ r # <<>>
  BY DEF Run
<1>2. r \in [1 .. Len(r) -> Nat] /\ Len(r) \in Nat \ {0}
  BY <1>1
<1>3. Head(r) = r[1]
  BY <1>1
<1> QED
  BY <1>2, <1>3 DEF Last

(* A run of one.                                                            *)
LEMMA SingleRun ==
    ASSUME NEW n \in Nat
    PROVE  Run(<<n>>) /\ Head(<<n>>) = n /\ Last(<<n>>) = n /\ Len(<<n>>) = 1 /\ <<n>>[1] = n
<1>1. <<n>> \in Seq(Nat) /\ <<n>> # <<>> /\ Len(<<n>>) = 1 /\ <<n>>[1] = n
  OBVIOUS
<1>2. Consecutive(<<n>>)
  BY <1>1 DEF Consecutive
<1>3. Run(<<n>>)
  BY <1>1, <1>2 DEF Run
<1> QED
  BY <1>1, <1>3, RunFacts

(* A run that goes on by one.                                               *)
LEMMA LongerRun ==
    ASSUME NEW r, Run(r)
    PROVE  LET t == Append(r, Last(r) + 1)
           IN Run(t) /\ Head(t) = Head(r) /\ Last(t) = Last(r) + 1 /\ Len(t) = Len(r) + 1
              /\ \A i \in 1 .. Len(r) : t[i] = r[i]
<1> DEFINE n == Len(r)
           x == Last(r) + 1
           t == Append(r, x)
<1>1. n \in Nat \ {0} /\ x \in Nat /\ r[n] + 1 = x /\ r \in Seq(Nat) /\ Head(r) = r[1]
  BY RunFacts DEF Run
<1> HIDE DEF x
<1>2. t \in Seq(Nat) /\ Len(t) = n + 1 /\ t[n + 1] = x /\ \A i \in 1 .. n : t[i] = r[i]
  BY <1>1
<1> HIDE DEF t, n
<1>3. ASSUME NEW k \in 2 .. Len(t)
      PROVE  t[k] = t[k - 1] + 1
  <2>1. k = n + 1 \/ k \in 2 .. n
    BY <1>1, <1>2
  <2>2. CASE k = n + 1
    BY <1>1, <1>2, <2>2
  <2>3. CASE k \in 2 .. n
    <3>1. k \in 1 .. n /\ k - 1 \in 1 .. n
      BY <1>1, <2>3
    <3> QED
      BY <1>2, <2>3, <3>1 DEF Run, Consecutive, n
  <2> QED
    BY <2>1, <2>2, <2>3
<1>4. Run(t)
  <2>1. t # <<>>
    BY <1>1, <1>2
  <2> QED
    BY <1>2, <1>3, <2>1 DEF Run, Consecutive
<1>5. Head(t) = Head(r) /\ Last(t) = x
  <2>1. Head(t) = t[1] /\ Last(t) = t[Len(t)]
    BY <1>4, RunFacts
  <2> QED
    BY <1>1, <1>2, <2>1
<1> QED
  BY <1>2, <1>4, <1>5 DEF t, x, n

(* The elements of a run by position.                                       *)
LEMMA RunElements ==
    ASSUME NEW r, Run(r)
    PROVE  /\ \A i \in 1 .. Len(r) : r[i] = Head(r) + i - 1
           /\ Last(r) = Head(r) + Len(r) - 1
<1> DEFINE A == {k \in Nat : k < Len(r) => r[k + 1] = Head(r) + k}
<1>1. /\ Len(r) \in Nat \ {0} /\ Head(r) = r[1] /\ Last(r) = r[Len(r)] /\ Head(r) \in Nat
      /\ r \in [1 .. Len(r) -> Nat]
  BY RunFacts
<1>2. 0 \in A
  BY <1>1
<1>3. ASSUME NEW k \in Nat, k \in A
      PROVE  k + 1 \in A
  <2> SUFFICES ASSUME k + 1 < Len(r) PROVE r[(k + 1) + 1] = Head(r) + (k + 1)
    OBVIOUS
  <2>1. k < Len(r) /\ (k + 1) + 1 \in 2 .. Len(r) /\ ((k + 1) + 1) - 1 = k + 1
    BY <1>1
  <2>2. r[(k + 1) + 1] = r[k + 1] + 1
    BY <2>1 DEF Run, Consecutive
  <2> QED
    BY <1>1, <1>3, <2>1, <2>2
<1> HIDE DEF A
<1>4. Nat \subseteq A
  BY <1>2, <1>3, NatInduction0
<1>5. ASSUME NEW i \in 1 .. Len(r)
      PROVE  r[i] = Head(r) + i - 1
  <2>1. i - 1 \in A /\ i - 1 < Len(r) /\ (i - 1) + 1 = i
    BY <1>1, <1>4
  <2>2. r[i] = Head(r) + (i - 1)
    BY <2>1 DEF A
  <2> QED
    BY <1>1, <2>2
<1> QED
  BY <1>1, <1>5

-----------------------------------------------------------------------------
(* The parts of a split piece are the sentences 1 to m in order: each a     *)
(* run that begins where the one before ends.                               *)
PartsUpTo(parts, m) ==
    /\ parts \in Seq(Seq(Nat))
    /\ parts # <<>>
    /\ \A k \in 1 .. Len(parts) : Run(parts[k])
    /\ Head(parts[1]) = 1
    /\ \A k \in 1 .. Len(parts) - 1 :
          Head(parts[k + 1]) = Last(parts[k]) + 1 /\ Last(parts[k]) < m
    /\ Last(parts[Len(parts)]) = m

(* The first sentence is the first part,                                    *)
LEMMA FirstPart ==
    PartsUpTo(Append(<<>>, <<1>>), 1)
<1> DEFINE p == Append(<<>>, <<1>>)
<1>1. Run(<<1>>) /\ Head(<<1>>) = 1 /\ Last(<<1>>) = 1 /\ <<1>> \in Seq(Nat)
  BY SingleRun DEF Run
<1>2. p \in Seq(Seq(Nat)) /\ p # <<>> /\ Len(p) = 1 /\ p[1] = <<1>>
  BY <1>1
<1> HIDE DEF p
<1>3. \A k \in 1 .. 1 : k = 1
  OBVIOUS
<1>4. 1 .. Len(p) - 1 = {}
  BY <1>2
<1> QED
  BY <1>1, <1>2, <1>3, <1>4 DEF p, PartsUpTo

(* the next sentence begins a part,                                         *)
LEMMA AnotherPart ==
    ASSUME NEW parts, NEW m \in Nat, PartsUpTo(parts, m)
    PROVE  PartsUpTo(Append(parts, <<m + 1>>), m + 1)
<1> DEFINE n == Len(parts)
           x == <<m + 1>>
           p == Append(parts, x)
<1>1. Run(x) /\ Head(x) = m + 1 /\ Last(x) = m + 1 /\ x \in Seq(Nat)
  <2>1. m + 1 \in Nat
    OBVIOUS
  <2> QED
    BY <2>1, SingleRun DEF Run
<1> HIDE DEF x
<1>2. n \in Nat \ {0} /\ parts \in Seq(Seq(Nat))
  BY DEF PartsUpTo
<1>3. p \in Seq(Seq(Nat)) /\ Len(p) = n + 1 /\ p[n + 1] = x /\ \A k \in 1 .. n : p[k] = parts[k]
  BY <1>1, <1>2
<1> HIDE DEF p, n
<1>4. p # <<>> /\ Head(p[1]) = 1 /\ Last(p[Len(p)]) = m + 1
  BY <1>1, <1>2, <1>3 DEF PartsUpTo
<1>5. ASSUME NEW k \in 1 .. Len(p)
      PROVE  Run(p[k])
  <2>1. k = n + 1 \/ k \in 1 .. n
    BY <1>2, <1>3
  <2> QED
    BY <1>1, <1>3, <2>1 DEF PartsUpTo, n
<1>6. ASSUME NEW k \in 1 .. Len(p) - 1
      PROVE  Head(p[k + 1]) = Last(p[k]) + 1 /\ Last(p[k]) < m + 1
  <2>1. CASE k = n
    <3>1. p[k] = parts[n] /\ p[k + 1] = x /\ Last(parts[n]) = m
      BY <1>2, <1>3, <2>1 DEF PartsUpTo, n
    <3> QED
      BY <1>1, <3>1
  <2>2. CASE k # n
    <3>1. k \in 1 .. n - 1 /\ k \in 1 .. n /\ k + 1 \in 1 .. n
      BY <1>2, <1>3, <2>2
    <3>2. Head(parts[k + 1]) = Last(parts[k]) + 1 /\ Last(parts[k]) < m
      BY <3>1 DEF PartsUpTo, n
    <3>3. Last(parts[k]) \in Nat
      BY <3>1, RunFacts DEF PartsUpTo, n
    <3> QED
      BY <1>3, <3>1, <3>2, <3>3
  <2> QED
    BY <2>1, <2>2
<1> QED
  BY <1>3, <1>4, <1>5, <1>6 DEF p, x, PartsUpTo

(* or joins the last one.                                                   *)
LEMMA LongerPart ==
    ASSUME NEW out \in Seq(Seq(Nat)), NEW buf, NEW m \in Nat, PartsUpTo(Append(out, buf), m),
           buf \in Seq(Nat)
    PROVE  PartsUpTo(Append(out, Append(buf, m + 1)), m + 1)
<1> DEFINE n == Len(out)
           old == Append(out, buf)
           x == Append(buf, m + 1)
           p == Append(out, x)
<1>1. /\ n \in Nat /\ Len(old) = n + 1 /\ old[n + 1] = buf
      /\ \A k \in 1 .. n : old[k] = out[k]
  OBVIOUS
<1> HIDE DEF old
<1>2. Run(buf) /\ Last(buf) = m
  <2>1. /\ \A k \in 1 .. Len(old) : Run(old[k])
        /\ Last(old[Len(old)]) = m
    BY DEF PartsUpTo, old
  <2>2. Len(old) \in 1 .. Len(old) /\ old[Len(old)] = buf
    BY <1>1
  <2> QED
    BY <2>1, <2>2
<1>3. Run(x) /\ Head(x) = Head(buf) /\ Last(x) = m + 1 /\ x \in Seq(Nat)
  BY <1>2, LongerRun DEF Run
<1> HIDE DEF x
<1>4. /\ p \in Seq(Seq(Nat)) /\ Len(p) = n + 1 /\ p[n + 1] = x
      /\ \A k \in 1 .. n : p[k] = old[k]
  BY <1>1, <1>3
<1> HIDE DEF p, n
<1>5. p # <<>> /\ Last(p[Len(p)]) = m + 1
  BY <1>1, <1>3, <1>4
<1>6. \A k \in 1 .. n + 1 : Head(p[k]) = Head(old[k]) /\ Run(p[k])
  <2> TAKE k \in 1 .. n + 1
  <2>1. k = n + 1 \/ k \in 1 .. n
    BY <1>1
  <2>2. CASE k = n + 1
    BY <1>1, <1>3, <1>4, <2>2
  <2>3. CASE k \in 1 .. n
    BY <1>1, <1>4, <2>3 DEF PartsUpTo, old
  <2> QED
    BY <2>1, <2>2, <2>3
<1>7. Head(p[1]) = 1
  <2>1. 1 \in 1 .. n + 1
    BY <1>1
  <2> QED
    BY <1>6, <2>1 DEF PartsUpTo, old
<1>8. ASSUME NEW k \in 1 .. Len(p) - 1
      PROVE  Head(p[k + 1]) = Last(p[k]) + 1 /\ Last(p[k]) < m + 1
  <2>1. k \in 1 .. n /\ k + 1 \in 1 .. n + 1 /\ k \in 1 .. Len(old) - 1 /\ k \in 1 .. Len(old)
    BY <1>1, <1>4
  <2>2. Head(old[k + 1]) = Last(old[k]) + 1 /\ Last(old[k]) < m /\ Run(old[k])
    BY <2>1 DEF PartsUpTo, old
  <2>3. Last(old[k]) \in Nat
    BY <2>2, RunFacts
  <2> QED
    BY <1>4, <1>6, <2>1, <2>2, <2>3
<1> QED
  BY <1>4, <1>5, <1>6, <1>7, <1>8 DEF p, x, PartsUpTo

-----------------------------------------------------------------------------
(* One sentence taken by split_oversized.                                   *)
Take(size, acc, s) ==
    IF acc.buf # <<>> /\ Sum([k \in DOMAIN acc.buf |-> size[acc.buf[k]]]) + size[s] > Target
    THEN [out |-> Append(acc.out, acc.buf), buf |-> <<s>>]
    ELSE [acc EXCEPT !.buf = Append(@, s)]

(* g holds the parts after each of the first n sentences.                   *)
IsPackedTo(size, n, g) ==
    g = [s \in 0 .. n |->
            IF s = 0 THEN [out |-> <<>>, buf |-> <<>>] ELSE Take(size, g[s - 1], s)]

(* split_oversized returns the last of such parts.                          *)
LEMMA SplitChosen ==
    ASSUME NEW i
    PROVE  LET size == pieces[i].sentences
               g == CHOOSE g : IsPackedTo(size, Len(size), g)
           IN split_oversized(i) = Append(g[Len(size)].out, g[Len(size)].buf)
BY Zenon DEF split_oversized, IsPackedTo, Take

(* There are such parts for every number of sentences.                      *)
LEMMA PackedToExists ==
    ASSUME NEW size, NEW n \in Nat
    PROVE  \E g : IsPackedTo(size, n, g)
<1> DEFINE none == [out |-> <<>>, buf |-> <<>>]
           S == {k \in Nat : \E g : IsPackedTo(size, k, g)}
<1>1. 0 \in S
  <2> DEFINE g == [s \in 0 .. 0 |-> none]
  <2>1. \A s \in 0 .. 0 : s = 0
    OBVIOUS
  <2>2. IsPackedTo(size, 0, g)
    BY <2>1 DEF IsPackedTo
  <2> QED
    BY <2>2
<1>2. ASSUME NEW k \in Nat, k \in S
      PROVE  k + 1 \in S
  <2>1. PICK g : IsPackedTo(size, k, g)
    BY <1>2
  <2> DEFINE h == [s \in 0 .. k + 1 |-> IF s = k + 1 THEN Take(size, g[k], k + 1) ELSE g[s]]
  <2>2. ASSUME NEW s \in 0 .. k + 1
        PROVE  h[s] = IF s = 0 THEN none ELSE Take(size, h[s - 1], s)
    <3>1. CASE s = k + 1
      <4>1. h[s] = Take(size, g[k], k + 1) /\ s # 0 /\ s - 1 = k /\ h[s - 1] = g[k]
        BY <3>1
      <4> QED
        BY <3>1, <4>1
    <3>2. CASE s = 0
      BY <2>1, <3>2 DEF IsPackedTo
    <3>3. CASE s # 0 /\ s # k + 1
      <4>1. s \in 0 .. k /\ s - 1 \in 0 .. k /\ s - 1 # k + 1 /\ s - 1 \in 0 .. k + 1
        BY <3>3
      <4>2. g[s] = Take(size, g[s - 1], s)
        BY <2>1, <3>3, <4>1 DEF IsPackedTo
      <4>3. h[s] = g[s] /\ h[s - 1] = g[s - 1]
        BY <3>3, <4>1
      <4> QED
        BY <3>3, <4>2, <4>3
    <3> QED
      BY <3>1, <3>2, <3>3
  <2>3. IsPackedTo(size, k + 1, h)
    BY <2>2 DEF IsPackedTo
  <2> QED
    BY <2>3
<1> HIDE DEF S
<1>3. Nat \subseteq S
  BY <1>1, <1>2, NatInduction0
<1> QED
  BY <1>3 DEF S

(* split_oversized cuts a piece into its sentences in order, whatever       *)
(* their sizes and the target.                                              *)
LEMMA SplitParts ==
    ASSUME NEW i, Len(pieces[i].sentences) \in Nat \ {0}
    PROVE  PartsUpTo(split_oversized(i), Len(pieces[i].sentences))
<1> DEFINE size == pieces[i].sentences
           n == Len(size)
<1>1. PICK g : /\ IsPackedTo(size, n, g)
               /\ split_oversized(i) = Append(g[n].out, g[n].buf)
  <2> DEFINE h == CHOOSE f : IsPackedTo(size, n, f)
  <2>1. \E f : IsPackedTo(size, n, f)
    BY PackedToExists
  <2>2. IsPackedTo(size, n, h)
    BY <2>1, Zenon
  <2>3. split_oversized(i) = Append(h[n].out, h[n].buf)
    BY SplitChosen, Zenon
  <2> QED
    BY <2>2, <2>3, Zenon
<1>2. n \in Nat \ {0}
  OBVIOUS
<1> HIDE DEF n, size
<1> DEFINE Good(acc, k) == /\ DOMAIN acc = {"out", "buf"}
                           /\ acc.out \in Seq(Seq(Nat)) /\ acc.buf \in Seq(Nat)
                           /\ k = 0 => acc.out = <<>> /\ acc.buf = <<>>
                           /\ k > 0 => PartsUpTo(Append(acc.out, acc.buf), k)
           A == {k \in Nat : k <= n => Good(g[k], k)}
<1>3. 0 \in A
  <2>1. g[0] = [out |-> <<>>, buf |-> <<>>]
    BY <1>1, <1>2 DEF IsPackedTo
  <2>2. DOMAIN g[0] = {"out", "buf"} /\ g[0].out = <<>> /\ g[0].buf = <<>>
    BY <2>1
  <2>3. <<>> \in Seq(Nat) /\ <<>> \in Seq(Seq(Nat))
    OBVIOUS
  <2>4. Good(g[0], 0)
    BY <2>2, <2>3
  <2> QED
    BY <2>4
<1>4. ASSUME NEW k \in Nat, k \in A
      PROVE  k + 1 \in A
  <2> SUFFICES ASSUME k + 1 <= n PROVE Good(g[k + 1], k + 1)
    OBVIOUS
  <2>1. k + 1 \in 0 .. n /\ k + 1 # 0 /\ (k + 1) - 1 = k /\ k <= n /\ k + 1 > 0 /\ k + 1 \in Nat
    BY <1>2
  <2>2. g[k + 1] = Take(size, g[k], k + 1)
    BY <1>1, <2>1 DEF IsPackedTo
  <2>3. Good(g[k], k)
    BY <1>4, <2>1
  <2> DEFINE acc == g[k]
  <2> HIDE DEF acc
  <2>4. Good(acc, k)
    BY <2>3 DEF acc
  <2>5. CASE k = 0
    <3>1. g[k + 1] = [acc EXCEPT !.buf = Append(@, k + 1)]
      BY <2>2, <2>4, <2>5 DEF Take, acc
    <3>2. DOMAIN g[k + 1] = {"out", "buf"} /\ g[k + 1].out = <<>> /\ g[k + 1].buf = Append(<<>>, 1)
      <4>1. DOMAIN acc = {"out", "buf"} /\ acc.out = <<>> /\ acc.buf = <<>> /\ k + 1 = 1
        BY <2>4, <2>5
      <4>2. /\ DOMAIN g[k + 1] = {"out", "buf"} /\ g[k + 1].out = acc.out
            /\ g[k + 1].buf = Append(acc.buf, k + 1)
        BY <3>1, <4>1
      <4> QED
        BY <4>1, <4>2
    <3>3. Append(<<>>, 1) = <<1>> /\ <<1>> \in Seq(Nat) /\ <<>> \in Seq(Seq(Nat))
      OBVIOUS
    <3> QED
      BY <2>1, <2>5, <3>2, <3>3, FirstPart
  <2>6. CASE k # 0
    <3>1. PartsUpTo(Append(acc.out, acc.buf), k)
      BY <2>4, <2>6
    <3>2. g[k + 1] = [out |-> Append(acc.out, acc.buf), buf |-> <<k + 1>>]
          \/ g[k + 1] = [acc EXCEPT !.buf = Append(@, k + 1)]
      BY <2>2 DEF Take, acc
    <3>3. CASE g[k + 1] = [out |-> Append(acc.out, acc.buf), buf |-> <<k + 1>>]
      <4>1. Append(acc.out, acc.buf) \in Seq(Seq(Nat)) /\ <<k + 1>> \in Seq(Nat)
        BY <2>1, <2>4
      <4>2. PartsUpTo(Append(Append(acc.out, acc.buf), <<k + 1>>), k + 1)
        BY <3>1, AnotherPart
      <4> QED
        BY <2>1, <3>3, <4>1, <4>2
    <3>4. CASE g[k + 1] = [acc EXCEPT !.buf = Append(@, k + 1)]
      <4>1. DOMAIN g[k + 1] = {"out", "buf"} /\ g[k + 1].out = acc.out
            /\ g[k + 1].buf = Append(acc.buf, k + 1)
        BY <2>4, <3>4
      <4>2. Append(acc.buf, k + 1) \in Seq(Nat)
        BY <2>1, <2>4
      <4>3. PartsUpTo(Append(acc.out, Append(acc.buf, k + 1)), k + 1)
        BY <2>4, <3>1, LongerPart
      <4> QED
        BY <2>1, <2>4, <4>1, <4>2, <4>3
    <3> QED
      BY <3>2, <3>3, <3>4
  <2> QED
    BY <2>5, <2>6
<1> HIDE DEF A
<1>5. Nat \subseteq A
  BY <1>3, <1>4, NatInduction0
<1>6. Good(g[n], n)
  BY <1>2, <1>5 DEF A
<1>7. n > 0
  BY <1>2
<1> QED
  BY <1>1, <1>6, <1>7 DEF n, size

Chunk == [body : Seq(Nat), part : Seq(Nat), section : Seq(Nat), context : Seq(Nat),
          is_table_or_figure : BOOLEAN]

(* The chunk before the n-th one, if there is one.                          *)
Before(cs, n) == IF n = 1 THEN <<>> ELSE <<cs[n - 1]>>
(* The last chunk, if there is one.                                         *)
LastOf(cs) == IF cs = <<>> THEN <<>> ELSE <<Last(cs)>>

(* The last piece of an optional chunk.                                     *)
ReachedBy(b) == IF b = <<>> THEN 0 ELSE Last(b[1].body)
(* A part of a split piece that is not its last.                            *)
Unfinished(b) ==
    /\ b # <<>> /\ b[1].part # <<>>
    /\ Last(b[1].part) # Len(pieces[Last(b[1].body)].sentences)
(* A body goes on where the chunks, which reach piece r, stop.              *)
Extends(body, r) == Consecutive(body) /\ Head(body) <= r + 1 /\ Last(body) > r

(* EveryPieceOnce of one chunk and the one before.                          *)
OnceAfter(b, c) ==
    IF c.part = <<>>
    THEN ~Unfinished(b) /\ Extends(c.body, ReachedBy(b))
    ELSE /\ Consecutive(c.part)
         /\ IF Unfinished(b)
            THEN c.body = b[1].body /\ Head(c.part) = Last(b[1].part) + 1
            ELSE Extends(c.body, ReachedBy(b)) /\ Len(c.body) = 1 /\ Head(c.part) = 1

IsPacked(c) == c.part = <<>> /\ ~c.is_table_or_figure
NewIn(body, r) == {i \in ToSet(body) : i > r}

(* A reason to close a chunk of this body before piece i.                   *)
ClosedFor(body, i) ==
    \/ i = Len(pieces) + 1
    \/ IsHeading(i) /\ opts.split_on_headings
    \/ IsAtomic(i) /\ opts.isolate_tables
    \/ ~IsAtomic(i) /\ Tokens(i) > Target
    \/ PieceTokens(body) + Tokens(i) > Target

WithinTarget(body, r) ==
    (\E j \in NewIn(body, r) : NewIn(body, r) = {j}) \/ PieceTokens(body) <= Target

(* FilledToTarget of one chunk and the one before.                          *)
FilledAfter(b, c) ==
    IsPacked(c) => WithinTarget(c.body, ReachedBy(b)) /\ ClosedFor(c.body, Last(c.body) + 1)

(* SectionsAreTrue of one chunk.                                            *)
SectionTrue(c) ==
    /\ opts.split_on_headings \/ c.is_table_or_figure \/ c.part # <<>> =>
         \A i \in ToSet(c.body) : c.section = SectionOf(i)
    /\ opts.split_on_headings /\ opts.heading_context /\ c.part = <<>> =>
         c.context \o HeadingsIn(c.body) = c.section

(* What a body may share with the body before it.                           *)
SharesContext(old, body) ==
    LET shared == ToSet(old) \cap ToSet(body)
        tokens == PieceTokens(Picked(old, {k \in DOMAIN old : old[k] \in shared}))
    IN  /\ \A i \in shared : ~IsAtomic(i)
        /\ tokens <= opts.overlap_tokens \/ \E i \in shared : shared = {i}
        /\ opts.overlap_tokens = 0 => shared = {}
        /\ \/ opts.overlap_tokens = 0 \/ IsAtomic(Last(old))
           \/ opts.split_on_headings /\ \E i \in NewIn(body, Last(old)) : IsHeading(i)
           \/ Last(old) \in shared

(* OverlapIsContext of one chunk and the one before.                        *)
OverlapAfter(b, c) ==
    b # <<>> /\ IsPacked(b[1]) /\ IsPacked(c) => SharesContext(b[1].body, c.body)

BodyOK(s) == Run(s) /\ Head(s) >= 1 /\ Last(s) <= Len(pieces)

(* A chunk is right after the chunk before it.                              *)
Good(b, c) ==
    /\ BodyOK(c.body)
    /\ OnceAfter(b, c)
    /\ FilledAfter(b, c)
    /\ SectionTrue(c)
    /\ OverlapAfter(b, c)

AllGood(cs) == \A n \in 1 .. Len(cs) : Good(Before(cs, n), cs[n])
Finished(cs) == ~Unfinished(LastOf(cs))

-----------------------------------------------------------------------------
(* The types of the state, and what `opened' says of the piece being        *)
(* placed.                                                                  *)
TypeInv ==
    /\ opts \in Options
    /\ pieces \in Seq(Block)
    /\ \A i \in 1 .. Len(pieces) : pieces[i].sentences # <<>>
    /\ next \in 1 .. Len(pieces) + 1
    /\ opened \in BOOLEAN
    /\ opened => next <= Len(pieces) /\ IsHeading(next)
    /\ cur_section \in Seq(Nat)
    /\ chunks \in Seq(Chunk)

(* The piece whose headings are in force.                                   *)
Current == IF opened THEN next ELSE next - 1

(* The stack holds the headings in force at piece t, and cur_section names  *)
(* them.                                                                    *)
StackFor(t) ==
    /\ heading_stack \in Seq([level : Nat, text : Nat])
    /\ cur_section = [k \in DOMAIN heading_stack |-> heading_stack[k].text]
    /\ Increasing(cur_section)
    /\ \A k \in 1 .. Len(heading_stack) :
          /\ heading_stack[k].text \in 1 .. t
          /\ heading_stack[k].level = Level(heading_stack[k].text)
          /\ InForce(heading_stack[k].text, t)
    /\ \A h \in 1 .. t : InForce(h, t) =>
          \E k \in 1 .. Len(heading_stack) : heading_stack[k].text = h

(* The accumulation goes on where the chunks stop, within the target, and   *)
(* in one section.                                                          *)
CurInv ==
    /\ cur \in Seq(Nat)
    /\ cur = <<>> => ReachedBy(LastOf(chunks)) = next - 1
    /\ cur # <<>> =>
         /\ BodyOK(cur) /\ Last(cur) = next - 1
         /\ Extends(cur, ReachedBy(LastOf(chunks)))
         /\ next - 1 = ReachedBy(LastOf(chunks)) + 1 \/ PieceTokens(cur) <= Target
    /\ opts.split_on_headings =>
         /\ opened => cur = <<>>
         /\ \A k \in 1 .. Len(cur) : SectionOf(cur[k]) = cur_section
         /\ \A k \in 2 .. Len(cur) : ~IsHeading(cur[k])

(* What the accumulation shares with the packed chunk before it; when it    *)
(* is empty, why nothing was carried.                                       *)
ShareInv ==
    chunks # <<>> /\ IsPacked(Last(chunks)) =>
      /\ cur # <<>> => SharesContext(Last(chunks).body, cur)
      /\ cur = <<>> => \/ opts.overlap_tokens = 0
                       \/ IsAtomic(next - 1)
                       \/ opts.split_on_headings /\ opened
                       \/ next = Len(pieces) + 1

(* The inductive invariant.                                                 *)
IInv == TypeInv /\ StackFor(Current) /\ AllGood(chunks) /\ Finished(chunks) /\ CurInv /\ ShareInv

-----------------------------------------------------------------------------
(* The operators on pieces do not change with the steps of the loop,        *)
LEMMA SameRules ==
    ASSUME pieces' = pieces, opts' = opts
    PROVE  /\ \A i : Tokens(i)' = Tokens(i) /\ (IsHeading(i)' <=> IsHeading(i))
                     /\ (IsAtomic(i)' <=> IsAtomic(i)) /\ Level(i)' = Level(i)
                     /\ SectionOf(i)' = SectionOf(i)
           /\ \A h, i : InForce(h, i)' <=> InForce(h, i)
           /\ \A s : PieceTokens(s)' = PieceTokens(s) /\ HeadingsIn(s)' = HeadingsIn(s)
                     /\ (BodyOK(s)' <=> BodyOK(s))
<1>1. \A i : Tokens(i)' = Tokens(i) /\ (IsHeading(i)' <=> IsHeading(i))
                     /\ (IsAtomic(i)' <=> IsAtomic(i)) /\ Level(i)' = Level(i)
  BY DEF Tokens, IsHeading, IsAtomic, Level
<1>2. \A h, i : InForce(h, i)' <=> InForce(h, i)
  BY <1>1 DEF InForce
<1>3. ASSUME NEW i PROVE SectionOf(i)' = SectionOf(i)
  <2>1. {h \in 1 .. i : InForce(h, i)'} = {h \in 1 .. i : InForce(h, i)}
    BY <1>2
  <2> QED
    BY <2>1, Zenon DEF SectionOf
<1>4. ASSUME NEW s PROVE PieceTokens(s)' = PieceTokens(s)
  <2>1. [k \in DOMAIN s |-> Tokens(s[k])'] = [k \in DOMAIN s |-> Tokens(s[k])]
    BY <1>1
  <2> QED
    BY <2>1, Zenon DEF PieceTokens
<1>5. ASSUME NEW s PROVE HeadingsIn(s)' = HeadingsIn(s)
  <2>1. {k \in DOMAIN s : IsHeading(s[k])'} = {k \in DOMAIN s : IsHeading(s[k])}
    BY <1>1
  <2> QED
    BY <2>1, Zenon DEF HeadingsIn
<1>6. \A s : BodyOK(s)' <=> BodyOK(s)
  BY DEF BodyOK
<1> QED
  BY <1>1, <1>2, <1>3, <1>4, <1>5, <1>6

(* nor does what two bodies may share,                                      *)
LEMMA SameShares ==
    ASSUME pieces' = pieces, opts' = opts
    PROVE  \A old, body : SharesContext(old, body)' <=> SharesContext(old, body)
BY SameRules DEF SharesContext, NewIn

(* nor what makes a chunk right.                                            *)
LEMMA SameGood ==
    ASSUME pieces' = pieces, opts' = opts
    PROVE  /\ \A b, c : Good(b, c)' <=> Good(b, c)
           /\ \A cs : (AllGood(cs)' <=> AllGood(cs)) /\ (Finished(cs)' <=> Finished(cs))
<1>1. \A b : Unfinished(b)' <=> Unfinished(b)
  BY DEF Unfinished
<1>2. \A b, c : OnceAfter(b, c)' <=> OnceAfter(b, c)
  BY <1>1 DEF OnceAfter
<1>3. \A body, i : ClosedFor(body, i)' <=> ClosedFor(body, i)
  BY SameRules DEF ClosedFor
<1>4. \A body, r : WithinTarget(body, r)' <=> WithinTarget(body, r)
  BY SameRules DEF WithinTarget
<1>5. \A b, c : FilledAfter(b, c)' <=> FilledAfter(b, c)
  BY <1>3, <1>4 DEF FilledAfter
<1>6. \A c : SectionTrue(c)' <=> SectionTrue(c)
  BY SameRules DEF SectionTrue
<1>7. \A b, c : OverlapAfter(b, c)' <=> OverlapAfter(b, c)
  BY SameShares DEF OverlapAfter
<1>8. \A b, c : Good(b, c)' <=> Good(b, c)
  BY <1>2, <1>5, <1>6, <1>7, SameRules DEF Good
<1> QED
  BY <1>1, <1>8 DEF AllGood, Finished

(* One chunk appended.                                                      *)
LEMMA AppendGood ==
    ASSUME NEW cs \in Seq(Chunk), NEW c \in Chunk, AllGood(cs), Good(LastOf(cs), c)
    PROVE  LET ds == Append(cs, c)
           IN ds \in Seq(Chunk) /\ ds # <<>> /\ Last(ds) = c /\ LastOf(ds) = <<c>> /\ AllGood(ds)
<1> DEFINE n == Len(cs)
           ds == Append(cs, c)
<1>1. n \in Nat /\ ds \in Seq(Chunk) /\ Len(ds) = n + 1 /\ ds[n + 1] = c
      /\ \A i \in 1 .. n : ds[i] = cs[i]
  OBVIOUS
<1> HIDE DEF ds
<1>2. ds # <<>>
  BY <1>1
<1>3. Last(ds) = c /\ LastOf(ds) = <<c>>
  BY <1>1, <1>2 DEF Last, LastOf
<1>4. Before(ds, n + 1) = LastOf(cs)
  <2>1. CASE n = 0
    BY <2>1 DEF Before, LastOf
  <2>2. CASE n # 0
    <3>1. cs # <<>> /\ n + 1 # 1 /\ (n + 1) - 1 = n /\ n \in 1 .. n
      BY <1>1, <2>2
    <3> QED
      BY <1>1, <3>1 DEF Before, LastOf, Last
  <2> QED
    BY <2>1, <2>2
<1>5. ASSUME NEW k \in 1 .. n
      PROVE  Before(ds, k) = Before(cs, k)
  <2>1. k # 1 => k - 1 \in 1 .. n
    BY <1>1
  <2> QED
    BY <1>1, <2>1 DEF Before
<1>6. ASSUME NEW k \in 1 .. Len(ds)
      PROVE  Good(Before(ds, k), ds[k])
  <2>1. CASE k = n + 1
    BY <1>1, <1>4, <2>1
  <2>2. CASE k # n + 1
    <3>1. k \in 1 .. n
      BY <1>1, <2>2
    <3>2. Good(Before(cs, k), cs[k])
      BY <3>1 DEF AllGood
    <3> QED
      BY <1>1, <1>5, <3>1, <3>2
  <2> QED
    BY <2>1, <2>2
<1>7. AllGood(ds)
  BY <1>6 DEF AllGood
<1> QED
  BY <1>1, <1>2, <1>3, <1>7 DEF ds

(* Several chunks appended.                                                 *)
LEMMA JoinGood ==
    ASSUME NEW cs \in Seq(Chunk), NEW es \in Seq(Chunk), es # <<>>, AllGood(cs),
           Good(LastOf(cs), es[1]), \A k \in 2 .. Len(es) : Good(<<es[k - 1]>>, es[k])
    PROVE  LET ds == cs \o es
           IN /\ ds \in Seq(Chunk) /\ ds # <<>> /\ AllGood(ds)
              /\ Last(ds) = es[Len(es)] /\ LastOf(ds) = <<es[Len(es)]>>
<1> DEFINE n == Len(cs)
           m == Len(es)
           ds == cs \o es
<1>1. /\ n \in Nat /\ m \in Nat \ {0} /\ ds \in Seq(Chunk) /\ Len(ds) = n + m
      /\ \A i \in 1 .. n : ds[i] = cs[i]
      /\ \A i \in 1 .. m : ds[n + i] = es[i]
  OBVIOUS
<1> HIDE DEF ds
<1>2. ds # <<>>
  BY <1>1
<1>3. Last(ds) = es[m] /\ LastOf(ds) = <<es[m]>>
  <2>1. m \in 1 .. m
    BY <1>1
  <2> QED
    BY <1>1, <1>2, <2>1 DEF Last, LastOf
<1>4. Before(ds, n + 1) = LastOf(cs)
  <2>1. CASE n = 0
    BY <2>1 DEF Before, LastOf
  <2>2. CASE n # 0
    <3>1. cs # <<>> /\ n + 1 # 1 /\ (n + 1) - 1 = n /\ n \in 1 .. n
      BY <1>1, <2>2
    <3> QED
      BY <1>1, <3>1 DEF Before, LastOf, Last
  <2> QED
    BY <2>1, <2>2
<1>5. ASSUME NEW k \in 1 .. n
      PROVE  Before(ds, k) = Before(cs, k)
  <2>1. k # 1 => k - 1 \in 1 .. n
    BY <1>1
  <2> QED
    BY <1>1, <2>1 DEF Before
<1>6. ASSUME NEW k \in 1 .. Len(ds)
      PROVE  Good(Before(ds, k), ds[k])
  <2>1. CASE k \in 1 .. n
    <3>1. Good(Before(cs, k), cs[k])
      BY <2>1 DEF AllGood
    <3> QED
      BY <1>1, <1>5, <2>1, <3>1
  <2>2. CASE k = n + 1
    <3>1. 1 \in 1 .. m
      BY <1>1
    <3> QED
      BY <1>1, <1>4, <2>2, <3>1
  <2>3. CASE k \notin 1 .. n /\ k # n + 1
    <3> DEFINE j == k - n
    <3>1. j \in 2 .. m /\ j \in 1 .. m /\ j - 1 \in 1 .. m /\ k = n + j /\ k - 1 = n + (j - 1) /\ k # 1
      BY <1>1, <2>3
    <3> HIDE DEF j
    <3>2. ds[k] = es[j] /\ ds[k - 1] = es[j - 1]
      BY <1>1, <3>1
    <3>3. Before(ds, k) = <<es[j - 1]>>
      BY <3>1, <3>2 DEF Before
    <3> QED
      BY <3>1, <3>2, <3>3
  <2> QED
    BY <2>1, <2>2, <2>3
<1>7. AllGood(ds)
  BY <1>6 DEF AllGood
<1> QED
  BY <1>1, <1>2, <1>3, <1>7 DEF ds

-----------------------------------------------------------------------------
(* The pieces of a run are those between its ends.                          *)
LEMMA BodyElements ==
    ASSUME NEW s, Run(s)
    PROVE  /\ \A k \in 1 .. Len(s) : s[k] = Head(s) + k - 1 /\ s[k] \in Head(s) .. Last(s)
           /\ \A k \in DOMAIN s : k \in 1 .. Len(s)
           /\ ToSet(s) = Head(s) .. Last(s)
           /\ Head(s) <= Last(s)
           /\ Increasing(s)
<1>1. /\ Len(s) \in Nat \ {0} /\ s \in [1 .. Len(s) -> Nat] /\ Head(s) \in Nat /\ Last(s) \in Nat
  BY RunFacts
<1>2. /\ \A i \in 1 .. Len(s) : s[i] = Head(s) + i - 1
      /\ Last(s) = Head(s) + Len(s) - 1
  BY RunElements
<1> DEFINE h == Head(s)
           m == Len(s)
           l == Last(s)
<1> HIDE DEF h, m, l
<1>3. \A k \in 1 .. m : s[k] = h + k - 1 /\ s[k] \in h .. l
  BY <1>1, <1>2 DEF h, m, l
<1>4. ToSet(s) = h .. l
  <2>1. \A k \in 1 .. m : s[k] \in h .. l
    BY <1>3
  <2>2. ASSUME NEW i \in h .. l PROVE \E k \in 1 .. m : s[k] = i
    <3>1. i - h + 1 \in 1 .. m /\ h + (i - h + 1) - 1 = i
      BY <1>1, <1>2 DEF h, m, l
    <3> QED
      BY <1>3, <3>1
  <2>3. DOMAIN s = 1 .. m
    BY <1>1 DEF m
  <2> QED
    BY <2>1, <2>2, <2>3 DEF ToSet
<1>5. Increasing(s)
  <2>1. ASSUME NEW i \in 1 .. m, NEW j \in 1 .. m, i < j PROVE s[i] < s[j]
    <3>1. s[i] = h + i - 1 /\ s[j] = h + j - 1
      BY <1>3
    <3> QED
      BY <1>1, <2>1, <3>1 DEF h
  <2> QED
    BY <2>1 DEF Increasing, m
<1>6. h <= l
  BY <1>1, <1>2 DEF h, m, l
<1>7. DOMAIN s = 1 .. m
  BY <1>1 DEF m
<1> QED
  BY <1>3, <1>4, <1>5, <1>6, <1>7 DEF h, m, l

(* The size and the level of a piece.                                       *)
LEMMA TokensType ==
    ASSUME pieces \in Seq(Block), NEW i \in 1 .. Len(pieces)
    PROVE  /\ Tokens(i) \in Nat /\ Level(i) \in Nat
           /\ pieces[i].sentences \in Seq(Nat) /\ Len(pieces[i].sentences) \in Nat
<1>1. pieces[i] \in Block
  OBVIOUS
<1>2. pieces[i].sentences \in Seq(Nat) /\ pieces[i].level \in Nat
  BY <1>1 DEF Block
<1> DEFINE s == pieces[i].sentences
<1>3. Len(s) \in Nat /\ \A k \in 1 .. Len(s) : s[k] \in Nat
  BY <1>2
<1>4. Sum(s) \in Nat
  BY <1>3, SumType
<1> QED
  BY <1>2, <1>3, <1>4 DEF Tokens, Level

(* The size of some pieces.                                                 *)
LEMMA PieceTokensType ==
    ASSUME pieces \in Seq(Block), NEW s \in Seq(1 .. Len(pieces))
    PROVE  PieceTokens(s) \in Nat
<1> DEFINE t == [k \in DOMAIN s |-> Tokens(s[k])]
<1>1. Len(s) \in Nat /\ DOMAIN s = 1 .. Len(s) /\ \A k \in 1 .. Len(s) : s[k] \in 1 .. Len(pieces)
  OBVIOUS
<1>2. Len(t) = Len(s) /\ \A k \in 1 .. Len(s) : t[k] = Tokens(s[k])
  BY <1>1
<1> HIDE DEF t
<1>3. \A k \in 1 .. Len(t) : t[k] \in Nat
  BY <1>1, <1>2, TokensType
<1>4. Sum(t) \in Nat
  BY <1>1, <1>2, <1>3, SumType
<1> QED
  BY <1>4 DEF PieceTokens, t

(* The size of a body with one piece more.                                  *)
LEMMA PieceTokensStep ==
    ASSUME NEW s \in Seq(Nat), NEW i \in Nat
    PROVE  PieceTokens(Append(s, i)) = PieceTokens(s) + Tokens(i)
<1> DEFINE n == Len(s)
           x == Append(s, i)
           t == [k \in DOMAIN s |-> Tokens(s[k])]
           u == [k \in DOMAIN x |-> Tokens(x[k])]
<1>1. n \in Nat /\ DOMAIN s = 1 .. n
  OBVIOUS
<1>2. Len(x) = n + 1 /\ DOMAIN x = 1 .. n + 1 /\ x[n + 1] = i /\ \A k \in 1 .. n : x[k] = s[k]
  OBVIOUS
<1> HIDE DEF x
<1>3. /\ Len(t) = n /\ \A k \in 1 .. n : t[k] = Tokens(s[k])
  BY <1>1
<1>4. /\ Len(u) = n + 1 /\ \A k \in 1 .. n + 1 : u[k] = Tokens(x[k])
  BY <1>1, <1>2
<1> HIDE DEF t, u, n
<1>5. /\ \A k \in 1 .. n : t[k] = u[k]
      /\ u[n + 1] = Tokens(i)
  <2>1. n + 1 \in 1 .. n + 1 /\ \A k \in 1 .. n : k \in 1 .. n + 1
    BY <1>1
  <2> QED
    BY <1>2, <1>3, <1>4, <2>1
<1>6. Sum(u) = Sum(t) + u[n + 1]
  BY <1>1, <1>3, <1>4, <1>5, SumStep
<1> QED
  BY <1>5, <1>6 DEF PieceTokens, t, u, x

(* The size of nothing.                                                     *)
LEMMA PieceTokensEmpty == PieceTokens(<<>>) = 0
<1> DEFINE t == [k \in DOMAIN <<>> |-> Tokens(<<>>[k])]
<1>1. Len(t) = 0
  OBVIOUS
<1> HIDE DEF t
<1>2. Sum(t) = 0
  BY <1>1, SumEmpty
<1> QED
  BY <1>2 DEF PieceTokens, t

(* The pieces and the size of a body.                                       *)
LEMMA BodyTokens ==
    ASSUME pieces \in Seq(Block), NEW s, BodyOK(s)
    PROVE  s \in Seq(1 .. Len(pieces)) /\ PieceTokens(s) \in Nat
<1>1. s \in Seq(Nat) /\ Run(s) /\ Head(s) >= 1 /\ Last(s) <= Len(pieces) /\ Len(pieces) \in Nat
  BY DEF BodyOK, Run
<1>2. Head(s) \in Nat /\ Last(s) \in Nat
  BY <1>1, RunFacts
<1>3. \A k \in 1 .. Len(s) : s[k] \in 1 .. Len(pieces)
  <2>1. \A k \in 1 .. Len(s) : s[k] \in Head(s) .. Last(s)
    BY <1>1, BodyElements
  <2> QED
    BY <1>1, <1>2, <2>1
<1>4. s \in Seq(1 .. Len(pieces))
  BY <1>1, <1>3
<1> QED
  BY <1>4, PieceTokensType

(* A nonempty set of numbers up to m has a largest one.                     *)
LEMMA LargestExists ==
    ASSUME NEW m \in Nat, NEW L \in SUBSET (1 .. m), L # {}
    PROVE  \E n \in L : \A k \in L : k <= n
<1> DEFINE S == {j \in Nat : \A K \in SUBSET (1 .. j) : K # {} => \E n \in K : \A k \in K : k <= n}
<1>1. 0 \in S
  <2>1. 1 .. 0 = {}
    OBVIOUS
  <2> QED
    BY <2>1
<1>2. ASSUME NEW j \in Nat, j \in S
      PROVE  j + 1 \in S
  <2> SUFFICES ASSUME NEW K \in SUBSET (1 .. j + 1), K # {}
               PROVE  \E n \in K : \A k \in K : k <= n
    OBVIOUS
  <2>1. CASE j + 1 \in K
    BY <2>1
  <2>2. CASE j + 1 \notin K
    <3>1. K \in SUBSET (1 .. j)
      BY <2>2
    <3> QED
      BY <1>2, <3>1
  <2> QED
    BY <2>1, <2>2
<1> HIDE DEF S
<1>3. Nat \subseteq S
  BY <1>1, <1>2, NatInduction0
<1> QED
  BY <1>3 DEF S

(* A tail of a run is a run to the same end.                                *)
LEMMA EndOfRun ==
    ASSUME NEW r, Run(r), NEW n \in 1 .. Len(r)
    PROVE  LET e == SubSeq(r, Len(r) - n + 1, Len(r))
           IN /\ Run(e) /\ Len(e) = n
              /\ \A k \in 1 .. n : e[k] = r[Len(r) - n + k]
              /\ Last(e) = Last(r) /\ Head(e) = Last(r) - n + 1 /\ Head(e) >= Head(r)
<1> DEFINE m == Len(r)
           e == SubSeq(r, m - n + 1, m)
<1>1. r \in Seq(Nat) /\ m \in Nat \ {0} /\ Head(r) \in Nat /\ Last(r) \in Nat
  BY RunFacts DEF Run
<1>2. n \in 1 .. m /\ n \in Nat \ {0} /\ n <= m
  BY <1>1
<1>3. \A k \in 1 .. m : r[k] = Head(r) + k - 1
  BY RunElements
<1>4. Last(r) = Head(r) + m - 1
  BY RunElements
<1> HIDE DEF m
<1>5. e \in Seq(Nat) /\ Len(e) = n /\ \A k \in 1 .. n : e[k] = r[m - n + k]
  <2>1. m - n + 1 \in 1 .. m /\ m \in 1 .. m /\ m = Len(r)
    BY <1>1, <1>2 DEF m
  <2>2. \A k \in 1 .. n : m - n + k \in 1 .. m /\ r[m - n + k] \in Nat
    BY <1>1, <1>2 DEF m
  <2>3. e = [k \in 1 .. (m - (m - n + 1) + 1) |-> r[k + (m - n + 1) - 1]]
    BY <1>1, <1>2, <2>1
  <2>4. m - (m - n + 1) + 1 = n /\ \A k \in 1 .. n : k + (m - n + 1) - 1 = m - n + k
    BY <1>1, <1>2
  <2>5. e = [k \in 1 .. n |-> r[m - n + k]]
    BY <2>3, <2>4
  <2> HIDE DEF e
  <2>6. Len(e) = n /\ \A k \in 1 .. n : e[k] = r[m - n + k]
    BY <1>2, <2>5
  <2>7. e \in [1 .. n -> Nat]
    BY <2>2, <2>5
  <2> QED
    BY <1>2, <2>6, <2>7
<1> HIDE DEF e
<1>6. \A k \in 1 .. n : e[k] = Head(r) + (m - n + k) - 1
  <2> TAKE k \in 1 .. n
  <2>1. m - n + k \in 1 .. m
    BY <1>1, <1>2
  <2> QED
    BY <1>3, <1>5, <2>1
<1>7. Run(e)
  <2>1. e # <<>>
    BY <1>2, <1>5
  <2>2. ASSUME NEW k \in 2 .. Len(e) PROVE e[k] = e[k - 1] + 1
    <3>1. k \in 1 .. n /\ k - 1 \in 1 .. n
      BY <1>2, <1>5, <2>2
    <3>2. e[k] = Head(r) + (m - n + k) - 1 /\ e[k - 1] = Head(r) + (m - n + (k - 1)) - 1
      BY <1>6, <3>1
    <3> QED
      BY <1>1, <1>2, <3>1, <3>2
  <2> QED
    BY <1>5, <2>1, <2>2 DEF Run, Consecutive
<1>8. Head(e) = e[1] /\ Last(e) = e[n]
  BY <1>5, <1>7, RunFacts
<1>9. Head(e) = Last(r) - n + 1 /\ Last(e) = Last(r) /\ Head(e) >= Head(r)
  <2>1. 1 \in 1 .. n /\ n \in 1 .. n
    BY <1>2
  <2>2. e[1] = Head(r) + (m - n + 1) - 1 /\ e[n] = Head(r) + (m - n + n) - 1
    BY <1>6, <2>1
  <2>3. \A h \in Nat : /\ h + (m - n + 1) - 1 = (h + m - 1) - n + 1
                       /\ h + (m - n + n) - 1 = h + m - 1
                       /\ (h + m - 1) - n + 1 >= h
    BY <1>1, <1>2
  <2> HIDE DEF e
  <2>4. /\ Head(r) + (m - n + 1) - 1 = Last(r) - n + 1
        /\ Head(r) + (m - n + n) - 1 = Last(r)
        /\ Last(r) - n + 1 >= Head(r)
    BY <1>1, <1>4, <2>3
  <2> QED
    BY <1>8, <2>2, <2>4
<1> QED
  BY <1>5, <1>7, <1>9 DEF e, m

(* What is picked of an increasing sequence is the increasing sequence of   *)
(* the elements chosen.                                                     *)
LEMMA PickedAre ==
    ASSUME NEW s \in Seq(Nat), Increasing(s), NEW e \in Seq(Nat), Increasing(e),
           NEW X, ToSet(e) = ToSet(s) \cap X
    PROVE  Picked(s, {k \in DOMAIN s : s[k] \in X}) = e
<1> DEFINE K == {k \in DOMAIN s : s[k] \in X}
           p == Picked(s, K)
<1>1. Len(s) \in Nat /\ DOMAIN s = 1 .. Len(s) /\ \A i \in 1 .. Len(s) : s[i] \in Nat
  OBVIOUS
<1>2. Len(e) \in Nat /\ DOMAIN e = 1 .. Len(e)
  OBVIOUS
<1>3. /\ p \in Seq(Nat)
      /\ \A j \in 1 .. Len(p) : \E k \in K \cap 1 .. Len(s) : p[j] = s[k]
      /\ \A k \in K \cap 1 .. Len(s) : \E j \in 1 .. Len(p) : p[j] = s[k]
  <2>1. p \in Seq(Nat) /\ PicksUpTo(p, s, K, Len(s))
    BY <1>1, PickedOf
  <2> HIDE DEF K, p
  <2>2. PICK f : /\ f \in [1 .. Len(p) -> Nat]
                 /\ {f[j] : j \in 1 .. Len(p)} = K \cap 1 .. Len(s)
                 /\ \A j \in 1 .. Len(p) : p[j] = s[f[j]]
    BY <2>1 DEF PicksUpTo
  <2> QED
    BY <2>1, <2>2
<1>4. Increasing(p)
  BY PickedIncreasing
<1> HIDE DEF p
<1>5. \A j \in 1 .. Len(p) : \E i \in 1 .. Len(e) : e[i] = p[j]
  <2> TAKE j \in 1 .. Len(p)
  <2>1. PICK k \in K \cap 1 .. Len(s) : p[j] = s[k]
    BY <1>3
  <2>2. p[j] \in ToSet(s) /\ p[j] \in X
    BY <2>1 DEF ToSet
  <2>3. p[j] \in ToSet(e)
    BY <2>2
  <2> QED
    BY <1>2, <2>3 DEF ToSet
<1>6. \A i \in 1 .. Len(e) : \E j \in 1 .. Len(p) : p[j] = e[i]
  <2> TAKE i \in 1 .. Len(e)
  <2>1. e[i] \in ToSet(e)
    BY <1>2 DEF ToSet
  <2>2. e[i] \in ToSet(s) /\ e[i] \in X
    BY <2>1
  <2>3. PICK k \in DOMAIN s : e[i] = s[k]
    BY <2>2 DEF ToSet
  <2>4. k \in K \cap 1 .. Len(s)
    BY <1>1, <2>2, <2>3
  <2> QED
    BY <1>3, <2>3, <2>4
<1>7. \A j \in 1 .. Len(p) : \E i \in 1 .. Len(e) : p[j] = e[i]
  BY <1>5
<1> HIDE DEF K
<1>8. p = e
  BY <1>3, <1>4, <1>6, <1>7, SameIncreasing
<1> QED
  BY <1>8 DEF p, K

(* Nothing picked has no tokens.                                            *)
LEMMA NothingShared ==
    ASSUME NEW s \in Seq(Nat), Increasing(s), NEW X, ToSet(s) \cap X = {}
    PROVE  PieceTokens(Picked(s, {k \in DOMAIN s : s[k] \in X})) = 0
<1> DEFINE e == <<>>
<1>1. e \in Seq(Nat) /\ ToSet(e) = ToSet(s) \cap X /\ Increasing(e)
  BY DEF ToSet, Increasing
<1>2. Picked(s, {k \in DOMAIN s : s[k] \in X}) = e
  <2> HIDE DEF e
  <2> QED
    BY <1>1, PickedAre
<1> QED
  BY <1>2, PieceTokensEmpty

(* The elements of a body with one piece more.                              *)
LEMMA GrownSet ==
    ASSUME NEW s \in Seq(Nat), NEW i \in Nat
    PROVE  ToSet(Append(s, i)) = ToSet(s) \cup {i}
<1> DEFINE x == Append(s, i)
           n == Len(s)
<1>1. /\ n \in Nat /\ DOMAIN s = 1 .. n /\ DOMAIN x = 1 .. n + 1 /\ x[n + 1] = i
      /\ \A k \in 1 .. n : x[k] = s[k]
  OBVIOUS
<1> HIDE DEF x, n
<1>2. \A k \in 1 .. n + 1 : k = n + 1 \/ k \in 1 .. n
  BY <1>1
<1>3. n + 1 \in 1 .. n + 1 /\ \A k \in 1 .. n : k \in 1 .. n + 1
  BY <1>1
<1>4. ToSet(x) = ToSet(s) \cup {i}
  BY <1>1, <1>2, <1>3 DEF ToSet
<1> QED
  BY <1>4 DEF x

-----------------------------------------------------------------------------
(* The last n pieces in hand.                                               *)
End(n) == SubSeq(cur, Len(cur) - n + 1, Len(cur))

(* overlap_pieces is empty only for want of an overlap or after a table or  *)
(* figure; otherwise it is a tail without those, within the overlap or one  *)
(* piece long.                                                              *)
LEMMA OverlapFacts ==
    ASSUME Run(cur), opts \in Options
    PROVE  \/ /\ overlap_pieces = <<>>
              /\ opts.overlap_tokens = 0 \/ IsAtomic(Last(cur))
           \/ \E n \in 1 .. Len(cur) :
                /\ overlap_pieces = End(n)
                /\ opts.overlap_tokens # 0
                /\ \A k \in Len(cur) - n + 1 .. Len(cur) : ~IsAtomic(cur[k])
                /\ n > 1 => PieceTokens(End(n)) <= opts.overlap_tokens
<1> DEFINE Carried(n) == /\ \A k \in Len(cur) - n + 1 .. Len(cur) : ~IsAtomic(cur[k])
                         /\ n > 1 => /\ PieceTokens(End(n)) <= opts.overlap_tokens
                                     /\ PieceTokens(End(n - 1)) < opts.overlap_tokens
           lengths == {n \in 1 .. Len(cur) : Carried(n)}
           longest == CHOOSE n \in lengths : \A k \in lengths : k <= n
<1>1. overlap_pieces = IF opts.overlap_tokens = 0 \/ lengths = {} THEN <<>> ELSE End(longest)
  BY Zenon DEF overlap_pieces, End
<1>2. Len(cur) \in Nat \ {0} /\ Last(cur) = cur[Len(cur)]
  BY RunFacts
<1>3. CASE opts.overlap_tokens = 0
  BY <1>1, <1>3
<1>4. CASE opts.overlap_tokens # 0 /\ lengths = {}
  <2>1. 1 \in 1 .. Len(cur) /\ ~(1 > 1) /\ Len(cur) - 1 + 1 = Len(cur)
    BY <1>2
  <2>2. ~Carried(1)
    BY <1>4, <2>1
  <2>3. \A k \in Len(cur) - 1 + 1 .. Len(cur) : k = Len(cur)
    BY <1>2
  <2>4. IsAtomic(cur[Len(cur)])
    BY <2>1, <2>2, <2>3
  <2> QED
    BY <1>1, <1>2, <1>4, <2>4
<1>5. CASE opts.overlap_tokens # 0 /\ lengths # {}
  <2>1. longest \in lengths
    <3> HIDE DEF Carried
    <3>1. lengths \in SUBSET (1 .. Len(cur)) /\ Len(cur) \in Nat
      BY <1>2
    <3> HIDE DEF lengths
    <3>2. \E n \in lengths : \A k \in lengths : k <= n
      BY <1>5, <3>1, LargestExists
    <3> QED
      BY <3>2
  <2> HIDE DEF longest
  <2>2. longest \in 1 .. Len(cur) /\ Carried(longest)
    BY <2>1
  <2> QED
    BY <1>1, <1>5, <2>2
<1> QED
  BY <1>3, <1>4, <1>5

(* The overlap is a number.                                                 *)
LEMMA OptionFacts ==
    ASSUME opts \in Options
    PROVE  opts.overlap_tokens \in Nat
BY ChunkerAssumption DEF Options

(* Two bodies that share nothing.                                           *)
LEMMA SharesNone ==
    ASSUME opts \in Options, NEW old, Run(old), NEW body, ToSet(old) \cap ToSet(body) = {},
           \/ opts.overlap_tokens = 0 \/ IsAtomic(Last(old))
           \/ opts.split_on_headings /\ \E i \in NewIn(body, Last(old)) : IsHeading(i)
    PROVE  SharesContext(old, body)
<1> DEFINE X == ToSet(old) \cap ToSet(body)
           tokens == PieceTokens(Picked(old, {k \in DOMAIN old : old[k] \in X}))
<1>1. old \in Seq(Nat) /\ Increasing(old)
  BY BodyElements DEF Run
<1>2. tokens = 0
  <2>1. ToSet(old) \cap X = {}
    OBVIOUS
  <2> HIDE DEF X
  <2> QED
    BY <1>1, <2>1, NothingShared
<1>3. X = {}
  OBVIOUS
<1> HIDE DEF X, tokens
<1>4. tokens <= opts.overlap_tokens
  BY <1>2, OptionFacts
<1>5. /\ \A i \in X : ~IsAtomic(i)
      /\ tokens <= opts.overlap_tokens \/ \E i \in X : X = {i}
      /\ opts.overlap_tokens = 0 => X = {}
      /\ \/ opts.overlap_tokens = 0 \/ IsAtomic(Last(old))
         \/ opts.split_on_headings /\ \E i \in NewIn(body, Last(old)) : IsHeading(i)
         \/ Last(old) \in X
  BY <1>3, <1>4
<1> QED
  BY <1>5, Zenon DEF SharesContext, X, tokens

(* Two bodies that share a tail of the first.                               *)
LEMMA SharesEnd ==
    ASSUME opts \in Options, NEW old, Run(old), NEW n \in 1 .. Len(old), NEW body,
           ToSet(old) \cap ToSet(body) = ToSet(SubSeq(old, Len(old) - n + 1, Len(old))),
           \A k \in Len(old) - n + 1 .. Len(old) : ~IsAtomic(old[k]),
           opts.overlap_tokens # 0,
           n > 1 => PieceTokens(SubSeq(old, Len(old) - n + 1, Len(old))) <= opts.overlap_tokens
    PROVE  SharesContext(old, body)
<1> DEFINE e == SubSeq(old, Len(old) - n + 1, Len(old))
           X == ToSet(old) \cap ToSet(body)
           tokens == PieceTokens(Picked(old, {k \in DOMAIN old : old[k] \in X}))
<1>1. /\ Run(e) /\ Len(e) = n /\ Last(e) = Last(old)
      /\ \A k \in 1 .. n : e[k] = old[Len(old) - n + k]
  BY EndOfRun
<1>2. old \in Seq(Nat) /\ Increasing(old) /\ Len(old) \in Nat /\ n \in Nat \ {0}
  BY BodyElements DEF Run
<1>3. X = ToSet(e) /\ (n > 1 => PieceTokens(e) <= opts.overlap_tokens)
  OBVIOUS
<1>4. ToSet(e) = ToSet(old) \cap X
  BY <1>3
<1> HIDE DEF e
<1>5. e \in Seq(Nat) /\ Increasing(e) /\ DOMAIN e = 1 .. n
  BY <1>1, BodyElements DEF Run
<1>6. tokens = PieceTokens(e)
  <2> HIDE DEF X
  <2>1. \A Z : ToSet(e) = ToSet(old) \cap Z
               => Picked(old, {k \in DOMAIN old : old[k] \in Z}) = e
    BY <1>2, <1>5, PickedAre
  <2>2. Picked(old, {k \in DOMAIN old : old[k] \in X}) = e
    BY <1>4, <2>1
  <2> QED
    BY <2>2
<1> HIDE DEF X, tokens
<1>7. \A i \in X : ~IsAtomic(i)
  <2> TAKE i \in X
  <2>1. PICK k \in 1 .. n : e[k] = i
    BY <1>3, <1>5 DEF ToSet
  <2>2. Len(old) - n + k \in Len(old) - n + 1 .. Len(old)
    BY <1>2
  <2> QED
    BY <1>1, <2>1, <2>2
<1>8. tokens <= opts.overlap_tokens \/ \E i \in X : X = {i}
  <2>1. CASE n > 1
    BY <1>3, <1>6, <2>1
  <2>2. CASE n = 1
    <3>1. X = {e[1]}
      BY <1>3, <1>5, <2>2 DEF ToSet
    <3> QED
      BY <3>1
  <2> QED
    BY <1>2, <2>1, <2>2
<1>9. Last(old) \in X
  <2>1. n \in DOMAIN e /\ Last(e) = e[n]
    BY <1>1, <1>2, <1>5 DEF Last
  <2>2. e[n] \in ToSet(e)
    BY <2>1 DEF ToSet
  <2> QED
    BY <1>1, <1>3, <2>1, <2>2
<1>10. /\ \A i \in X : ~IsAtomic(i)
       /\ tokens <= opts.overlap_tokens \/ \E i \in X : X = {i}
       /\ opts.overlap_tokens = 0 => X = {}
       /\ \/ opts.overlap_tokens = 0 \/ IsAtomic(Last(old))
          \/ opts.split_on_headings /\ \E i \in NewIn(body, Last(old)) : IsHeading(i)
          \/ Last(old) \in X
  BY <1>7, <1>8, <1>9
<1> QED
  BY <1>10, Zenon DEF SharesContext, X, tokens

(* A new piece shares nothing.                                              *)
LEMMA SharesGrow ==
    ASSUME NEW old, NEW body \in Seq(Nat), NEW i \in Nat, i \notin ToSet(old),
           SharesContext(old, body)
    PROVE  SharesContext(old, Append(body, i))
<1> DEFINE X == ToSet(old) \cap ToSet(body)
           Y == ToSet(old) \cap ToSet(Append(body, i))
           tokens(Z) == PieceTokens(Picked(old, {k \in DOMAIN old : old[k] \in Z}))
<1>1. ToSet(Append(body, i)) = ToSet(body) \cup {i}
  BY GrownSet
<1>2. Y = X
  BY <1>1
<1>3. NewIn(body, Last(old)) \subseteq NewIn(Append(body, i), Last(old))
  BY <1>1 DEF NewIn
<1>4. /\ \A j \in X : ~IsAtomic(j)
      /\ tokens(X) <= opts.overlap_tokens \/ \E j \in X : X = {j}
      /\ opts.overlap_tokens = 0 => X = {}
      /\ \/ opts.overlap_tokens = 0 \/ IsAtomic(Last(old))
         \/ opts.split_on_headings /\ \E j \in NewIn(body, Last(old)) : IsHeading(j)
         \/ Last(old) \in X
  BY Zenon DEF SharesContext
<1> HIDE DEF X, Y, tokens
<1>5. /\ \A j \in Y : ~IsAtomic(j)
      /\ tokens(Y) <= opts.overlap_tokens \/ \E j \in Y : Y = {j}
      /\ opts.overlap_tokens = 0 => Y = {}
      /\ \/ opts.overlap_tokens = 0 \/ IsAtomic(Last(old))
         \/ opts.split_on_headings /\ \E j \in NewIn(Append(body, i), Last(old)) : IsHeading(j)
         \/ Last(old) \in Y
  <2>1. tokens(Y) = tokens(X)
    BY <1>2
  <2> QED
    BY <1>2, <1>3, <1>4, <2>1
<1> QED
  BY <1>5, Zenon DEF SharesContext, Y, tokens

-----------------------------------------------------------------------------
(* A sequence is its front and its last element.                            *)
LEMMA FrontLast ==
    ASSUME NEW s \in Seq(Nat), s # <<>>
    PROVE  Front(s) \in Seq(Nat) /\ Front(s) \o <<Last(s)>> = s
<1> DEFINE n == Len(s)
           f == Front(s)
           t == f \o <<Last(s)>>
<1>1. n \in Nat \ {0} /\ \A k \in 1 .. n : s[k] \in Nat
  OBVIOUS
<1>2. f \in Seq(Nat) /\ Len(f) = n - 1 /\ \A k \in 1 .. n - 1 : f[k] = s[k]
  <2>1. f = SubSeq(s, 1, n - 1)
    BY DEF Front
  <2>2. f = [k \in 1 .. n - 1 |-> s[k]]
    BY <1>1, <2>1
  <2> HIDE DEF f
  <2>3. \A k \in 1 .. n - 1 : k \in 1 .. n
    BY <1>1
  <2>4. f \in [1 .. n - 1 -> Nat] /\ n - 1 \in Nat
    BY <1>1, <2>2, <2>3
  <2> QED
    BY <2>2, <2>4
<1>3. Last(s) = s[n] /\ s[n] \in Nat
  BY <1>1 DEF Last
<1> HIDE DEF f
<1>4. /\ t \in Seq(Nat) /\ Len(t) = n
      /\ \A k \in 1 .. n : t[k] = s[k]
  <2>1. t \in Seq(Nat) /\ Len(t) = (n - 1) + 1 /\ \A k \in 1 .. n - 1 : t[k] = f[k]
    BY <1>1, <1>2, <1>3
  <2>2. t[(n - 1) + 1] = Last(s)
    BY <1>1, <1>2, <1>3
  <2>3. (n - 1) + 1 = n /\ \A k \in 1 .. n : k = n \/ k \in 1 .. n - 1
    BY <1>1
  <2> HIDE DEF t
  <2> QED
    BY <1>2, <1>3, <2>1, <2>2, <2>3
<1> HIDE DEF t
<1>5. t = s
  <2>1. t \in [1 .. n -> Nat] /\ s \in [1 .. n -> Nat]
    BY <1>4, SeqFunction
  <2> HIDE DEF n
  <2> QED
    BY <1>4, <2>1
<1> QED
  BY <1>2, <1>5 DEF t, f

(* SectionOf lists the headings in force, in order.                         *)
LEMMA SectionElements ==
    ASSUME NEW i \in Nat
    PROVE  /\ SectionOf(i) \in Seq(Nat) /\ Increasing(SectionOf(i))
           /\ \A j \in 1 .. Len(SectionOf(i)) : SectionOf(i)[j] \in 1 .. i /\ InForce(SectionOf(i)[j], i)
           /\ \A h \in 1 .. i : InForce(h, i) => \E j \in 1 .. Len(SectionOf(i)) : SectionOf(i)[j] = h
<1> DEFINE s == [k \in 1 .. i |-> k]
           K == {h \in 1 .. i : InForce(h, i)}
           p == Picked(s, K)
<1>1. s \in Seq(Nat) /\ Len(s) = i /\ \A k \in 1 .. i : s[k] = k
  OBVIOUS
<1>2. Increasing(s)
  BY <1>1 DEF Increasing
<1> HIDE DEF s
<1>3. p \in Seq(Nat) /\ Increasing(p)
  <2> HIDE DEF K
  <2> QED
    BY <1>1, <1>2, PickedIncreasing
<1>4. PicksUpTo(p, s, K, i)
  <2>1. Len(s) \in Nat /\ \A k \in 1 .. Len(s) : s[k] \in Nat
    BY <1>1
  <2> HIDE DEF K
  <2> QED
    BY <1>1, <2>1, PickedOf
<1> HIDE DEF p
<1>5. PICK f : /\ f \in [1 .. Len(p) -> Nat]
               /\ {f[j] : j \in 1 .. Len(p)} = K \cap 1 .. i
               /\ \A j \in 1 .. Len(p) : p[j] = s[f[j]]
  BY <1>4 DEF PicksUpTo
<1>6. \A j \in 1 .. Len(p) : p[j] \in 1 .. i /\ InForce(p[j], i)
  <2> TAKE j \in 1 .. Len(p)
  <2>1. f[j] \in K /\ f[j] \in 1 .. i
    BY <1>5
  <2>2. p[j] = f[j]
    BY <1>1, <1>5, <2>1
  <2> QED
    BY <2>1, <2>2
<1>7. \A h \in 1 .. i : InForce(h, i) => \E j \in 1 .. Len(p) : p[j] = h
  <2> SUFFICES ASSUME NEW h \in 1 .. i, InForce(h, i) PROVE \E j \in 1 .. Len(p) : p[j] = h
    OBVIOUS
  <2>1. h \in K \cap 1 .. i
    OBVIOUS
  <2>2. PICK j \in 1 .. Len(p) : f[j] = h
    BY <1>5, <2>1
  <2> QED
    BY <1>1, <1>5, <2>2
<1>8. p = SectionOf(i)
  BY DEF SectionOf, p, s
<1> QED
  BY <1>3, <1>6, <1>7, <1>8

(* A heading is the innermost of its own section.                           *)
LEMMA SectionLast ==
    ASSUME NEW i \in Nat \ {0}, IsHeading(i)
    PROVE  SectionOf(i) # <<>> /\ Last(SectionOf(i)) = i
<1> DEFINE s == SectionOf(i)
<1>1. /\ s \in Seq(Nat) /\ Increasing(s)
      /\ \A j \in 1 .. Len(s) : s[j] \in 1 .. i
      /\ \A h \in 1 .. i : InForce(h, i) => \E j \in 1 .. Len(s) : s[j] = h
  BY SectionElements
<1>2. i \in 1 .. i /\ InForce(i, i)
  BY DEF InForce
<1> HIDE DEF s
<1>3. PICK j \in 1 .. Len(s) : s[j] = i
  BY <1>1, <1>2
<1>4. Len(s) \in Nat /\ Len(s) \in 1 .. Len(s) /\ s # <<>>
  BY <1>1, <1>3
<1>5. j = Len(s)
  <2>1. s[Len(s)] \in 1 .. i
    BY <1>1, <1>4
  <2>2. j < Len(s) => s[j] < s[Len(s)]
    BY <1>1, <1>3, <1>4 DEF Increasing
  <2> QED
    BY <1>3, <1>4, <2>1, <2>2
<1> QED
  BY <1>3, <1>4, <1>5 DEF s, Last

(* The context line of a body and the headings in it make up its section,   *)
(* if it begins its section's headings or has none.                         *)
LEMMA ContextAndHeadings ==
    ASSUME pieces \in Seq(Block), NEW body, BodyOK(body), opts.heading_context,
           \A k \in 2 .. Len(body) : ~IsHeading(body[k])
    PROVE  LET section == SectionOf(Head(body))
           IN  Context(body, section) \o HeadingsIn(body) = section
<1> DEFINE i == Head(body)
           section == SectionOf(i)
           X == {h \in ToSet(body) : IsHeading(h)}
<1>1. /\ body \in Seq(Nat) /\ Len(body) \in Nat \ {0} /\ i = body[1] /\ i \in Nat \ {0}
      /\ DOMAIN body = 1 .. Len(body) /\ Increasing(body)
  BY RunFacts, BodyElements DEF BodyOK, Run
<1>2. section \in Seq(Nat)
  BY <1>1, SectionElements
<1>3. {k \in DOMAIN body : IsHeading(body[k])} = {k \in DOMAIN body : body[k] \in X}
  BY DEF ToSet
<1>4. HeadingsIn(body) = Picked(body, {k \in DOMAIN body : body[k] \in X})
  BY <1>3, Zenon DEF HeadingsIn
<1>5. X = IF IsHeading(i) THEN {i} ELSE {}
  <2>1. \A k \in 1 .. Len(body) : k = 1 \/ k \in 2 .. Len(body)
    BY <1>1
  <2>2. 1 \in 1 .. Len(body)
    BY <1>1
  <2> QED
    BY <1>1, <2>1, <2>2 DEF ToSet
<1>6. X \subseteq ToSet(body)
  OBVIOUS
<1> HIDE DEF X
<1>7. CASE IsHeading(i)
  <2>1. section # <<>> /\ Last(section) = i
    BY <1>1, <1>7, SectionLast
  <2> HIDE DEF section
  <2>2. Context(body, section) = Front(section)
    BY <1>7, <2>1 DEF Context
  <2>3. <<i>> \in Seq(Nat) /\ Increasing(<<i>>) /\ ToSet(<<i>>) = {i}
    BY <1>1 DEF Increasing, ToSet
  <2>4. ToSet(<<i>>) = ToSet(body) \cap X
    BY <1>5, <1>6, <1>7, <2>3
  <2>5. HeadingsIn(body) = <<i>>
    <3> HIDE DEF i
    <3> QED
      BY <1>1, <1>4, <2>3, <2>4, PickedAre
  <2>6. Front(section) \o <<Last(section)>> = section
    BY <1>2, <2>1, FrontLast
  <2>7. Context(body, section) \o HeadingsIn(body) = section
    BY <2>1, <2>2, <2>5, <2>6
  <2> QED
    BY <2>7 DEF section
<1>8. CASE ~IsHeading(i)
  <2> HIDE DEF section
  <2>1. Context(body, section) = section
    BY <1>8 DEF Context
  <2>2. <<>> \in Seq(Nat) /\ Increasing(<<>>) /\ ToSet(<<>>) = {}
    BY DEF Increasing, ToSet
  <2>3. ToSet(<<>>) = ToSet(body) \cap X
    BY <1>5, <1>6, <1>8, <2>2
  <2>4. HeadingsIn(body) = <<>>
    BY <1>1, <1>4, <2>2, <2>3, PickedAre
  <2>5. section \o <<>> = section
    BY <1>2
  <2>6. Context(body, section) \o HeadingsIn(body) = section
    BY <2>1, <2>4, <2>5
  <2> QED
    BY <2>6 DEF section
<1> QED
  BY <1>7, <1>8

(* The type of a context line.                                              *)
LEMMA ContextType ==
    ASSUME NEW body, NEW section \in Seq(Nat)
    PROVE  Context(body, section) \in Seq(Nat)
<1>1. section # <<>> => Front(section) \in Seq(Nat)
  BY FrontLast
<1>2. <<>> \in Seq(Nat)
  OBVIOUS
<1> QED
  BY <1>1, <1>2 DEF Context

(* The current section is the section of the piece whose headings the       *)
(* stack holds.                                                             *)
LEMMA SectionIs ==
    ASSUME NEW t \in Nat, StackFor(t)
    PROVE  cur_section = SectionOf(t) /\ cur_section \in Seq(Nat)
<1> DEFINE st == heading_stack
           s == SectionOf(t)
<1>1. /\ st \in Seq([level : Nat, text : Nat])
      /\ cur_section = [k \in DOMAIN st |-> st[k].text]
      /\ Increasing(cur_section)
      /\ \A k \in 1 .. Len(st) : st[k].text \in 1 .. t /\ InForce(st[k].text, t)
      /\ \A h \in 1 .. t : InForce(h, t) => \E k \in 1 .. Len(st) : st[k].text = h
  BY DEF StackFor
<1>2. Len(st) \in Nat /\ DOMAIN st = 1 .. Len(st)
  BY <1>1
<1>3. /\ cur_section \in Seq(Nat) /\ Len(cur_section) = Len(st)
      /\ \A k \in 1 .. Len(st) : cur_section[k] = st[k].text
  <2>1. \A k \in 1 .. Len(st) : st[k].text \in Nat
    BY <1>1
  <2>2. cur_section = [k \in 1 .. Len(st) |-> st[k].text]
    BY <1>1, <1>2
  <2>3. cur_section \in [1 .. Len(st) -> Nat]
    BY <2>1, <2>2
  <2>4. cur_section \in Seq(Nat) /\ Len(cur_section) = Len(st)
    BY <1>2, <2>3
  <2> QED
    BY <2>2, <2>4
<1>4. /\ s \in Seq(Nat) /\ Increasing(s)
      /\ \A j \in 1 .. Len(s) : s[j] \in 1 .. t /\ InForce(s[j], t)
      /\ \A h \in 1 .. t : InForce(h, t) => \E j \in 1 .. Len(s) : s[j] = h
  BY SectionElements
<1> HIDE DEF s, st
<1>5. ASSUME NEW k \in 1 .. Len(cur_section)
      PROVE  \E j \in 1 .. Len(s) : s[j] = cur_section[k]
  <2>1. k \in 1 .. Len(st) /\ cur_section[k] = st[k].text
    BY <1>3
  <2>2. st[k].text \in 1 .. t /\ InForce(st[k].text, t)
    BY <1>1, <2>1
  <2> QED
    BY <1>4, <2>1, <2>2
<1>6. ASSUME NEW j \in 1 .. Len(s)
      PROVE  \E k \in 1 .. Len(cur_section) : s[j] = cur_section[k]
  <2>1. s[j] \in 1 .. t /\ InForce(s[j], t)
    BY <1>4
  <2>2. PICK k \in 1 .. Len(st) : st[k].text = s[j]
    BY <1>1, <2>1
  <2> QED
    BY <1>3, <2>2
<1>7. cur_section = s
  <2>1. Increasing(cur_section)
    BY <1>1
  <2>2. /\ cur_section \in Seq(Nat) /\ s \in Seq(Nat)
        /\ Increasing(s)
    BY <1>3, <1>4
  <2> QED
    BY <1>5, <1>6, <2>1, <2>2, SameIncreasing
<1> QED
  BY <1>3, <1>7 DEF s

(* It is the section of the piece being placed.                             *)
LEMMA StackAdvance ==
    ASSUME TypeInv, StackFor(Current), Placing
    PROVE  StackFor(next) /\ cur_section = SectionOf(next) /\ cur_section \in Seq(Nat)
<1>1. next \in Nat \ {0} /\ opened \in BOOLEAN
  BY DEF TypeInv
<1>2. StackFor(next)
  <2>1. CASE opened
    BY <2>1 DEF Current
  <2>2. CASE ~opened
    <3>1. ~IsHeading(next) /\ Current = next - 1
      BY <2>2 DEF Placing, Current
    <3>2. \A h \in 1 .. next - 1 : InForce(h, next - 1) <=> InForce(h, next)
      <4> TAKE h \in 1 .. next - 1
      <4>1. \A g \in h + 1 .. next : g = next \/ g \in h + 1 .. next - 1
        BY <1>1
      <4>2. \A g \in h + 1 .. next - 1 : g \in h + 1 .. next
        BY <1>1
      <4> QED
        BY <3>1, <4>1, <4>2 DEF InForce
    <3>3. ~InForce(next, next)
      BY <3>1 DEF InForce
    <3>4. \A h \in 1 .. next : h = next \/ h \in 1 .. next - 1
      BY <1>1
    <3>5. \A h \in 1 .. next - 1 : h \in 1 .. next
      BY <1>1
    <3>6. StackFor(next - 1)
      BY <3>1
    <3> QED
      BY <3>2, <3>3, <3>4, <3>5, <3>6 DEF StackFor
  <2> QED
    BY <1>1, <2>1, <2>2
<1> QED
  BY <1>1, <1>2, SectionIs

-----------------------------------------------------------------------------
(* The accumulation, closed for one of the reasons, is a right chunk.       *)
LEMMA CloseGood ==
    ASSUME IInv, cur # <<>>, ClosedFor(cur, next)
    PROVE  LET c == Whole(cur, cur_section, FALSE)
           IN c \in Chunk /\ Good(LastOf(chunks), c)
<1> DEFINE c == Whole(cur, cur_section, FALSE)
           b == LastOf(chunks)
           r == ReachedBy(b)
<1>1. c = [body |-> cur, part |-> <<>>, section |-> cur_section,
           context |-> Context(cur, cur_section), is_table_or_figure |-> FALSE]
  BY DEF Whole
<1> HIDE DEF c
<1>2. /\ c.body = cur /\ c.part = <<>> /\ c.section = cur_section
      /\ c.context = Context(cur, cur_section) /\ ~c.is_table_or_figure
  BY <1>1
<1>3. /\ BodyOK(cur) /\ Last(cur) = next - 1 /\ Extends(cur, r) /\ cur \in Seq(Nat)
      /\ next - 1 = r + 1 \/ PieceTokens(cur) <= Target
      /\ next \in Nat \ {0} /\ cur_section \in Seq(Nat)
  BY DEF IInv, TypeInv, CurInv
<1>4. c \in Chunk
  <2>1. Context(cur, cur_section) \in Seq(Nat) /\ <<>> \in Seq(Nat)
    BY <1>3, ContextType
  <2> QED
    BY <1>1, <1>3, <2>1, Zenon DEF Chunk
<1>5. OnceAfter(b, c)
  <2>1. ~Unfinished(b)
    BY DEF IInv, Finished
  <2> QED
    BY <1>2, <1>3, <2>1 DEF OnceAfter
<1>6. FilledAfter(b, c)
  <2>1. WithinTarget(cur, r)
    <3>1. CASE next - 1 = r + 1
      <4>1. ToSet(cur) = Head(cur) .. Last(cur) /\ Head(cur) \in Nat /\ Head(cur) <= Last(cur)
        BY <1>3, BodyElements, RunFacts DEF BodyOK
      <4>2. Head(cur) <= r + 1
        BY <1>3 DEF Extends
      <4>3. r = next - 2
        <5>1. Last(cur) > r
          BY <1>3 DEF Extends
        <5>2. r \in Nat
          <6>1. CASE chunks = <<>>
            BY <6>1 DEF ReachedBy, LastOf
          <6>2. CASE chunks # <<>>
            <7>1. chunks \in Seq(Chunk) /\ Len(chunks) \in 1 .. Len(chunks)
              BY <6>2 DEF IInv, TypeInv
            <7>2. Good(Before(chunks, Len(chunks)), Last(chunks))
              BY <7>1 DEF IInv, AllGood, Last
            <7>3. Last(Last(chunks).body) \in Nat
              BY <7>2, RunFacts DEF Good, BodyOK
            <7> QED
              BY <6>2, <7>3 DEF ReachedBy, LastOf
          <6> QED
            BY <6>1, <6>2
        <5> QED
          BY <1>3, <3>1, <5>2
      <4> HIDE DEF r
      <4>4. NewIn(cur, r) = {next - 1}
        <5> DEFINE l == next - 1
        <5>0. \A h \in Nat, m \in Nat :
                h <= m => \A i : i \in h .. m /\ i > m - 1 <=> i = m
          OBVIOUS
        <5>1. /\ Head(cur) \in Nat /\ l \in Nat /\ Head(cur) <= l
              /\ Last(cur) = l /\ r = l - 1
          BY <1>3, <4>1, <4>3
        <5> HIDE DEF l
        <5>3. \A i : i \in Head(cur) .. l /\ i > l - 1 <=> i = l
          BY <5>0, <5>1
        <5>4. \A i : i \in ToSet(cur) /\ i > r <=> i = l
          BY <4>1, <5>1, <5>3
        <5>2. {i \in ToSet(cur) : i > r} = {next - 1}
          BY <5>4 DEF l
        <5> QED
          BY <5>2 DEF NewIn
      <4>5. next - 1 \in NewIn(cur, r)
        BY <4>4
      <4> QED
        BY <4>4, <4>5 DEF WithinTarget
    <3>2. CASE PieceTokens(cur) <= Target
      BY <3>2 DEF WithinTarget
    <3> QED
      BY <1>3, <3>1, <3>2
  <2>2. Last(cur) + 1 = next
    BY <1>3
  <2>3. ClosedFor(cur, Last(cur) + 1)
    BY <2>2
  <2> QED
    BY <1>2, <2>1, <2>3 DEF FilledAfter
<1>7. SectionTrue(c)
  <2>1. ASSUME opts.split_on_headings, NEW i \in ToSet(cur)
        PROVE  c.section = SectionOf(i)
    <3>1. PICK k \in 1 .. Len(cur) : i = cur[k]
      <4>1. DOMAIN cur = 1 .. Len(cur)
        BY <1>3
      <4> QED
        BY <2>1, <4>1 DEF ToSet
    <3> QED
      BY <1>2, <2>1, <3>1 DEF IInv, CurInv
  <2>2. ASSUME opts.split_on_headings, opts.heading_context
        PROVE  Context(cur, cur_section) \o HeadingsIn(cur) = cur_section
    <3>1. Head(cur) = cur[1] /\ 1 \in 1 .. Len(cur)
      BY <1>3, RunFacts DEF BodyOK
    <3>2. cur_section = SectionOf(Head(cur))
      BY <2>2, <3>1 DEF IInv, CurInv
    <3>3. \A k \in 2 .. Len(cur) : ~IsHeading(cur[k])
      BY <2>2 DEF IInv, CurInv
    <3>4. pieces \in Seq(Block)
      BY DEF IInv, TypeInv
    <3>5. Context(cur, SectionOf(Head(cur))) \o HeadingsIn(cur) = SectionOf(Head(cur))
      BY <1>3, <2>2, <3>3, <3>4, ContextAndHeadings
    <3> QED
      BY <3>2, <3>5
  <2> QED
    BY <1>2, <2>1, <2>2 DEF SectionTrue
<1>8. OverlapAfter(b, c)
  <2> SUFFICES ASSUME b # <<>>, IsPacked(b[1]) PROVE SharesContext(b[1].body, cur)
    BY <1>2 DEF OverlapAfter
  <2>1. chunks # <<>> /\ b[1] = Last(chunks)
    BY DEF LastOf
  <2> QED
    BY <2>1 DEF IInv, ShareInv
<1>9. Good(b, c)
  BY <1>2, <1>3, <1>5, <1>6, <1>7, <1>8 DEF Good
<1> QED
  BY <1>4, <1>9 DEF c

(* What flush! leaves of the chunks.                                        *)
LEMMA FlushedGood ==
    ASSUME IInv, cur # <<>> => ClosedFor(cur, next)
    PROVE  /\ Flushed \in Seq(Chunk) /\ AllGood(Flushed) /\ Finished(Flushed)
           /\ ReachedBy(LastOf(Flushed)) = next - 1
           /\ cur = <<>> => Flushed = chunks
           /\ cur # <<>> => Flushed # <<>> /\ Last(Flushed) = Whole(cur, cur_section, FALSE)
<1>1. CASE cur = <<>>
  <2>1. Flushed = chunks
    BY <1>1 DEF Flushed
  <2> QED
    BY <1>1, <2>1 DEF IInv, TypeInv, CurInv
<1>2. CASE cur # <<>>
  <2> DEFINE c == Whole(cur, cur_section, FALSE)
  <2>1. Flushed = Append(chunks, c)
    BY <1>2 DEF Flushed
  <2>2. c \in Chunk /\ Good(LastOf(chunks), c)
    BY <1>2, CloseGood
  <2>3. c.body = cur /\ c.part = <<>>
    BY DEF Whole
  <2> HIDE DEF c
  <2>4. chunks \in Seq(Chunk) /\ AllGood(chunks) /\ Last(cur) = next - 1
    BY <1>2 DEF IInv, TypeInv, CurInv
  <2>5. /\ Flushed \in Seq(Chunk) /\ Flushed # <<>> /\ Last(Flushed) = c
        /\ LastOf(Flushed) = <<c>> /\ AllGood(Flushed)
    BY <2>1, <2>2, <2>4, AppendGood
  <2>6. <<c>>[1] = c /\ <<c>> # <<>>
    OBVIOUS
  <2>7. Finished(Flushed)
    BY <2>3, <2>5, <2>6 DEF Finished, Unfinished
  <2>8. ReachedBy(LastOf(Flushed)) = next - 1
    BY <2>3, <2>4, <2>5, <2>6 DEF ReachedBy
  <2>9. Last(Flushed) = Whole(cur, cur_section, FALSE)
    BY <2>5 DEF c
  <2> QED
    BY <1>2, <2>5, <2>7, <2>8, <2>9
<1> QED
  BY <1>1, <1>2

(* A body of one piece.                                                     *)
LEMMA OnePiece ==
    ASSUME TypeInv, next <= Len(pieces)
    PROVE  /\ BodyOK(<<next>>) /\ Extends(<<next>>, next - 1) /\ <<next>> \in Seq(Nat)
           /\ ToSet(<<next>>) = {next} /\ Head(<<next>>) = next /\ Last(<<next>>) = next
           /\ Len(<<next>>) = 1
<1>1. next \in Nat \ {0} /\ next \in Nat
  BY DEF TypeInv
<1> DEFINE s == <<next>>
<1>2. Run(s) /\ Head(s) = next /\ Last(s) = next /\ Len(s) = 1 /\ s[1] = next
  BY <1>1, SingleRun
<1> HIDE DEF s
<1>3. ToSet(s) = Head(s) .. Last(s)
  BY <1>2, BodyElements
<1>4. ToSet(s) = {next}
  BY <1>1, <1>2, <1>3
<1>5. BodyOK(s)
  BY <1>1, <1>2 DEF BodyOK
<1>6. Extends(s, next - 1)
  BY <1>1, <1>2 DEF Extends, Run
<1>7. s \in Seq(Nat)
  BY <1>2 DEF Run
<1> QED
  BY <1>2, <1>4, <1>5, <1>6, <1>7 DEF s

(* A table or figure alone is a right chunk.                                *)
LEMMA IsolatedGood ==
    ASSUME TypeInv, StackFor(Current), Placing,
           NEW b, ~Unfinished(b), ReachedBy(b) = next - 1
    PROVE  LET c == Whole(<<next>>, cur_section, TRUE)
           IN  /\ c \in Chunk /\ Good(b, c)
               /\ ~IsPacked(c) /\ ~Unfinished(<<c>>) /\ ReachedBy(<<c>>) = next
<1> DEFINE s == <<next>>
           c == Whole(s, cur_section, TRUE)
<1>1. c = [body |-> s, part |-> <<>>, section |-> cur_section,
           context |-> Context(s, cur_section), is_table_or_figure |-> TRUE]
  BY DEF Whole
<1>2. /\ BodyOK(s) /\ Extends(s, next - 1) /\ s \in Seq(Nat)
      /\ ToSet(s) = {next} /\ Head(s) = next /\ Last(s) = next /\ Len(s) = 1
  BY OnePiece DEF Placing
<1> HIDE DEF c, s
<1>3. /\ c.body = s /\ c.part = <<>> /\ c.section = cur_section
      /\ c.context = Context(s, cur_section) /\ c.is_table_or_figure
  BY <1>1
<1>4. cur_section = SectionOf(next) /\ cur_section \in Seq(Nat)
  BY StackAdvance
<1>5. c \in Chunk
  <2>1. Context(s, cur_section) \in Seq(Nat) /\ <<>> \in Seq(Nat)
    BY <1>4, ContextType
  <2> QED
    BY <1>1, <1>2, <1>4, <2>1, Zenon DEF Chunk
<1>6. OnceAfter(b, c)
  BY <1>2, <1>3 DEF OnceAfter
<1>7. ~IsPacked(c)
  BY <1>3 DEF IsPacked
<1>8. FilledAfter(b, c) /\ OverlapAfter(b, c)
  BY <1>7 DEF FilledAfter, OverlapAfter
<1>9. SectionTrue(c)
  <2>1. opts.heading_context => Context(s, SectionOf(Head(s))) \o HeadingsIn(s) = SectionOf(Head(s))
    <3>1. pieces \in Seq(Block) /\ 2 .. Len(s) = {}
      BY <1>2 DEF TypeInv
    <3> QED
      BY <1>2, <3>1, ContextAndHeadings
  <2> QED
    BY <1>2, <1>3, <1>4, <2>1 DEF SectionTrue
<1>10. Good(b, c)
  BY <1>2, <1>3, <1>6, <1>8, <1>9 DEF Good
<1>11. <<c>>[1] = c /\ <<c>> # <<>>
  OBVIOUS
<1>12. ~Unfinished(<<c>>) /\ ReachedBy(<<c>>) = next
  BY <1>2, <1>3, <1>11 DEF Unfinished, ReachedBy
<1> QED
  BY <1>5, <1>7, <1>10, <1>12 DEF c, s

(* The parts of a split piece are right chunks.                             *)
LEMMA PartsGood ==
    ASSUME TypeInv, StackFor(Current), Placing,
           NEW b, ~Unfinished(b), ReachedBy(b) = next - 1
    PROVE  LET parts == split_oversized(next)
               es == [k \in DOMAIN parts |-> Part(next, parts[k], cur_section)]
           IN  /\ es \in Seq(Chunk) /\ es # <<>>
               /\ Good(b, es[1]) /\ \A k \in 2 .. Len(es) : Good(<<es[k - 1]>>, es[k])
               /\ ~IsPacked(es[Len(es)]) /\ ~Unfinished(<<es[Len(es)]>>)
               /\ ReachedBy(<<es[Len(es)]>>) = next
<1> DEFINE parts == split_oversized(next)
           m == Len(pieces[next].sentences)
           s == <<next>>
           es == [k \in DOMAIN parts |-> Part(next, parts[k], cur_section)]
           n == Len(parts)
<1>1. next \in 1 .. Len(pieces) /\ pieces \in Seq(Block) /\ pieces[next].sentences # <<>>
  BY DEF TypeInv, Placing
<1>2. m \in Nat \ {0}
  <2>1. pieces[next].sentences \in Seq(Nat)
    BY <1>1, TokensType
  <2> QED
    BY <1>1, <2>1
<1>3. PartsUpTo(parts, m)
  BY <1>2, SplitParts
<1>4. /\ BodyOK(s) /\ Extends(s, next - 1) /\ s \in Seq(Nat)
      /\ ToSet(s) = {next} /\ Head(s) = next /\ Last(s) = next /\ Len(s) = 1
  BY OnePiece DEF Placing
<1>5. cur_section = SectionOf(next) /\ cur_section \in Seq(Nat)
  BY StackAdvance
<1> HIDE DEF parts, m
<1>6. /\ parts \in Seq(Seq(Nat)) /\ n \in Nat \ {0} /\ DOMAIN parts = 1 .. n
      /\ \A k \in 1 .. n : Run(parts[k])
      /\ Head(parts[1]) = 1
      /\ \A k \in 1 .. n - 1 : Head(parts[k + 1]) = Last(parts[k]) + 1 /\ Last(parts[k]) < m
      /\ Last(parts[n]) = m
  BY <1>3 DEF PartsUpTo
<1>7. Len(es) = n /\ \A k \in 1 .. n : es[k] = Part(next, parts[k], cur_section)
  BY <1>6
<1>8. ASSUME NEW k \in 1 .. n
      PROVE  /\ es[k] \in Chunk /\ ~IsPacked(es[k]) /\ SectionTrue(es[k])
             /\ es[k].body = s /\ es[k].part = parts[k] /\ parts[k] # <<>> /\ Consecutive(parts[k])
             /\ Last(parts[k]) \in Nat
  <2> DEFINE c == es[k]
             x == IF opts.heading_context THEN cur_section ELSE <<>>
  <2>1. c = [body |-> s, part |-> parts[k], section |-> cur_section, context |-> x,
             is_table_or_figure |-> FALSE]
    BY <1>7 DEF Part
  <2>2. parts[k] \in Seq(Nat) /\ parts[k] # <<>> /\ Consecutive(parts[k]) /\ Last(parts[k]) \in Nat
    BY <1>6, RunFacts DEF Run
  <2>3. x \in Seq(Nat)
    BY <1>5
  <2> HIDE DEF c, x, es, s
  <2>4. c.body = s /\ c.part = parts[k] /\ c.section = cur_section
    BY <2>1
  <2>5. c \in Chunk
    BY <1>4, <1>5, <2>1, <2>2, <2>3, Zenon DEF Chunk
  <2>6. ~IsPacked(c)
    BY <2>2, <2>4 DEF IsPacked
  <2>7. SectionTrue(c)
    BY <1>4, <1>5, <2>2, <2>4 DEF SectionTrue
  <2> QED
    BY <2>2, <2>4, <2>5, <2>6, <2>7 DEF c
<1> HIDE DEF s
<1>9. ASSUME NEW k \in 1 .. n, NEW a, OnceAfter(a, es[k])
      PROVE  Good(a, es[k])
  BY <1>4, <1>8, <1>9 DEF Good, FilledAfter, OverlapAfter
<1>10. es \in Seq(Chunk)
  BY <1>6, <1>8
<1> HIDE DEF es
<1>11. Good(b, es[1])
  <2>1. 1 \in 1 .. n
    BY <1>6
  <2>2. OnceAfter(b, es[1])
    BY <1>4, <1>6, <1>8, <2>1 DEF OnceAfter
  <2> QED
    BY <1>9, <2>1, <2>2
<1>12. ASSUME NEW k \in 2 .. n PROVE Good(<<es[k - 1]>>, es[k])
  <2>1. k \in 1 .. n /\ k - 1 \in 1 .. n /\ k - 1 \in 1 .. n - 1 /\ (k - 1) + 1 = k
    BY <1>6
  <2> DEFINE a == <<es[k - 1]>>
  <2>2. a # <<>> /\ a[1] = es[k - 1]
    OBVIOUS
  <2> HIDE DEF a
  <2>3. Last(parts[k - 1]) < m /\ Head(parts[k]) = Last(parts[k - 1]) + 1
    BY <1>6, <2>1
  <2>4. a[1].part = parts[k - 1] /\ a[1].body = s /\ parts[k - 1] # <<>>
    BY <1>8, <2>1, <2>2
  <2>5. Unfinished(a)
    <3>1. Last(parts[k - 1]) # m
      BY <1>2, <1>8, <2>1, <2>3
    <3> QED
      BY <1>4, <2>2, <2>4, <3>1 DEF Unfinished, m
  <2>6. OnceAfter(a, es[k])
    BY <1>8, <2>1, <2>3, <2>4, <2>5 DEF OnceAfter
  <2>7. Good(a, es[k])
    BY <1>9, <2>1, <2>6
  <2> QED
    BY <2>7 DEF a
<1>13. ~IsPacked(es[n]) /\ ~Unfinished(<<es[n]>>) /\ ReachedBy(<<es[n]>>) = next
  <2>1. n \in 1 .. n
    BY <1>6
  <2> DEFINE a == <<es[n]>>
  <2>2. a # <<>> /\ a[1] = es[n]
    OBVIOUS
  <2> HIDE DEF a
  <2>3. ~Unfinished(a) /\ ReachedBy(a) = next
    BY <1>4, <1>6, <1>8, <2>1, <2>2 DEF Unfinished, ReachedBy, m
  <2> QED
    BY <1>8, <2>1, <2>3 DEF a
<1>14. es # <<>>
  BY <1>6, <1>7
<1> QED
  BY <1>7, <1>10, <1>11, <1>12, <1>13, <1>14 DEF es, parts

(* An entry of the stack.                                                   *)
Headed == [level : Nat, text : Nat]

(* Entering a heading: the stack holds the headings in force at it.         *)
LEMMA OpenedStack ==
    ASSUME TypeInv, StackFor(Current), next <= Len(pieces), IsHeading(next), ~opened,
           pieces' = pieces, opts' = opts,
           heading_stack' = Append(Enclosing(next), [level |-> Level(next), text |-> next]),
           cur_section' = [k \in DOMAIN heading_stack' |-> heading_stack'[k].text],
           NEW t, t = next
    PROVE  StackFor(t)'
<1> DEFINE st == heading_stack
           K == {k \in DOMAIN st : st[k].level < Level(next)}
           q == Picked(st, K)
           top == [level |-> Level(next), text |-> next]
           new == Append(q, top)
           m == Len(q)
           section == [k \in DOMAIN new |-> new[k].text]
<1>1. /\ next \in 1 .. Len(pieces) /\ next \in Nat \ {0} /\ t - 1 \in Nat /\ t = next
      /\ Current = t - 1 /\ Level(next) \in Nat
  <2>1. next \in 1 .. Len(pieces) + 1 /\ pieces \in Seq(Block) /\ Len(pieces) \in Nat
    BY DEF TypeInv
  <2>2. next \in 1 .. Len(pieces)
    BY <2>1
  <2>3. Level(next) \in Nat
    BY <2>1, <2>2, TokensType
  <2> QED
    BY <2>1, <2>2, <2>3 DEF Current
<1>2. /\ st \in Seq(Headed)
      /\ cur_section = [k \in DOMAIN st |-> st[k].text]
      /\ Increasing(cur_section)
      /\ \A k \in 1 .. Len(st) : /\ st[k].text \in 1 .. t - 1
                                 /\ st[k].level = Level(st[k].text)
                                 /\ InForce(st[k].text, t - 1)
      /\ \A h \in 1 .. t - 1 : InForce(h, t - 1) => \E k \in 1 .. Len(st) : st[k].text = h
  BY <1>1 DEF StackFor, Headed
<1> HIDE DEF st
<1>3. Len(st) \in Nat /\ DOMAIN st = 1 .. Len(st) /\ \A k \in 1 .. Len(st) : st[k] \in Headed
  BY <1>2
<1>4. heading_stack' = new
  BY DEF Enclosing, st
<1>5. q \in Seq(Headed) /\ PicksUpTo(q, st, K, Len(st))
  <2> HIDE DEF K
  <2> QED
    BY <1>3, PickedOf
<1> HIDE DEF q
<1>6. PICK f : /\ f \in [1 .. m -> Nat]
               /\ Increasing(f)
               /\ {f[j] : j \in 1 .. m} = K \cap 1 .. Len(st)
               /\ \A j \in 1 .. m : q[j] = st[f[j]]
  BY <1>5 DEF PicksUpTo
<1>7. m \in Nat /\ Len(f) = m
  BY <1>5, <1>6
<1>8. ASSUME NEW j \in 1 .. m
      PROVE  /\ f[j] \in 1 .. Len(st) /\ q[j] = st[f[j]] /\ q[j] \in Headed
             /\ q[j].level < Level(next) /\ q[j].text \in 1 .. t - 1
             /\ q[j].level = Level(q[j].text) /\ InForce(q[j].text, t - 1)
  <2>1. f[j] \in K /\ f[j] \in 1 .. Len(st) /\ q[j] = st[f[j]]
    BY <1>6
  <2>2. st[f[j]].level < Level(next)
    BY <2>1
  <2> HIDE DEF K
  <2> QED
    BY <1>2, <1>3, <2>1, <2>2
<1>9. top \in Headed /\ top.level = Level(next) /\ top.text = next
  BY <1>1 DEF Headed
<1> HIDE DEF top
<1>10. /\ new \in Seq(Headed) /\ Len(new) = m + 1 /\ DOMAIN new = 1 .. m + 1
       /\ new[m + 1] = top /\ \A k \in 1 .. m : new[k] = q[k]
  BY <1>5, <1>7, <1>9
<1> HIDE DEF new
<1>11. /\ Len(section) = m + 1 /\ \A k \in 1 .. m + 1 : section[k] = new[k].text
  BY <1>7, <1>10
<1>12. \A k \in 1 .. m + 1 : k = m + 1 \/ k \in 1 .. m
  BY <1>7
<1>13. Increasing(section)
  <2> HIDE DEF section
  <2> SUFFICES ASSUME NEW i \in 1 .. m + 1, NEW j \in 1 .. m + 1, i < j
               PROVE  section[i] < section[j]
    BY <1>11 DEF Increasing
  <2>1. i \in 1 .. m /\ section[i] = q[i].text
    <3>1. i \in 1 .. m
      BY <1>7
    <3> QED
      BY <1>10, <1>11, <3>1
  <2>2. CASE j = m + 1
    <3>1. section[j] = next /\ section[i] \in 1 .. t - 1
      BY <1>8, <1>9, <1>10, <1>11, <2>1, <2>2
    <3> QED
      BY <1>1, <3>1
  <2>3. CASE j \in 1 .. m
    <3>1. section[j] = q[j].text
      BY <1>10, <1>11, <2>3
    <3>2. f[i] < f[j] /\ f[i] \in 1 .. Len(st) /\ f[j] \in 1 .. Len(st)
      BY <1>6, <1>7, <1>8, <2>1, <2>3 DEF Increasing
    <3>3. /\ cur_section[f[i]] = st[f[i]].text /\ cur_section[f[j]] = st[f[j]].text
          /\ Len(cur_section) = Len(st)
      BY <1>2, <1>3, <3>2
    <3>4. cur_section[f[i]] < cur_section[f[j]]
      BY <1>2, <3>2, <3>3 DEF Increasing
    <3> QED
      BY <1>8, <2>1, <2>3, <3>1, <3>3, <3>4
  <2> QED
    BY <1>12, <2>2, <2>3
<1>14. \A h \in 1 .. t - 1 : InForce(h, t) <=> InForce(h, t - 1) /\ Level(h) < Level(next)
  <2> TAKE h \in 1 .. t - 1
  <2>1. \A g \in h + 1 .. t : g = t \/ g \in h + 1 .. t - 1
    BY <1>1
  <2>2. t \in h + 1 .. t /\ \A g \in h + 1 .. t - 1 : g \in h + 1 .. t
    BY <1>1
  <2> QED
    BY <1>1, <2>1, <2>2 DEF InForce
<1>15. InForce(t, t)
  BY <1>1 DEF InForce
<1>16. ASSUME NEW k \in 1 .. m + 1
       PROVE  /\ new[k].text \in 1 .. t
              /\ new[k].level = Level(new[k].text)
              /\ InForce(new[k].text, t)
  <2>1. CASE k = m + 1
    BY <1>1, <1>9, <1>10, <1>15, <2>1
  <2>2. CASE k \in 1 .. m
    <3>1. new[k] = q[k]
      BY <1>10, <2>2
    <3>2. q[k].text \in 1 .. t - 1 /\ q[k].level = Level(q[k].text) /\ InForce(q[k].text, t - 1)
          /\ q[k].level < Level(next)
      BY <1>8, <2>2
    <3>3. InForce(q[k].text, t)
      BY <1>14, <3>2
    <3>4. q[k].text \in 1 .. t
      BY <1>1, <3>2
    <3> QED
      BY <3>1, <3>2, <3>3, <3>4
  <2> QED
    BY <1>12, <2>1, <2>2
<1>17. ASSUME NEW h \in 1 .. t, InForce(h, t)
       PROVE  \E k \in 1 .. m + 1 : new[k].text = h
  <2>1. CASE h = t
    <3>1. m + 1 \in 1 .. m + 1
      BY <1>7
    <3> QED
      BY <1>1, <1>9, <1>10, <2>1, <3>1
  <2>2. CASE h # t
    <3>1. h \in 1 .. t - 1
      BY <1>1, <2>2
    <3>2. InForce(h, t - 1) /\ Level(h) < Level(next)
      BY <1>14, <1>17, <3>1
    <3>3. PICK k \in 1 .. Len(st) : st[k].text = h
      BY <1>2, <3>1, <3>2
    <3>4. st[k].level < Level(next)
      BY <1>2, <3>2, <3>3
    <3>5. k \in K \cap 1 .. Len(st)
      BY <1>3, <3>4
    <3>6. PICK j \in 1 .. m : f[j] = k
      BY <1>6, <3>5
    <3>7. j \in 1 .. m + 1 /\ new[j].text = h
      BY <1>6, <1>7, <1>10, <3>3, <3>6
    <3> QED
      BY <3>7
  <2> QED
    BY <2>1, <2>2
<1>18. cur_section' = section
  BY <1>4
<1> HIDE DEF section
<1>19. /\ \A i : Level(i)' = Level(i)
       /\ \A h, i : InForce(h, i)' <=> InForce(h, i)
  BY SameRules
<1>20. /\ \A k \in 1 .. Len(heading_stack') :
             /\ heading_stack'[k].text \in 1 .. t
             /\ heading_stack'[k].level = Level(heading_stack[k].text)'
             /\ InForce(heading_stack[k].text, t)'
       /\ \A h \in 1 .. t : InForce(h, t)' =>
             \E k \in 1 .. Len(heading_stack') : heading_stack'[k].text = h
  BY <1>4, <1>10, <1>16, <1>17, <1>19
<1>21. heading_stack' \in Seq(Headed)
  BY <1>4, <1>10
<1>22. Increasing(cur_section)'
  BY <1>13, <1>18
<1> QED
  BY <1>20, <1>21, <1>22 DEF StackFor, Headed

(* A body with the piece being placed added.                                *)
LEMMA GrownBody ==
    ASSUME TypeInv, next <= Len(pieces), NEW e \in Seq(Nat), NEW r \in Nat,
           \/ e = <<>> /\ r = next - 1
           \/ Run(e) /\ Head(e) >= 1 /\ Last(e) = next - 1 /\ Head(e) <= r + 1 /\ r < next
    PROVE  LET body == Append(e, next)
           IN  /\ BodyOK(body) /\ Last(body) = next /\ Extends(body, r)
               /\ body \in Seq(Nat) /\ body # <<>> /\ Len(body) = Len(e) + 1
               /\ body[Len(e) + 1] = next /\ \A k \in 1 .. Len(e) : body[k] = e[k]
<1> DEFINE body == Append(e, next)
<1>1. next \in Nat \ {0} /\ next \in Nat /\ Len(e) \in Nat
  BY DEF TypeInv
<1>2. /\ body \in Seq(Nat) /\ Len(body) = Len(e) + 1
      /\ body[Len(e) + 1] = next /\ \A k \in 1 .. Len(e) : body[k] = e[k]
  BY <1>1
<1>3. body # <<>>
  BY <1>1, <1>2
<1>4. CASE e = <<>> /\ r = next - 1
  <2>1. body = <<next>>
    BY <1>4
  <2>2. BodyOK(body) /\ Last(body) = next /\ Extends(body, r)
    BY <1>4, <2>1, OnePiece
  <2> QED
    BY <1>2, <1>3, <2>2
<1>5. CASE Run(e) /\ Head(e) >= 1 /\ Last(e) = next - 1 /\ Head(e) <= r + 1 /\ r < next
  <2>1. Last(e) + 1 = next
    BY <1>1, <1>5
  <2>2. Run(body) /\ Head(body) = Head(e) /\ Last(body) = next
    <3>1. LET t == Append(e, Last(e) + 1)
          IN Run(t) /\ Head(t) = Head(e) /\ Last(t) = Last(e) + 1
      BY <1>5, LongerRun
    <3> QED
      BY <2>1, <3>1
  <2> HIDE DEF body
  <2>3. BodyOK(body) /\ Extends(body, r)
    BY <1>5, <2>2 DEF BodyOK, Extends, Run
  <2> QED
    BY <1>2, <1>3, <2>2, <2>3 DEF body
<1> QED
  BY <1>4, <1>5

(* The part of CurInv that speaks of sections.                              *)
OneSection(s) ==
    opts.split_on_headings =>
      /\ \A k \in 1 .. Len(s) : SectionOf(s[k]) = cur_section
      /\ \A k \in 2 .. Len(s) : ~IsHeading(s[k])

(* The piece being placed is in the section of the accumulation.            *)
LEMMA GrownSection ==
    ASSUME TypeInv, StackFor(Current), Placing, NEW e \in Seq(Nat), NEW body, OneSection(e),
           opts.split_on_headings /\ e # <<>> => ~opened,
           Len(body) = Len(e) + 1, body[Len(e) + 1] = next, \A k \in 1 .. Len(e) : body[k] = e[k]
    PROVE  OneSection(body)
<1> SUFFICES ASSUME opts.split_on_headings
             PROVE  /\ \A k \in 1 .. Len(body) : SectionOf(body[k]) = cur_section
                    /\ \A k \in 2 .. Len(body) : ~IsHeading(body[k])
  BY DEF OneSection
<1>1. Len(e) \in Nat
  OBVIOUS
<1>2. cur_section = SectionOf(next)
  BY StackAdvance
<1>3. ASSUME NEW k \in 1 .. Len(body) PROVE SectionOf(body[k]) = cur_section
  <2>1. k = Len(e) + 1 \/ k \in 1 .. Len(e)
    BY <1>1
  <2> QED
    BY <1>2, <2>1 DEF OneSection
<1>4. ASSUME NEW k \in 2 .. Len(body) PROVE ~IsHeading(body[k])
  <2>1. CASE k = Len(e) + 1
    <3>1. e # <<>>
      BY <1>1, <1>4, <2>1
    <3> QED
      BY <2>1, <3>1 DEF Placing
  <2>2. CASE k # Len(e) + 1
    <3>1. k \in 2 .. Len(e) /\ k \in 1 .. Len(e)
      BY <1>1, <1>4, <2>2
    <3> QED
      BY <3>1 DEF OneSection
  <2> QED
    BY <2>1, <2>2
<1> QED
  BY <1>3, <1>4

(* The piece that the chunks reach.                                         *)
LEMMA ReachedType ==
    ASSUME TypeInv, AllGood(chunks)
    PROVE  /\ ReachedBy(LastOf(chunks)) \in Nat
           /\ chunks # <<>> => /\ BodyOK(Last(chunks).body)
                               /\ Last(Last(chunks).body) = ReachedBy(LastOf(chunks))
<1>1. CASE chunks = <<>>
  BY <1>1 DEF ReachedBy, LastOf
<1>2. CASE chunks # <<>>
  <2>1. Len(chunks) \in 1 .. Len(chunks)
    BY <1>2 DEF TypeInv
  <2>2. Good(Before(chunks, Len(chunks)), Last(chunks))
    BY <2>1 DEF AllGood, Last
  <2>3. BodyOK(Last(chunks).body)
    BY <2>2 DEF Good
  <2>4. Last(Last(chunks).body) \in Nat
    BY <2>3, RunFacts DEF BodyOK
  <2>5. ReachedBy(LastOf(chunks)) = Last(Last(chunks).body)
    BY <1>2 DEF ReachedBy, LastOf
  <2> QED
    BY <2>3, <2>4, <2>5
<1> QED
  BY <1>1, <1>2

(* What every placing step keeps.                                           *)
LEMMA PlacedKeeps ==
    ASSUME IInv, Placing, Placed, chunks' \in Seq(Chunk)
    PROVE  /\ TypeInv' /\ StackFor(Current)' /\ Current' = next
           /\ pieces' = pieces /\ opts' = opts /\ next' - 1 = next /\ ~opened'
<1>1. pieces' = pieces /\ opts' = opts /\ next' = next + 1 /\ ~opened'
      /\ heading_stack' = heading_stack /\ cur_section' = cur_section /\ opened' = FALSE
  BY DEF Placed
<1>2. next \in 1 .. Len(pieces) /\ Len(pieces) \in Nat
  BY DEF IInv, TypeInv, Placing
<1>3. next' - 1 = next /\ next' \in 1 .. Len(pieces) + 1
  BY <1>1, <1>2
<1>4. TypeInv'
  BY <1>1, <1>3 DEF IInv, TypeInv
<1>5. Current' = next
  BY <1>1, <1>3 DEF Current
<1>6. StackFor(next)
  BY StackAdvance DEF IInv
<1>7. PICK t : t = next
  OBVIOUS
<1>8. StackFor(t)
  BY <1>6, <1>7
<1>9. StackFor(t)'
  BY <1>1, <1>8, SameRules DEF StackFor
<1>10. StackFor(Current)'
  BY <1>5, <1>7, <1>9
<1> QED
  BY <1>1, <1>3, <1>4, <1>5, <1>10

(* The part of CurInv that speaks of the chunks, which reach piece r when   *)
(* the pieces before the n-th have been placed.                             *)
Accumulates(s, r, n) ==
    /\ s \in Seq(Nat)
    /\ s = <<>> => r = n - 1
    /\ s # <<>> =>
         /\ BodyOK(s) /\ Last(s) = n - 1
         /\ Extends(s, r)
         /\ n - 1 = r + 1 \/ PieceTokens(s) <= Target

(* CurInv in parts.                                                         *)
LEMMA CurInvParts ==
    CurInv <=> /\ Accumulates(cur, ReachedBy(LastOf(chunks)), next)
               /\ OneSection(cur)
               /\ opts.split_on_headings /\ opened => cur = <<>>
BY DEF CurInv, Accumulates, OneSection

(* The invariants of the next state, stated of its chunks cs and its        *)
(* accumulation s.                                                          *)
LEMMA NextParts ==
    ASSUME pieces' = pieces, opts' = opts, NEW s, s = cur', NEW cs, cs = chunks',
           AllGood(cs), Finished(cs),
           Accumulates(s, ReachedBy(LastOf(cs)), next'),
           opts.split_on_headings => /\ \A k \in 1 .. Len(s) : SectionOf(s[k]) = cur_section'
                                     /\ \A k \in 2 .. Len(s) : ~IsHeading(s[k]),
           opts.split_on_headings /\ opened' => s = <<>>
    PROVE  AllGood(chunks)' /\ Finished(chunks)' /\ CurInv'
<1>1. AllGood(cs)' /\ Finished(cs)'
  BY SameGood
<1>2. Accumulates(s, ReachedBy(LastOf(cs)), next)'
  <2>1. BodyOK(s)' <=> BodyOK(s)
    BY SameRules
  <2>2. PieceTokens(s)' = PieceTokens(s)
    BY SameRules
  <2> QED
    BY <2>1, <2>2 DEF Accumulates
<1>3. OneSection(s)'
  <2>1. \A i : SectionOf(i)' = SectionOf(i) /\ (IsHeading(i)' <=> IsHeading(i))
    BY SameRules
  <2> QED
    BY <2>1 DEF OneSection
<1>4. (opts.split_on_headings /\ opened => cur = <<>>)'
  OBVIOUS
<1>5. AllGood(chunks)' /\ Finished(chunks)'
  BY <1>1
<1>6. Accumulates(cur, ReachedBy(LastOf(chunks)), next)' /\ OneSection(cur)'
  BY <1>2, <1>3
<1>7. CurInv'
  BY <1>4, <1>6 DEF CurInv, Accumulates, OneSection
<1> QED
  BY <1>5, <1>7

(* The same for ShareInv.                                                   *)
LEMMA NextShares ==
    ASSUME pieces' = pieces, opts' = opts, NEW s, s = cur', NEW cs, cs = chunks',
           cs # <<>> /\ IsPacked(Last(cs)) =>
              /\ s # <<>> => SharesContext(Last(cs).body, s)
              /\ s = <<>> => \/ opts.overlap_tokens = 0
                             \/ IsAtomic(next' - 1)
                             \/ opts.split_on_headings /\ opened'
                             \/ next' = Len(pieces) + 1
    PROVE  ShareInv'
<1>1. \A old, body : SharesContext(old, body)' <=> SharesContext(old, body)
  BY SameShares
<1>2. \A i : IsAtomic(i)' <=> IsAtomic(i)
  BY SameRules
<1>3. PICK i : i = next' - 1
  OBVIOUS
<1>4. PICK n : n = next'
  OBVIOUS
<1>5. IsAtomic(i)' <=> IsAtomic(i)
  BY <1>2
<1>6. \A old : SharesContext(old, s)' <=> SharesContext(old, s)
  BY <1>1
<1> QED
  BY <1>3, <1>5, <1>6 DEF ShareInv

-----------------------------------------------------------------------------
(* Opening a section keeps the invariant,                                   *)
LEMMA OpenSectionKeeps ==
    ASSUME IInv, OpenSection
    PROVE  IInv'
<1>1. /\ next <= Len(pieces) /\ IsHeading(next) /\ ~opened /\ opened'
      /\ opts' = opts /\ pieces' = pieces /\ next' = next /\ opened' = TRUE
      /\ heading_stack' = Append(Enclosing(next), [level |-> Level(next), text |-> next])
      /\ cur_section' = [k \in DOMAIN heading_stack' |-> heading_stack'[k].text]
  BY DEF OpenSection
<1>2. TypeInv /\ StackFor(Current) /\ AllGood(chunks) /\ Finished(chunks) /\ CurInv /\ ShareInv
  BY DEF IInv
<1>3. next \in Nat
  BY <1>2 DEF TypeInv
<1>4. StackFor(Current)'
  <2>1. PICK t : t = next
    OBVIOUS
  <2>2. StackFor(t)'
    BY <1>1, <1>2, <2>1, OpenedStack
  <2>3. Current' = t
    BY <1>1, <2>1 DEF Current
  <2> QED
    BY <2>2, <2>3
<1>5. cur_section' \in Seq(Nat)
  <2>1. PICK st : st = heading_stack'
    OBVIOUS
  <2>2. st \in Seq([level : Nat, text : Nat]) /\ cur_section' = [k \in DOMAIN st |-> st[k].text]
    BY <1>4, <2>1 DEF StackFor
  <2>3. DOMAIN st = 1 .. Len(st) /\ Len(st) \in Nat /\ \A k \in 1 .. Len(st) : st[k].text \in Nat
    <3>1. \A h \in Headed : h.text \in Nat
      BY DEF Headed
    <3>2. st \in Seq(Headed)
      BY <2>2 DEF Headed
    <3>3. DOMAIN st = 1 .. Len(st) /\ Len(st) \in Nat /\ \A k \in 1 .. Len(st) : st[k] \in Headed
      BY <3>2
    <3> QED
      BY <3>1, <3>3
  <2>4. cur_section' \in [1 .. Len(st) -> Nat]
    BY <2>2, <2>3
  <2> QED
    BY <2>3, <2>4
<1>6. CASE opts.split_on_headings
  <2>1. chunks' = Flushed /\ cur' = <<>>
    BY <1>1, <1>6 DEF OpenSection
  <2>2. ClosedFor(cur, next)
    BY <1>1, <1>6 DEF ClosedFor
  <2>3. /\ Flushed \in Seq(Chunk) /\ AllGood(Flushed) /\ Finished(Flushed)
        /\ ReachedBy(LastOf(Flushed)) = next - 1
    BY <2>2, FlushedGood
  <2>4. PICK cs : cs = chunks'
    OBVIOUS
  <2>5. AllGood(cs) /\ Finished(cs) /\ ReachedBy(LastOf(cs)) = next - 1
    BY <2>1, <2>3, <2>4
  <2>6. TypeInv'
    <3>1. IsHeading(next)'
      BY <1>1, SameRules
    <3> QED
      BY <1>1, <1>2, <1>5, <2>1, <2>3, <3>1 DEF TypeInv
  <2>7. Accumulates(<<>>, ReachedBy(LastOf(cs)), next')
    <3>1. <<>> \in Seq(Nat)
      OBVIOUS
    <3> QED
      BY <1>1, <2>5, <3>1 DEF Accumulates
  <2>8. AllGood(chunks)' /\ Finished(chunks)' /\ CurInv'
    <3>1. Len(<<>>) = 0 /\ 1 .. 0 = {} /\ 2 .. 0 = {}
      OBVIOUS
    <3> QED
      BY <1>1, <2>1, <2>4, <2>5, <2>7, <3>1, NextParts
  <2>9. ShareInv'
    BY <1>1, <1>6, <2>1, NextShares
  <2> QED
    BY <1>4, <2>6, <2>8, <2>9 DEF IInv
<1>7. CASE ~opts.split_on_headings
  <2>1. chunks' = chunks /\ cur' = cur
    BY <1>1, <1>7 DEF OpenSection
  <2>2. TypeInv'
    <3>1. IsHeading(next)'
      BY <1>1, SameRules
    <3> QED
      BY <1>1, <1>2, <1>5, <2>1, <3>1 DEF TypeInv
  <2>3. PICK cs : cs = chunks'
    OBVIOUS
  <2>4. PICK s : s = cur'
    OBVIOUS
  <2>5. AllGood(cs) /\ Finished(cs)
    BY <1>2, <2>1, <2>3
  <2>6. Accumulates(s, ReachedBy(LastOf(cs)), next')
    BY <1>1, <1>2, <2>1, <2>3, <2>4, CurInvParts
  <2>7. AllGood(chunks)' /\ Finished(chunks)' /\ CurInv'
    BY <1>1, <1>7, <2>3, <2>4, <2>5, <2>6, NextParts
  <2>8. ShareInv'
    <3>1. cs # <<>> /\ IsPacked(Last(cs)) =>
              /\ s # <<>> => SharesContext(Last(cs).body, s)
              /\ s = <<>> => \/ opts.overlap_tokens = 0
                             \/ IsAtomic(next' - 1)
                             \/ opts.split_on_headings /\ opened'
                             \/ next' = Len(pieces) + 1
      BY <1>1, <1>2, <2>1, <2>3, <2>4 DEF ShareInv
    <3> QED
      BY <1>1, <2>3, <2>4, <3>1, NextShares
  <2> QED
    BY <1>4, <2>2, <2>7, <2>8 DEF IInv
<1> QED
  BY <1>6, <1>7

(* a step that leaves nothing in hand does,                                 *)
LEMMA ClosingKeeps ==
    ASSUME IInv, Placing, Placed, NEW cs, cs = chunks', cs \in Seq(Chunk), cs # <<>>, cur' = <<>>,
           AllGood(cs), LastOf(cs) = <<Last(cs)>>, ~Unfinished(<<Last(cs)>>),
           ReachedBy(<<Last(cs)>>) = next, ~IsPacked(Last(cs))
    PROVE  IInv'
<1>1. /\ TypeInv' /\ StackFor(Current)' /\ pieces' = pieces /\ opts' = opts
      /\ next' - 1 = next /\ ~opened'
  BY PlacedKeeps
<1>2. Finished(cs)
  BY DEF Finished
<1>3. Accumulates(<<>>, ReachedBy(LastOf(cs)), next')
  <2>1. <<>> \in Seq(Nat)
    OBVIOUS
  <2> QED
    BY <1>1, <2>1 DEF Accumulates
<1>4. AllGood(chunks)' /\ Finished(chunks)' /\ CurInv'
  <2>1. Len(<<>>) = 0 /\ 1 .. 0 = {} /\ 2 .. 0 = {}
    OBVIOUS
  <2> QED
    BY <1>1, <1>2, <1>3, <2>1, NextParts
<1>5. ShareInv'
  BY <1>1, NextShares
<1> QED
  BY <1>1, <1>4, <1>5 DEF IInv

(* isolating a table or figure does,                                        *)
LEMMA IsolateKeeps ==
    ASSUME IInv, Isolate
    PROVE  IInv'
<1> DEFINE c == Whole(<<next>>, cur_section, TRUE)
<1>1. Placing /\ Isolated /\ Placed /\ cur' = <<>> /\ chunks' = Append(Flushed, c)
  BY DEF Isolate
<1>2. TypeInv /\ StackFor(Current)
  BY DEF IInv
<1>3. ClosedFor(cur, next)
  BY <1>1 DEF ClosedFor, Isolated
<1>4. /\ Flushed \in Seq(Chunk) /\ AllGood(Flushed) /\ Finished(Flushed)
      /\ ReachedBy(LastOf(Flushed)) = next - 1
  BY <1>3, FlushedGood
<1>5. /\ c \in Chunk /\ Good(LastOf(Flushed), c)
      /\ ~IsPacked(c) /\ ~Unfinished(<<c>>) /\ ReachedBy(<<c>>) = next
  BY <1>1, <1>2, <1>4, IsolatedGood DEF Finished
<1> HIDE DEF c
<1>6. PICK cs : cs = chunks'
  OBVIOUS
<1>7. cs \in Seq(Chunk) /\ cs # <<>> /\ Last(cs) = c /\ LastOf(cs) = <<c>> /\ AllGood(cs)
  BY <1>1, <1>4, <1>5, <1>6, AppendGood
<1> QED
  BY <1>1, <1>5, <1>6, <1>7, ClosingKeeps

(* splitting a piece does,                                                  *)
LEMMA SplitKeeps ==
    ASSUME IInv, Split
    PROVE  IInv'
<1> DEFINE parts == split_oversized(next)
           es == [k \in DOMAIN parts |-> Part(next, parts[k], cur_section)]
           c == es[Len(es)]
<1>1. Placing /\ Oversized /\ Placed /\ cur' = <<>> /\ chunks' = Flushed \o es
  BY DEF Split
<1>2. TypeInv /\ StackFor(Current)
  BY DEF IInv
<1>3. ClosedFor(cur, next)
  BY <1>1 DEF ClosedFor, Oversized
<1>4. /\ Flushed \in Seq(Chunk) /\ AllGood(Flushed) /\ Finished(Flushed)
      /\ ReachedBy(LastOf(Flushed)) = next - 1
  BY <1>3, FlushedGood
<1>5. /\ es \in Seq(Chunk) /\ es # <<>>
      /\ Good(LastOf(Flushed), es[1]) /\ \A k \in 2 .. Len(es) : Good(<<es[k - 1]>>, es[k])
      /\ ~IsPacked(c) /\ ~Unfinished(<<c>>) /\ ReachedBy(<<c>>) = next
  BY <1>1, <1>2, <1>4, PartsGood DEF Finished
<1> HIDE DEF es
<1>6. PICK cs : cs = chunks'
  OBVIOUS
<1>7. cs \in Seq(Chunk) /\ cs # <<>> /\ Last(cs) = c /\ LastOf(cs) = <<c>> /\ AllGood(cs)
  BY <1>1, <1>4, <1>5, <1>6, JoinGood
<1> QED
  BY <1>1, <1>5, <1>6, <1>7, ClosingKeeps

(* What an accumulation closed for want of room shares with the next.       *)
LEMMA SharedPart ==
    ASSUME Run(cur), opts \in Options, NEW body, NEW e, e = overlap_pieces, Last(cur) < next,
           next \in Nat, body = Append(e, next)
    PROVE  /\ SharesContext(cur, body)
           /\ e \in Seq(Nat)
           /\ e # <<>> => \E n \in 1 .. Len(cur) :
                /\ Run(e) /\ Len(e) = n /\ Last(e) = Last(cur) /\ Head(e) >= Head(cur)
                /\ Head(e) <= Last(cur)
                /\ \A k \in 1 .. n : e[k] = cur[Len(cur) - n + k]
<1>1. /\ ToSet(cur) = Head(cur) .. Last(cur) /\ Head(cur) \in Nat /\ Last(cur) \in Nat
      /\ Len(cur) \in Nat
  BY BodyElements, RunFacts
<1>2. next \notin ToSet(cur)
  BY <1>1
<1>3. CASE e = <<>> /\ (opts.overlap_tokens = 0 \/ IsAtomic(Last(cur)))
  <2>1. e \in Seq(Nat) /\ ToSet(e) = {}
    BY <1>3 DEF ToSet
  <2>2. ToSet(body) = {next}
    BY <2>1, GrownSet
  <2>3. ToSet(cur) \cap ToSet(body) = {}
    BY <1>2, <2>2
  <2>4. SharesContext(cur, body)
    BY <1>3, <2>3, SharesNone
  <2> QED
    BY <1>3, <2>1, <2>4
<1>4. ASSUME NEW n \in 1 .. Len(cur), e = End(n), opts.overlap_tokens # 0,
             \A k \in Len(cur) - n + 1 .. Len(cur) : ~IsAtomic(cur[k]),
             n > 1 => PieceTokens(End(n)) <= opts.overlap_tokens
      PROVE  /\ SharesContext(cur, body)
             /\ Run(e) /\ Len(e) = n /\ Last(e) = Last(cur) /\ Head(e) >= Head(cur)
             /\ Head(e) <= Last(cur)
             /\ \A k \in 1 .. n : e[k] = cur[Len(cur) - n + k]
  <2>1. e = SubSeq(cur, Len(cur) - n + 1, Len(cur))
    BY <1>4 DEF End
  <2>2. /\ Run(e) /\ Len(e) = n /\ Last(e) = Last(cur) /\ Head(e) >= Head(cur)
        /\ Head(e) = Last(cur) - n + 1
        /\ \A k \in 1 .. n : e[k] = cur[Len(cur) - n + k]
    BY <2>1, EndOfRun
  <2>3. ToSet(e) = Head(e) .. Last(e) /\ Head(e) \in Nat /\ Head(e) <= Last(e) /\ e \in Seq(Nat)
    BY <2>2, BodyElements, RunFacts DEF Run
  <2>4. ToSet(body) = ToSet(e) \cup {next}
    BY <2>3, GrownSet
  <2>5. ToSet(e) \subseteq ToSet(cur)
    <3>1. \A i \in Head(e) .. Last(cur) : i \in Head(cur) .. Last(cur)
      BY <1>1, <2>2, <2>3
    <3> QED
      BY <1>1, <2>2, <2>3, <3>1
  <2>6. ToSet(cur) \cap ToSet(body) = ToSet(e)
    BY <1>2, <2>4, <2>5
  <2>7. ToSet(cur) \cap ToSet(body) = ToSet(SubSeq(cur, Len(cur) - n + 1, Len(cur)))
    BY <2>1, <2>6
  <2>8. n > 1 => PieceTokens(SubSeq(cur, Len(cur) - n + 1, Len(cur))) <= opts.overlap_tokens
    BY <1>4 DEF End
  <2>9. SharesContext(cur, body)
    BY <1>4, <2>7, <2>8, SharesEnd
  <2> QED
    BY <2>2, <2>3, <2>9
<1>5. CASE \E n \in 1 .. Len(cur) :
                /\ e = End(n)
                /\ opts.overlap_tokens # 0
                /\ \A k \in Len(cur) - n + 1 .. Len(cur) : ~IsAtomic(cur[k])
                /\ n > 1 => PieceTokens(End(n)) <= opts.overlap_tokens
  BY <1>4, <1>5 DEF Run
<1> QED
  BY <1>3, <1>5, OverlapFacts

(* packing a piece does,                                                    *)
LEMMA PackKeeps ==
    ASSUME IInv, Pack
    PROVE  IInv'
<1> DEFINE r == ReachedBy(LastOf(chunks))
<1>1. Placing /\ ~Oversized /\ ~Isolated /\ Placed
  BY DEF Pack
<1>2. /\ TypeInv /\ StackFor(Current) /\ AllGood(chunks) /\ Finished(chunks) /\ CurInv /\ ShareInv
      /\ Accumulates(cur, r, next) /\ OneSection(cur)
      /\ (opts.split_on_headings /\ opened => cur = <<>>)
  BY CurInvParts DEF IInv
<1>3. /\ next \in 1 .. Len(pieces) /\ next <= Len(pieces) /\ next \in Nat /\ Len(pieces) \in Nat
      /\ pieces \in Seq(Block) /\ opts \in Options /\ chunks \in Seq(Chunk) /\ opened \in BOOLEAN
  BY <1>1, <1>2 DEF TypeInv, Placing
<1>4. r \in Nat /\ (chunks # <<>> => /\ BodyOK(Last(chunks).body)
                                     /\ Last(Last(chunks).body) = r)
  BY <1>2, ReachedType
<1>5. Tokens(next) \in Nat
  BY <1>3, TokensType
<1> HIDE DEF r
<1>6. PICK body : body = cur'
  OBVIOUS
<1>7. PICK cs : cs = chunks'
  OBVIOUS
<1>8. CASE HasRoom
  <2>1. chunks' = chunks /\ cur' = Append(cur, next)
    BY <1>8 DEF Pack
  <2>2. /\ TypeInv' /\ StackFor(Current)' /\ pieces' = pieces /\ opts' = opts
        /\ next' - 1 = next /\ ~opened' /\ cur_section' = cur_section
    BY <1>1, <1>3, <2>1, PlacedKeeps DEF Placed
  <2>3. cur \in Seq(Nat) /\ body = Append(cur, next)
    BY <1>2, <1>6, <2>1 DEF Accumulates
  <2>4. \/ cur = <<>> /\ r = next - 1
        \/ Run(cur) /\ Head(cur) >= 1 /\ Last(cur) = next - 1 /\ Head(cur) <= r + 1 /\ r < next
    <3>1. CASE cur = <<>>
      BY <1>2, <3>1 DEF Accumulates
    <3>2. CASE cur # <<>>
      BY <1>2, <1>3, <1>4, <3>2 DEF Accumulates, BodyOK, Extends
    <3> QED
      BY <3>1, <3>2
  <2>5. /\ BodyOK(body) /\ Last(body) = next /\ Extends(body, r)
        /\ body \in Seq(Nat) /\ body # <<>> /\ Len(body) = Len(cur) + 1
        /\ body[Len(cur) + 1] = next /\ \A k \in 1 .. Len(cur) : body[k] = cur[k]
    BY <1>2, <1>3, <1>4, <2>3, <2>4, GrownBody
  <2>6. next = r + 1 \/ PieceTokens(body) <= Target
    <3>1. CASE cur = <<>>
      BY <1>3, <1>4, <2>4, <3>1 DEF Run
    <3>2. CASE cur # <<>>
      <4>1. PieceTokens(body) = PieceTokens(cur) + Tokens(next)
        BY <1>3, <2>3, PieceTokensStep
      <4> QED
        BY <1>8, <3>2, <4>1 DEF HasRoom
    <3> QED
      BY <3>1, <3>2
  <2>7. Accumulates(body, ReachedBy(LastOf(cs)), next')
    BY <1>7, <2>1, <2>2, <2>5, <2>6 DEF Accumulates, r
  <2>8. OneSection(body)
    BY <1>1, <1>2, <2>3, <2>5, GrownSection
  <2>9. AllGood(chunks)' /\ Finished(chunks)' /\ CurInv'
    <3>1. AllGood(cs) /\ Finished(cs)
      BY <1>2, <1>7, <2>1
    <3>2. opts.split_on_headings => /\ \A k \in 1 .. Len(body) : SectionOf(body[k]) = cur_section'
                                    /\ \A k \in 2 .. Len(body) : ~IsHeading(body[k])
      BY <2>2, <2>8 DEF OneSection
    <3> QED
      BY <1>6, <1>7, <2>2, <2>7, <3>1, <3>2, NextParts
  <2>10. ASSUME chunks # <<>>, IsPacked(Last(chunks))
         PROVE  SharesContext(Last(chunks).body, body)
    <3> DEFINE old == Last(chunks).body
    <3>1. BodyOK(old) /\ Last(old) = r
      BY <1>4, <2>10
    <3> HIDE DEF old
    <3>2. Run(old) /\ ToSet(old) = Head(old) .. Last(old) /\ Head(old) \in Nat /\ Last(old) \in Nat
      BY <3>1, BodyElements, RunFacts DEF BodyOK
    <3>3. r < next
      BY <1>3, <1>4, <2>4
    <3>4. next \notin ToSet(old)
      BY <1>3, <3>1, <3>2, <3>3
    <3>5. CASE cur # <<>>
      <4>1. SharesContext(old, cur)
        BY <1>2, <2>10, <3>5 DEF ShareInv, old
      <4> QED
        BY <1>3, <2>3, <3>4, <4>1, SharesGrow DEF old
    <3>6. CASE cur = <<>>
      <4>1. ToSet(cur) = {}
        BY <3>6 DEF ToSet
      <4>2. ToSet(body) = {next}
        BY <1>3, <2>3, <4>1, GrownSet
      <4>3. ToSet(old) \cap ToSet(body) = {}
        BY <3>4, <4>2
      <4>4. r = next - 1
        BY <1>2, <3>6 DEF Accumulates
      <4>5. \/ opts.overlap_tokens = 0
            \/ IsAtomic(next - 1)
            \/ opts.split_on_headings /\ opened
            \/ next = Len(pieces) + 1
        BY <1>2, <2>10, <3>6 DEF ShareInv
      <4>6. opened => IsHeading(next)
        BY <1>2 DEF TypeInv
      <4>7. next \in NewIn(body, Last(old))
        BY <1>3, <3>1, <3>3, <4>2 DEF NewIn
      <4>8. \/ opts.overlap_tokens = 0 \/ IsAtomic(Last(old))
            \/ opts.split_on_headings /\ \E i \in NewIn(body, Last(old)) : IsHeading(i)
        <5>1. next # Len(pieces) + 1
          BY <1>3
        <5> QED
          BY <3>1, <4>4, <4>5, <4>6, <4>7, <5>1
      <4> QED
        BY <1>3, <3>2, <4>3, <4>8, SharesNone DEF old
    <3> QED
      BY <3>5, <3>6
  <2>11. ShareInv'
    BY <1>6, <1>7, <2>1, <2>2, <2>5, <2>10, NextShares
  <2> QED
    BY <2>2, <2>9, <2>11 DEF IInv
<1>9. CASE ~HasRoom
  <2>0. PICK e : e = overlap_pieces
    OBVIOUS
  <2>1. chunks' = Flushed /\ cur' = Append(e, next) /\ cur # <<>>
        /\ ~(PieceTokens(cur) + Tokens(next) <= Target)
    BY <1>9, <2>0 DEF Pack, HasRoom
  <2>2. /\ cur \in Seq(Nat) /\ BodyOK(cur) /\ Run(cur) /\ Last(cur) = next - 1
    BY <1>2, <2>1 DEF Accumulates, BodyOK
  <2>3. ClosedFor(cur, next)
    <3>1. PieceTokens(cur) \in Nat
      BY <1>3, <2>2, BodyTokens
    <3>2. PieceTokens(cur) + Tokens(next) > Target
      BY <1>5, <2>1, <3>1, ChunkerAssumption
    <3> QED
      BY <3>2 DEF ClosedFor
  <2>4. /\ Flushed \in Seq(Chunk) /\ AllGood(Flushed) /\ Finished(Flushed)
        /\ ReachedBy(LastOf(Flushed)) = next - 1
        /\ Flushed # <<>> /\ Last(Flushed) = Whole(cur, cur_section, FALSE)
    BY <2>1, <2>3, FlushedGood
  <2>5. /\ TypeInv' /\ StackFor(Current)' /\ pieces' = pieces /\ opts' = opts
        /\ next' - 1 = next /\ ~opened' /\ cur_section' = cur_section
    BY <1>1, <2>1, <2>4, PlacedKeeps DEF Placed
  <2>6. body = Append(e, next)
    BY <1>6, <2>1
  <2>7. /\ SharesContext(cur, body)
        /\ e \in Seq(Nat)
        /\ e # <<>> => \E n \in 1 .. Len(cur) :
             /\ Run(e) /\ Len(e) = n /\ Last(e) = Last(cur) /\ Head(e) >= Head(cur)
             /\ Head(e) <= Last(cur)
             /\ \A k \in 1 .. n : e[k] = cur[Len(cur) - n + k]
    <3>1. Last(cur) < next
      BY <1>3, <2>2
    <3>2. Run(cur) /\ opts \in Options /\ next \in Nat
      BY <1>3, <2>2
    <3>3. \A f, g : f = overlap_pieces /\ g = Append(f, next) =>
            /\ SharesContext(cur, g)
            /\ f \in Seq(Nat)
            /\ f # <<>> => \E n \in 1 .. Len(cur) :
                 /\ Run(f) /\ Len(f) = n /\ Last(f) = Last(cur) /\ Head(f) >= Head(cur)
                 /\ Head(f) <= Last(cur)
                 /\ \A k \in 1 .. n : f[k] = cur[Len(cur) - n + k]
      BY <3>1, <3>2, SharedPart, Zenon
    <3> QED
      BY <2>0, <2>6, <3>3, Zenon
  <2>8. \/ e = <<>>
        \/ Run(e) /\ Head(e) >= 1 /\ Last(e) = next - 1 /\ Head(e) <= (next - 1) + 1 /\ next - 1 < next
    <3>1. Head(cur) >= 1 /\ Head(cur) \in Nat
      BY <2>2, RunFacts DEF BodyOK
    <3>2. CASE e # <<>>
      <4>1. /\ Run(e) /\ Last(e) = next - 1 /\ Head(e) >= Head(cur) /\ Head(e) <= next - 1
        BY <2>2, <2>7, <3>2
      <4>2. Head(e) \in Nat
        BY <4>1, RunFacts
      <4> QED
        BY <1>3, <3>1, <4>1, <4>2
    <3> QED
      BY <3>2
  <2>9. /\ BodyOK(body) /\ Last(body) = next /\ Extends(body, next - 1)
        /\ body \in Seq(Nat) /\ body # <<>> /\ Len(body) = Len(e) + 1
        /\ body[Len(e) + 1] = next /\ \A k \in 1 .. Len(e) : body[k] = e[k]
    <3>1. next - 1 \in Nat
      BY <1>3
    <3> QED
      BY <1>2, <1>3, <2>6, <2>7, <2>8, <3>1, GrownBody
  <2>10. Accumulates(body, ReachedBy(LastOf(cs)), next')
    <3>1. ReachedBy(LastOf(cs)) = next - 1
      BY <1>7, <2>1, <2>4
    <3>2. next = (next - 1) + 1
      BY <1>3
    <3> QED
      BY <2>5, <2>9, <3>1, <3>2 DEF Accumulates
  <2>11. OneSection(e)
    <3> SUFFICES ASSUME opts.split_on_headings, e # <<>>
                 PROVE  /\ \A k \in 1 .. Len(e) : SectionOf(e[k]) = cur_section
                        /\ \A k \in 2 .. Len(e) : ~IsHeading(e[k])
      BY DEF OneSection
    <3>1. PICK n \in 1 .. Len(cur) : Len(e) = n /\ \A k \in 1 .. n : e[k] = cur[Len(cur) - n + k]
      BY <2>7
    <3>2. Len(cur) \in Nat
      BY <2>2
    <3>3. \A k \in 1 .. n : Len(cur) - n + k \in 1 .. Len(cur)
      BY <3>1, <3>2
    <3>4. \A k \in 2 .. n : Len(cur) - n + k \in 2 .. Len(cur) /\ k \in 1 .. n
      BY <3>1, <3>2
    <3> QED
      BY <1>2, <3>1, <3>3, <3>4 DEF OneSection
  <2>12. OneSection(body)
    BY <1>1, <1>2, <2>1, <2>7, <2>9, <2>11, GrownSection
  <2>13. AllGood(chunks)' /\ Finished(chunks)' /\ CurInv'
    <3>1. AllGood(cs) /\ Finished(cs)
      BY <1>7, <2>1, <2>4
    <3>2. opts.split_on_headings => /\ \A k \in 1 .. Len(body) : SectionOf(body[k]) = cur_section'
                                    /\ \A k \in 2 .. Len(body) : ~IsHeading(body[k])
      BY <2>5, <2>12 DEF OneSection
    <3> QED
      BY <1>6, <1>7, <2>5, <2>10, <3>1, <3>2, NextParts
  <2>14. ShareInv'
    <3>1. Last(cs).body = cur
      BY <1>7, <2>1, <2>4 DEF Whole
    <3> QED
      BY <1>6, <1>7, <2>5, <2>7, <2>9, <3>1, NextShares
  <2> QED
    BY <2>5, <2>13, <2>14 DEF IInv
<1> QED
  BY <1>8, <1>9

(* and so does the flush after the loop.                                    *)
LEMMA FinishKeeps ==
    ASSUME IInv, Finish
    PROVE  IInv'
<1>1. /\ next = Len(pieces) + 1 /\ cur # <<>> /\ chunks' = Flushed /\ cur' = <<>>
      /\ opts' = opts /\ pieces' = pieces /\ next' = next /\ opened' = opened
      /\ heading_stack' = heading_stack /\ cur_section' = cur_section
  BY DEF Finish
<1>2. TypeInv /\ StackFor(Current)
  BY DEF IInv
<1>3. ClosedFor(cur, next)
  BY <1>1 DEF ClosedFor
<1>4. /\ Flushed \in Seq(Chunk) /\ AllGood(Flushed) /\ Finished(Flushed)
      /\ ReachedBy(LastOf(Flushed)) = next - 1
  BY <1>3, FlushedGood
<1>5. PICK cs : cs = chunks'
  OBVIOUS
<1>6. TypeInv'
  <2>1. IsHeading(next)' <=> IsHeading(next)
    BY <1>1 DEF IsHeading
  <2> QED
    BY <1>1, <1>2, <1>4, <2>1 DEF TypeInv
<1>7. StackFor(Current)'
  <2>1. PICK t : t = Current
    OBVIOUS
  <2>2. Current' = t
    BY <1>1, <2>1 DEF Current
  <2>3. StackFor(t)
    BY <1>2, <2>1
  <2>4. StackFor(t)'
    BY <1>1, <2>3, SameRules DEF StackFor
  <2> QED
    BY <2>2, <2>4
<1>8. Accumulates(<<>>, ReachedBy(LastOf(cs)), next')
  <2>1. <<>> \in Seq(Nat)
    OBVIOUS
  <2> QED
    BY <1>1, <1>4, <1>5, <2>1 DEF Accumulates
<1>9. AllGood(chunks)' /\ Finished(chunks)' /\ CurInv'
  <2>1. Len(<<>>) = 0 /\ 1 .. 0 = {} /\ 2 .. 0 = {}
    OBVIOUS
  <2> QED
    BY <1>1, <1>4, <1>5, <1>8, <2>1, NextParts
<1>10. ShareInv'
  BY <1>1, NextShares
<1> QED
  BY <1>6, <1>7, <1>9, <1>10 DEF IInv

(* So does a step that changes nothing.                                     *)
LEMMA StutterKeeps ==
    ASSUME IInv, UNCHANGED vars
    PROVE  IInv'
<1>1. /\ opts' = opts /\ pieces' = pieces /\ next' = next /\ opened' = opened
      /\ heading_stack' = heading_stack /\ cur_section' = cur_section /\ cur' = cur
      /\ chunks' = chunks
  BY DEF vars
<1>2. TypeInv /\ StackFor(Current) /\ AllGood(chunks) /\ Finished(chunks) /\ CurInv /\ ShareInv
  BY DEF IInv
<1>3. TypeInv'
  <2>1. IsHeading(next)' <=> IsHeading(next)
    BY <1>1 DEF IsHeading
  <2> QED
    BY <1>1, <1>2, <2>1 DEF TypeInv
<1>4. StackFor(Current)'
  <2>1. PICK t : t = Current
    OBVIOUS
  <2>2. Current' = t
    BY <1>1, <2>1 DEF Current
  <2>3. StackFor(t)
    BY <1>2, <2>1
  <2>4. StackFor(t)'
    BY <1>1, <2>3, SameRules DEF StackFor
  <2> QED
    BY <2>2, <2>4
<1>5. PICK cs : cs = chunks'
  OBVIOUS
<1>6. PICK s : s = cur'
  OBVIOUS
<1>7. AllGood(chunks)' /\ Finished(chunks)' /\ CurInv'
  <2>1. /\ AllGood(cs) /\ Finished(cs) /\ Accumulates(s, ReachedBy(LastOf(cs)), next')
    BY <1>1, <1>2, <1>5, <1>6, CurInvParts
  <2>2. opts.split_on_headings => /\ \A k \in 1 .. Len(s) : SectionOf(s[k]) = cur_section'
                                  /\ \A k \in 2 .. Len(s) : ~IsHeading(s[k])
    BY <1>1, <1>2, <1>6 DEF CurInv
  <2>3. opts.split_on_headings /\ opened' => s = <<>>
    BY <1>1, <1>2, <1>6 DEF CurInv
  <2> QED
    BY <1>1, <1>5, <1>6, <2>1, <2>2, <2>3, NextParts
<1>8. ShareInv'
  <2>1. cs # <<>> /\ IsPacked(Last(cs)) =>
              /\ s # <<>> => SharesContext(Last(cs).body, s)
              /\ s = <<>> => \/ opts.overlap_tokens = 0
                             \/ IsAtomic(next' - 1)
                             \/ opts.split_on_headings /\ opened'
                             \/ next' = Len(pieces) + 1
    BY <1>1, <1>2, <1>5, <1>6 DEF ShareInv
  <2> QED
    BY <1>1, <1>5, <1>6, <2>1, NextShares
<1> QED
  BY <1>3, <1>4, <1>7, <1>8 DEF IInv

(* The invariant holds before the first piece.                              *)
LEMMA IInvInit == Init => IInv
<1> SUFFICES ASSUME Init PROVE IInv
  OBVIOUS
<1>1. PICK body \in Bodies : pieces = collect_pieces(body, opts)
  BY DEF Init
<1> DEFINE K == {k \in DOMAIN body : BecomesPiece(body[k], opts)}
<1>2. body \in Seq(Block)
  BY ChunkerAssumption
<1>3. pieces = Picked(body, K)
  BY <1>1 DEF collect_pieces
<1>4. pieces \in Seq(Block) /\ PicksUpTo(pieces, body, K, Len(body))
  <2>1. Len(body) \in Nat /\ \A i \in 1 .. Len(body) : body[i] \in Block
    BY <1>2
  <2> HIDE DEF K
  <2> QED
    BY <1>3, <2>1, PickedOf
<1>5. ASSUME NEW i \in 1 .. Len(pieces) PROVE pieces[i].sentences # <<>>
  <2>1. PICK f : /\ {f[j] : j \in 1 .. Len(pieces)} = K \cap 1 .. Len(body)
                 /\ \A j \in 1 .. Len(pieces) : pieces[j] = body[f[j]]
    BY <1>4 DEF PicksUpTo
  <2>2. f[i] \in K /\ pieces[i] = body[f[i]]
    BY <2>1
  <2> QED
    BY <2>2 DEF BecomesPiece
<1>6. /\ opts \in Options /\ next = 1 /\ opened = FALSE /\ heading_stack = <<>>
      /\ cur_section = <<>> /\ cur = <<>> /\ chunks = <<>>
  BY DEF Init
<1>7. <<>> \in Seq(Nat) /\ <<>> \in Seq(Chunk) /\ <<>> \in Seq([level : Nat, text : Nat])
      /\ Len(<<>>) = 0 /\ 1 .. 0 = {} /\ 2 .. 0 = {} /\ DOMAIN <<>> = {}
  OBVIOUS
<1>8. TypeInv
  <2>1. 1 \in 1 .. Len(pieces) + 1
    BY <1>4
  <2> QED
    BY <1>4, <1>5, <1>6, <1>7, <2>1 DEF TypeInv
<1>9. StackFor(Current)
  <2>1. Current = 0
    BY <1>6 DEF Current
  <2>2. [k \in DOMAIN <<>> |-> <<>>[k].text] = <<>>
    OBVIOUS
  <2>3. Increasing(<<>>)
    BY <1>7 DEF Increasing
  <2>4. StackFor(0)
    BY <1>6, <1>7, <2>2, <2>3 DEF StackFor
  <2> QED
    BY <2>1, <2>4
<1>10. LastOf(chunks) = <<>>
  BY <1>6 DEF LastOf
<1>11. AllGood(chunks) /\ Finished(chunks)
  BY <1>6, <1>7, <1>10 DEF AllGood, Finished, Unfinished
<1>12. CurInv
  BY <1>6, <1>7, <1>10 DEF CurInv, ReachedBy
<1>13. ShareInv
  BY <1>6 DEF ShareInv
<1> QED
  BY <1>8, <1>9, <1>11, <1>12, <1>13 DEF IInv

(* Every step keeps the inductive invariant.                                *)
LEMMA IInvStep == IInv /\ [Next]_vars => IInv'
<1> SUFFICES ASSUME IInv, [Next]_vars PROVE IInv'
  OBVIOUS
<1>1. CASE OpenSection
  BY <1>1, OpenSectionKeeps
<1>2. CASE Isolate
  BY <1>2, IsolateKeeps
<1>3. CASE Split
  BY <1>3, SplitKeeps
<1>4. CASE Pack
  BY <1>4, PackKeeps
<1>5. CASE Finish
  BY <1>5, FinishKeeps
<1>6. CASE UNCHANGED vars
  BY <1>6, StutterKeeps
<1> QED
  BY <1>1, <1>2, <1>3, <1>4, <1>5, <1>6 DEF Next

(* Every chunk is right after the one before it, and the accumulation and   *)
(* the stack of headings are as the next step of chunk() needs them.        *)
THEOREM Chunking == Spec => []IInv
BY IInvInit, IInvStep, PTL DEF Spec

-----------------------------------------------------------------------------
(* The n-th chunk, in the terms of the properties.                          *)
LEMMA ChunkIsGood ==
    ASSUME IInv, NEW n \in DOMAIN chunks
    PROVE  /\ n \in 1 .. Len(chunks) /\ chunks \in Seq(Chunk)
           /\ Good(Before(chunks, n), chunks[n])
           /\ ReachedBy(Before(chunks, n)) = Reached(n - 1)
           /\ Reached(n) = Last(chunks[n].body)
           /\ Unfinished(Before(chunks, n)) <=>
                n > 1 /\ chunks[n - 1].part # <<>> /\ ~LastPart(n - 1)
           /\ n > 1 => Before(chunks, n) = <<chunks[n - 1]>>
<1>1. n \in 1 .. Len(chunks) /\ chunks \in Seq(Chunk)
  BY DEF IInv, TypeInv
<1>2. Good(Before(chunks, n), chunks[n])
  BY <1>1 DEF IInv, AllGood
<1>3. Reached(n) = Last(chunks[n].body)
  BY <1>1 DEF Reached
<1>4. CASE n = 1
  <2>1. Before(chunks, n) = <<>> /\ n - 1 = 0
    BY <1>4 DEF Before
  <2> QED
    BY <1>1, <1>2, <1>3, <1>4, <2>1 DEF ReachedBy, Reached, Unfinished
<1>5. CASE n # 1
  <2> DEFINE b == <<chunks[n - 1]>>
  <2>1. Before(chunks, n) = b /\ n > 1 /\ n - 1 # 0
    BY <1>1, <1>5 DEF Before
  <2>2. b # <<>> /\ b[1] = chunks[n - 1]
    OBVIOUS
  <2> HIDE DEF b
  <2>3. ReachedBy(b) = Reached(n - 1)
    BY <2>1, <2>2 DEF ReachedBy, Reached
  <2>4. Unfinished(b) <=> chunks[n - 1].part # <<>> /\ ~LastPart(n - 1)
    BY <2>2 DEF Unfinished, LastPart
  <2> QED
    BY <1>1, <1>2, <1>3, <2>1, <2>3, <2>4 DEF b
<1> QED
  BY <1>4, <1>5

(* The types of the state, and that the headings on the stack enclose each  *)
(* other.                                                                   *)
LEMMA TypesOfIInv == IInv => TypeOK
<1> SUFFICES ASSUME IInv PROVE TypeOK
  OBVIOUS
<1>1. TypeInv /\ StackFor(Current) /\ CurInv
  BY DEF IInv
<1>2. /\ opts \in Options /\ pieces \in Seq(Block) /\ next \in 1 .. Len(pieces) + 1
      /\ opened \in BOOLEAN /\ chunks \in Seq(Chunk) /\ Len(pieces) \in Nat
  BY <1>1 DEF TypeInv
<1>3. \A t \in 1 .. Current : t \in Positions
  BY <1>1, <1>2 DEF TypeInv, Current, Positions
<1> DEFINE st == heading_stack
<1>4. /\ st \in Seq([level : Nat, text : Nat])
      /\ cur_section = [k \in DOMAIN st |-> st[k].text]
      /\ Increasing(cur_section)
      /\ \A k \in 1 .. Len(st) : /\ st[k].text \in 1 .. Current
                                 /\ st[k].level = Level(st[k].text)
                                 /\ InForce(st[k].text, Current)
  BY <1>1 DEF StackFor
<1>5. Len(st) \in Nat /\ DOMAIN st = 1 .. Len(st)
  BY <1>4
<1>6. ASSUME NEW k \in 2 .. Len(st)
      PROVE  st[k - 1].level < st[k].level
  <2>1. k \in 1 .. Len(st) /\ k - 1 \in 1 .. Len(st) /\ k - 1 < k
    BY <1>5
  <2>2. Len(cur_section) = Len(st) /\ cur_section[k] = st[k].text /\ cur_section[k - 1] = st[k - 1].text
    BY <1>4, <1>5, <2>1
  <2>3. st[k - 1].text < st[k].text
    BY <1>4, <2>1, <2>2 DEF Increasing
  <2>4. /\ st[k - 1].text \in 1 .. Current /\ st[k].text \in 1 .. Current
        /\ InForce(st[k - 1].text, Current) /\ IsHeading(st[k].text)
    BY <1>4, <2>1 DEF InForce
  <2>5. st[k].text \in st[k - 1].text + 1 .. Current
    <3>1. Current \in Int
      BY <1>2 DEF Current
    <3> QED
      BY <2>3, <2>4, <3>1
  <2>6. Level(st[k - 1].text) < Level(st[k].text)
    BY <2>4, <2>5 DEF InForce
  <2> QED
    BY <1>4, <2>1, <2>6
<1>7. \A k \in DOMAIN st : st[k].text \in Positions /\ st[k].level = Level(st[k].text)
  BY <1>3, <1>4, <1>5
<1>8. \A k \in DOMAIN cur : cur[k] \in Positions
  <2>1. CASE cur = <<>>
    BY <2>1
  <2>2. CASE cur # <<>>
    <3>1. cur \in Seq(1 .. Len(pieces))
      BY <1>1, <1>2, <2>2, BodyTokens DEF CurInv
    <3> QED
      BY <3>1 DEF Positions
  <2> QED
    BY <2>1, <2>2
<1>9. ASSUME NEW n \in DOMAIN chunks
      PROVE  chunks[n].body # <<>> /\ ToSet(chunks[n].body) \subseteq Positions
  <2>1. BodyOK(chunks[n].body)
    BY ChunkIsGood DEF Good
  <2>2. chunks[n].body \in Seq(1 .. Len(pieces)) /\ chunks[n].body # <<>>
    BY <1>2, <2>1, BodyTokens DEF BodyOK, Run
  <2> QED
    BY <2>2 DEF ToSet, Positions
<1> QED
  BY <1>2, <1>6, <1>7, <1>8, <1>9 DEF TypeOK

(* Every piece is in the chunks once and in order, whatever the overlap     *)
(* repeats, and the parts of a split piece are its sentences in order       *)
(* (chunk, overlap_pieces and split_oversized).                             *)
THEOREM OnceIsKept == Spec => []EveryPieceOnce
<1>1. IInv => EveryPieceOnce
  <2> SUFFICES ASSUME IInv PROVE EveryPieceOnce
    OBVIOUS
  <2>1. ASSUME NEW n \in DOMAIN chunks
        PROVE  LET c == chunks[n]
                   resumes == n > 1 /\ chunks[n - 1].part # <<>> /\ ~LastPart(n - 1)
               IN  IF c.part = <<>> THEN ~resumes /\ GoesOn(c.body, n - 1)
                   ELSE /\ Consecutive(c.part)
                        /\ IF resumes THEN /\ c.body = chunks[n - 1].body
                                           /\ Head(c.part) = Last(chunks[n - 1].part) + 1
                           ELSE GoesOn(c.body, n - 1) /\ Len(c.body) = 1 /\ Head(c.part) = 1
    <3> DEFINE b == Before(chunks, n)
               resumes == n > 1 /\ chunks[n - 1].part # <<>> /\ ~LastPart(n - 1)
    <3>1. /\ OnceAfter(b, chunks[n]) /\ ReachedBy(b) = Reached(n - 1)
          /\ Unfinished(b) <=> resumes
          /\ n > 1 => b = <<chunks[n - 1]>>
      BY ChunkIsGood DEF Good
    <3>2. resumes => b[1] = chunks[n - 1]
      BY <3>1
    <3>3. \A s : Extends(s, ReachedBy(b)) <=> GoesOn(s, n - 1)
      BY <3>1 DEF Extends, GoesOn
    <3> HIDE DEF b, resumes
    <3>4. IF chunks[n].part = <<>> THEN ~resumes /\ GoesOn(chunks[n].body, n - 1)
          ELSE /\ Consecutive(chunks[n].part)
               /\ IF resumes THEN /\ chunks[n].body = chunks[n - 1].body
                                  /\ Head(chunks[n].part) = Last(chunks[n - 1].part) + 1
                  ELSE /\ GoesOn(chunks[n].body, n - 1)
                       /\ Len(chunks[n].body) = 1 /\ Head(chunks[n].part) = 1
      BY <3>1, <3>2, <3>3 DEF OnceAfter
    <3> QED
      BY <3>4 DEF resumes
  <2>2. /\ Finished(chunks) /\ CurInv /\ chunks \in Seq(Chunk)
    BY DEF IInv, TypeInv
  <2>3. chunks # <<>> /\ Last(chunks).part # <<>> => LastPart(Len(chunks))
    <3> SUFFICES ASSUME chunks # <<>>, Last(chunks).part # <<>> PROVE LastPart(Len(chunks))
      OBVIOUS
    <3> DEFINE b == <<Last(chunks)>>
    <3>1. b # <<>> /\ b[1] = Last(chunks) /\ LastOf(chunks) = b
      BY DEF LastOf
    <3> HIDE DEF b
    <3>2. ~Unfinished(b)
      BY <2>2, <3>1 DEF Finished
    <3>3. Last(chunks) = chunks[Len(chunks)]
      BY DEF Last
    <3> QED
      BY <3>1, <3>2, <3>3 DEF Unfinished, LastPart
  <2>4. ReachedBy(LastOf(chunks)) = Reached(Len(chunks))
    <3>1. CASE chunks = <<>>
      BY <3>1 DEF ReachedBy, LastOf, Reached
    <3>2. CASE chunks # <<>>
      <4>1. Len(chunks) # 0 /\ Last(chunks) = chunks[Len(chunks)]
        BY <2>2, <3>2 DEF Last
      <4> QED
        BY <3>2, <4>1 DEF ReachedBy, LastOf, Reached
    <3> QED
      BY <3>1, <3>2
  <2>5. IF cur = <<>> THEN Reached(Len(chunks)) = next - 1
        ELSE GoesOn(cur, Len(chunks)) /\ Last(cur) = next - 1
    BY <2>2, <2>4 DEF CurInv, Extends, GoesOn
  <2> QED
    BY <2>1, <2>3, <2>5 DEF EveryPieceOnce
<1> QED
  BY <1>1, Chunking, PTL

(* With split_on_headings no chunk mixes sections and every section_path    *)
(* is the headings in force at its pieces; the context line and the         *)
(* headings of a chunk make up its path (chunk, push_chunk and              *)
(* push_owned_chunk).                                                       *)
THEOREM SectionsAreKept == Spec => []SectionsAreTrue
<1>1. IInv => SectionsAreTrue
  <2> SUFFICES ASSUME IInv PROVE SectionsAreTrue
    OBVIOUS
  <2>1. ASSUME NEW n \in DOMAIN chunks PROVE SectionTrue(chunks[n])
    BY ChunkIsGood DEF Good
  <2> QED
    BY <2>1, TypesOfIInv DEF SectionsAreTrue, SectionTrue
<1> QED
  BY <1>1, Chunking, PTL

(* A chunk exceeds the target only when it has one new piece, and is        *)
(* closed below it only for one of the reasons of chunk()'s loop.           *)
THEOREM TargetIsKept == Spec => []FilledToTarget
<1>1. IInv => FilledToTarget
  <2> SUFFICES ASSUME IInv, NEW n \in DOMAIN chunks, Packed(n)
               PROVE  LET i == Reached(n) + 1
                      IN  /\ \/ \E j \in New(n) : New(n) = {j}
                             \/ PieceTokens(chunks[n].body) <= Target
                          /\ \/ i = Len(pieces) + 1
                             \/ IsHeading(i) /\ opts.split_on_headings
                             \/ IsAtomic(i) /\ opts.isolate_tables
                             \/ ~IsAtomic(i) /\ Tokens(i) > Target
                             \/ PieceTokens(chunks[n].body) + Tokens(i) > Target
    BY Zenon DEF FilledToTarget
  <2> DEFINE b == Before(chunks, n)
  <2>1. /\ FilledAfter(b, chunks[n]) /\ ReachedBy(b) = Reached(n - 1)
        /\ Reached(n) = Last(chunks[n].body)
    BY ChunkIsGood DEF Good
  <2>2. IsPacked(chunks[n])
    BY DEF IsPacked, Packed
  <2>3. New(n) = NewIn(chunks[n].body, Reached(n - 1))
    BY DEF New, NewIn
  <2>4. WithinTarget(chunks[n].body, Reached(n - 1)) /\ ClosedFor(chunks[n].body, Reached(n) + 1)
    BY <2>1, <2>2 DEF FilledAfter
  <2> QED
    BY <2>3, <2>4 DEF WithinTarget, ClosedFor
<1> QED
  BY <1>1, Chunking, PTL

(* What a chunk repeats of the one before it is context within              *)
(* overlap_tokens, without tables or figures, and within a section at       *)
(* least the last piece (overlap_pieces).                                   *)
THEOREM OverlapIsKept == Spec => []OverlapIsContext
<1>1. IInv => OverlapIsContext
  <2> SUFFICES ASSUME IInv PROVE OverlapIsContext
    OBVIOUS
  <2>1. chunks \in Seq(Chunk)
    BY DEF IInv, TypeInv
  <2>2. ASSUME NEW n \in 2 .. Len(chunks), Packed(n - 1), Packed(n)
        PROVE  /\ SharesContext(chunks[n - 1].body, chunks[n].body)
               /\ New(n) = NewIn(chunks[n].body, Last(chunks[n - 1].body))
    <3>1. n \in DOMAIN chunks /\ n > 1 /\ n - 1 # 0
      BY <2>1
    <3> DEFINE b == Before(chunks, n)
    <3>2. OverlapAfter(b, chunks[n]) /\ b = <<chunks[n - 1]>>
      BY <3>1, ChunkIsGood DEF Good
    <3> HIDE DEF b
    <3>3. b # <<>> /\ b[1] = chunks[n - 1]
      BY <3>2
    <3>4. IsPacked(chunks[n - 1]) /\ IsPacked(chunks[n])
      BY <2>2 DEF IsPacked, Packed
    <3>5. SharesContext(chunks[n - 1].body, chunks[n].body)
      BY <3>2, <3>3, <3>4 DEF OverlapAfter
    <3>6. Reached(n - 1) = Last(chunks[n - 1].body)
      BY <3>1 DEF Reached
    <3> QED
      BY <3>5, <3>6 DEF New, NewIn
  <2>3. ASSUME NEW n \in 2 .. Len(chunks)
        PROVE  LET before == chunks[n - 1]
                   shared == ToSet(before.body) \cap ToSet(chunks[n].body)
                   tokens == PieceTokens(Picked(before.body,
                                                {k \in DOMAIN before.body : before.body[k] \in shared}))
               IN  Packed(n - 1) /\ Packed(n) =>
                     /\ \A i \in shared : ~IsAtomic(i)
                     /\ tokens <= opts.overlap_tokens \/ \E i \in shared : shared = {i}
                     /\ opts.overlap_tokens = 0 => shared = {}
                     /\ \/ opts.overlap_tokens = 0 \/ IsAtomic(Last(before.body))
                        \/ opts.split_on_headings /\ \E i \in New(n) : IsHeading(i)
                        \/ Last(before.body) \in shared
    <3> SUFFICES ASSUME Packed(n - 1), Packed(n)
                 PROVE  LET old == chunks[n - 1].body
                            shared == ToSet(old) \cap ToSet(chunks[n].body)
                            tokens == PieceTokens(Picked(old, {k \in DOMAIN old : old[k] \in shared}))
                        IN  /\ \A i \in shared : ~IsAtomic(i)
                            /\ tokens <= opts.overlap_tokens \/ \E i \in shared : shared = {i}
                            /\ opts.overlap_tokens = 0 => shared = {}
                            /\ \/ opts.overlap_tokens = 0 \/ IsAtomic(Last(old))
                               \/ opts.split_on_headings /\ \E i \in New(n) : IsHeading(i)
                               \/ Last(old) \in shared
      BY Zenon
    <3>1. PICK old : old = chunks[n - 1].body
      OBVIOUS
    <3>2. PICK body : body = chunks[n].body
      OBVIOUS
    <3>3. SharesContext(old, body) /\ New(n) = NewIn(body, Last(old))
      BY <2>2, <3>1, <3>2
    <3> DEFINE shared == ToSet(old) \cap ToSet(body)
               tokens == PieceTokens(Picked(old, {k \in DOMAIN old : old[k] \in shared}))
    <3>4. /\ \A i \in shared : ~IsAtomic(i)
          /\ tokens <= opts.overlap_tokens \/ \E i \in shared : shared = {i}
          /\ opts.overlap_tokens = 0 => shared = {}
          /\ \/ opts.overlap_tokens = 0 \/ IsAtomic(Last(old))
             \/ opts.split_on_headings /\ \E i \in NewIn(body, Last(old)) : IsHeading(i)
             \/ Last(old) \in shared
      BY <3>3, Zenon DEF SharesContext
    <3> QED
      BY <3>1, <3>2, <3>3, <3>4, Zenon
  <2> QED
    BY <2>3, Zenon DEF OverlapIsContext
<1> QED
  BY <1>1, Chunking, PTL
==============================================================================
