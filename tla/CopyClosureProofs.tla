-------------------------- MODULE CopyClosureProofs --------------------------
(***************************************************************************)
(* Proofs about CopyClosure, for every number of source documents, every   *)
(* reference graph, every selection of pages and every cap.                *)
(***************************************************************************)
EXTENDS CopyClosure, TLAPS

\* What popping does to the elements of the worklist.
LEMMA Pop ==
    ASSUME NEW S, NEW s \in Seq(S), s # <<>>
    PROVE  LET t == SubSeq(s, 1, Len(s) - 1)
           IN  /\ t \in Seq(S) /\ s[Len(s)] \in S /\ Len(s) \in DOMAIN s
               /\ DOMAIN t = 1..(Len(s) - 1)
               /\ \A i \in DOMAIN t : i \in DOMAIN s /\ t[i] = s[i]
               /\ \A i \in DOMAIN s : i \in DOMAIN t \/ i = Len(s)
  OBVIOUS

\* What pushing does to them.
LEMMA Push ==
    ASSUME NEW S, NEW s \in Seq(S), NEW x \in S
    PROVE  /\ Append(s, x) \in Seq(S)
           /\ DOMAIN Append(s, x) = 1..(Len(s) + 1)
           /\ Len(s) + 1 \in DOMAIN Append(s, x)
           /\ Append(s, x)[Len(s) + 1] = x
           /\ \A i \in DOMAIN Append(s, x) : i \in DOMAIN s \/ i = Len(s) + 1
           /\ \A i \in DOMAIN s : i \in DOMAIN Append(s, x) /\ Append(s, x)[i] = s[i]
  OBVIOUS

\* What taking the first reference of a list does to the ones that are left.
LEMMA Rest ==
    ASSUME NEW S, NEW s \in Seq(S), s # <<>>
    PROVE  /\ Tail(s) \in Seq(S) /\ Head(s) \in S /\ Head(s) \in Range(s)
           /\ Range(Tail(s)) \subseteq Range(s)
           /\ \A x \in Range(s) : x = Head(s) \/ x \in Range(Tail(s))
<1>1. /\ Tail(s) \in Seq(S) /\ Head(s) \in S /\ Head(s) = s[1] /\ 1 \in DOMAIN s
      /\ \A i \in DOMAIN Tail(s) : i + 1 \in DOMAIN s /\ Tail(s)[i] = s[i + 1]
      /\ \A i \in DOMAIN s : i = 1 \/ (i - 1 \in DOMAIN Tail(s) /\ Tail(s)[i - 1] = s[i])
  OBVIOUS
<1>2. ASSUME NEW x \in Range(s) PROVE x = Head(s) \/ x \in Range(Tail(s))
  <2>1. PICK i \in DOMAIN s : x = s[i]
    BY DEF Range
  <2>2. CASE i = 1
    BY <1>1, <2>1, <2>2
  <2>3. CASE i # 1
    <3>1. i - 1 \in DOMAIN Tail(s) /\ Tail(s)[i - 1] = x
      BY <1>1, <2>1, <2>3
    <3> QED
      BY <3>1 DEF Range
  <2> QED
    BY <2>2, <2>3
<1>3. Range(Tail(s)) \subseteq Range(s) /\ Head(s) \in Range(s)
  BY <1>1 DEF Range
<1> QED
  BY <1>1, <1>2, <1>3

LEMMA RangeOf ==
    ASSUME NEW S, NEW s \in Seq(S)
    PROVE  Range(s) \subseteq S /\ (s = <<>> => Range(s) = {})
  BY DEF Range

-----------------------------------------------------------------------------
(***************************************************************************)
(* The inductive invariant, in parts.                                      *)
(***************************************************************************)
Working == pc \in {"page", "roots", "pop", "refs", "leaves", "emit"}
Numbered == {o \in Objs : Seen(o)}

\* What is true of the worklist and the object at work.
Shape ==
    /\ TypeOK
    /\ next_number >= 3
    /\ Working => doc \in Docs
    /\ \A o \in Objs : Seen(o) => remap[o] >= 3
    /\ pc \in {"page", "leaves", "emit", "finish", "done"} => stack = <<>>
    /\ pc \in {"roots", "pop", "refs"} \/ (pc = "page" /\ part = "resources") => page \in DOMAIN Pages
    /\ pc \in {"leaves", "emit"} => part = "contents"
    /\ \A i \in DOMAIN stack : Seen(stack[i])
    /\ pc = "refs" => cur \in Objs /\ Seen(cur) /\ ~Copied(cur) /\ Here.cond[cur] = "plain"

\* Numbers are not shared, and a copy is the object its number was given to.
Once ==
    /\ \A o, p \in Objs : Seen(o) /\ remap[o] = remap[p] => o = p
    /\ \A n \in DOMAIN copied : \E o \in Objs :
          /\ Seen(o) /\ remap[o] = n
          /\ copied[n] = IF Here.cond[o] = "plain" THEN o ELSE Null

RootsIn(i, q) == Range(IF q = "contents" THEN Pages[i].contents ELSE Pages[i].resources)

\* The root lists that were walked before the one at work.
Earlier(i, q) == i < page \/ (i = page /\ q = "contents" /\ part = "resources")

\* How far the closure has come: what was copied is closed but for the object at
\* work, every root that was walked has a number, and nothing else has one.
Reached ==
    /\ \A o \in Numbered : Copied(o) /\ Here.cond[o] = "plain"
          => Range(Here.links[o]) \subseteq Numbered
    /\ pc = "refs" => /\ Range(pending) \subseteq Range(Here.links[cur])
                      /\ Range(Here.links[cur]) \subseteq Numbered \cup Range(pending)
    /\ pc = "roots" => /\ Range(pending) \subseteq RootsIn(page, part)
                       /\ RootsIn(page, part) \subseteq Numbered \cup Range(pending)
    /\ pc \in {"pop", "refs"} => RootsIn(page, part) \subseteq Numbered
    /\ pc \in {"page", "roots", "pop", "refs"} =>
          \A i \in DOMAIN Pages, q \in {"contents", "resources"} :
              Earlier(i, q) => RootsIn(i, q) \subseteq Numbered
    /\ pc \in {"leaves", "emit"} => Roots \subseteq Numbered
    /\ \A S \in SUBSET Objs : Roots \subseteq S /\ ClosedUnder(S) => Numbered \subseteq S

\* The output so far: its numbers and the numbers of the document at work are
\* all that was handed out, each once; it refers to nothing else.
Written ==
    /\ pc # "done" => /\ Numbers \subseteq 3..(next_number - 1)
                      /\ \A o \in Numbered : remap[o] \notin Numbers
                      /\ \A n \in 3..(next_number - 1) :
                            n \in Numbers \/ \E o \in Numbered : remap[o] = n
                      /\ \A r \in out : r.refs \subseteq
                            Numbers \cup {pages_number} \cup {remap[o] : o \in Numbered}
    /\ \A r, s \in out : r.number = s.number => r = s
    /\ pc \in {"finish", "done"} => Numbered = {}
    /\ pc = "done" => /\ Numbers = 1..(next_number - 1)
                      /\ \A r \in out : r.refs \subseteq Numbers

\* What the constants say of the document at work.
LEMMA HereType ==
    ASSUME Shape, Working
    PROVE  /\ doc \in Docs /\ Here.links \in [Objs -> Seq(Objs)]
           /\ Here.cond \in [Objs -> Condition]
           /\ Pages \in Seq(Page) /\ DOMAIN Pages = 1..Len(Pages) /\ Len(Pages) \in Nat
           /\ \A i \in DOMAIN Pages : /\ Pages[i].leaf \in Objs
                                      /\ Pages[i].contents \in Seq(Objs)
                                      /\ Pages[i].resources \in Seq(Objs)
<1>1. doc \in Docs /\ Here \in Source
  BY DEF Shape, TypeOK, Here
<1>2. Here.links \in Links /\ Here.cond \in Conditions /\ Pages \in Selections
  BY <1>1 DEF Source, Pages
<1>3. Pages \in Seq(Page)
  BY <1>2, CopyAssumption
<1>4. ASSUME NEW i \in DOMAIN Pages
      PROVE  /\ Pages[i].leaf \in Objs
             /\ Pages[i].contents \in Seq(Objs) /\ Pages[i].resources \in Seq(Objs)
  <2>1. Pages[i] \in Page
    BY <1>3
  <2> QED
    BY <2>1 DEF Page
<1>5. DOMAIN Pages = 1..Len(Pages) /\ Len(Pages) \in Nat
  BY <1>3
<1> QED
  BY <1>1, <1>2, <1>3, <1>4, <1>5, CopyAssumption

-----------------------------------------------------------------------------
(***************************************************************************)
(* Shape is preserved.                                                     *)
(***************************************************************************)
LEMMA ShapeInit == Init => Shape
  BY CopyAssumption DEF Init, Shape, TypeOK, Working, Seen, Docs

\* Handing out a number: the object gets the next one, the others keep theirs.
LEMMA Assigns ==
    ASSUME Shape, NEW o \in Objs, ~Seen(o), Assign(o)
    PROVE  /\ next_number' = next_number + 1 /\ next_number \in Nat /\ next_number >= 3
           /\ remap' \in [Objs -> Nat] /\ remap'[o] = next_number
           /\ \A p \in Objs \ {o} : remap'[p] = remap[p]
           /\ \A p \in Objs : remap'[p] < next_number'
           /\ \A p \in Objs : Seen(p)' <=> (Seen(p) \/ p = o)
           /\ Numbered' = Numbered \cup {o}
           /\ \A p \in Objs : remap[p] < next_number /\ remap[p] \in Nat
<1>1. /\ next_number' = next_number + 1 /\ next_number \in Nat /\ next_number >= 3
      /\ remap' = [remap EXCEPT ![o] = next_number]
      /\ remap \in [Objs -> Nat] /\ \A p \in Objs : remap[p] < next_number
  BY DEF Assign, Shape, TypeOK
<1>2. /\ remap' \in [Objs -> Nat] /\ remap'[o] = next_number
      /\ \A p \in Objs \ {o} : remap'[p] = remap[p]
  BY <1>1
<1>3. \A p \in Objs : remap'[p] < next_number'
  BY <1>1, <1>2
<1>4. \A p \in Objs : Seen(p)' <=> (Seen(p) \/ p = o)
  BY <1>1, <1>2 DEF Seen
<1>5. Numbered' = Numbered \cup {o}
  BY <1>4 DEF Numbered
<1> QED
  BY <1>1, <1>2, <1>3, <1>4, <1>5
\* What Root and Discover do when they come upon object o: it has a number after
\* the step, everything that had one keeps it, and the worklist holds only
\* objects with numbers.
LEMMA Meets ==
    ASSUME Shape, NEW o \in Objs,
           \/ Seen(o) /\ UNCHANGED <<remap, next_number>>
           \/ ~Seen(o) /\ Assign(o),
           stack' \in {stack, Append(stack, o)}
    PROVE  /\ next_number' \in Nat /\ next_number' >= 3 /\ remap' \in [Objs -> Nat]
           /\ \A p \in Objs : remap'[p] < next_number'
           /\ \A p \in Objs : remap'[p] # 0 <=> (remap[p] # 0 \/ p = o)
           /\ \A p \in Objs : remap[p] # 0 => remap'[p] = remap[p]
           /\ \A p \in Objs : remap'[p] # 0 => remap'[p] >= 3
           /\ stack' \in Seq(Objs)
           /\ \A i \in DOMAIN stack' : remap'[stack'[i]] # 0
           /\ \A i \in DOMAIN stack : \E k \in DOMAIN stack' : stack'[k] = stack[i]
<1>0. /\ remap \in [Objs -> Nat] /\ next_number \in Nat /\ next_number >= 3
      /\ \A p \in Objs : remap[p] < next_number
      /\ \A p \in Objs : remap[p] # 0 => remap[p] >= 3
      /\ stack \in Seq(Objs) /\ \A i \in DOMAIN stack : stack[i] \in Objs /\ remap[stack[i]] # 0
  <2>1. stack \in Seq(Objs)
    BY DEF Shape, TypeOK
  <2>2. \A i \in DOMAIN stack : stack[i] \in Objs
    BY <2>1
  <2> QED
    BY <2>1, <2>2 DEF Shape, TypeOK, Seen
<1>1. /\ next_number' \in Nat /\ next_number' >= 3 /\ remap' \in [Objs -> Nat]
      /\ \A p \in Objs : remap'[p] < next_number'
      /\ \A p \in Objs : remap'[p] # 0 <=> (remap[p] # 0 \/ p = o)
      /\ \A p \in Objs : remap[p] # 0 => remap'[p] = remap[p]
      /\ \A p \in Objs : remap'[p] # 0 => remap'[p] >= 3
  <2>1. CASE Seen(o) /\ UNCHANGED <<remap, next_number>>
    BY <1>0, <2>1 DEF Seen
  <2>2. CASE ~Seen(o) /\ Assign(o)
    <3>1. /\ next_number' = next_number + 1 /\ remap' \in [Objs -> Nat]
          /\ remap'[o] = next_number /\ \A p \in Objs \ {o} : remap'[p] = remap[p]
          /\ \A p \in Objs : remap'[p] < next_number'
      BY <2>2, Assigns
    <3>2. next_number' \in Nat /\ next_number' >= 3
      BY <1>0, <3>1
    <3>3. ASSUME NEW p \in Objs
          PROVE  /\ remap'[p] # 0 <=> (remap[p] # 0 \/ p = o)
                 /\ remap[p] # 0 => remap'[p] = remap[p]
                 /\ remap'[p] # 0 => remap'[p] >= 3
      <4>1. CASE p = o
        BY <1>0, <2>2, <3>1, <4>1 DEF Seen
      <4>2. CASE p # o
        BY <1>0, <3>1, <4>2
      <4> QED
        BY <4>1, <4>2
    <3> QED
      BY <3>1, <3>2, <3>3
  <2> QED
    BY <2>1, <2>2
<1>2. CASE stack' = stack
  BY <1>0, <1>1, <1>2
<1>3. CASE stack' = Append(stack, o)
  <2>1. /\ stack' \in Seq(Objs)
        /\ \A i \in DOMAIN stack' : i \in DOMAIN stack \/ i = Len(stack) + 1
        /\ stack'[Len(stack) + 1] = o
        /\ \A i \in DOMAIN stack : i \in DOMAIN stack' /\ stack'[i] = stack[i]
    BY <1>0, <1>3, Push
  <2>2. ASSUME NEW i \in DOMAIN stack' PROVE remap'[stack'[i]] # 0
    <3>1. CASE i \in DOMAIN stack
      BY <1>0, <1>1, <2>1, <3>1
    <3>2. CASE i = Len(stack) + 1
      BY <1>1, <2>1, <3>2
    <3> QED
      BY <2>1, <3>1, <3>2
  <2> QED
    BY <1>1, <2>1, <2>2
<1> QED
  BY <1>2, <1>3

LEMMA ShapeStep == Shape /\ [Next]_vars => Shape'
<1> SUFFICES ASSUME Shape, [Next]_vars PROVE Shape'
  OBVIOUS
<1>0. /\ input \in [Docs -> Source] /\ doc \in 1..(Inputs + 1) /\ page \in Nat \ {0}
      /\ part \in {"contents", "resources"} /\ pending \in Seq(Objs)
      /\ cur \in Objs \cup {Null} /\ stack \in Seq(Objs) /\ remap \in [Objs -> Nat]
      /\ copied \in [DOMAIN copied -> Objs \cup {Null}]
      /\ next_number \in Nat /\ next_number >= 3
      /\ \A o \in Objs : remap[o] < next_number
      /\ \A o \in Objs : Seen(o) => remap[o] >= 3
      /\ \A i \in DOMAIN stack : Seen(stack[i])
      /\ Working => doc \in Docs
  BY DEF Shape, TypeOK
<1>1. CASE StartContents
  <2>1. Working /\ page \in DOMAIN Pages
    BY <1>0, <1>1, HereType DEF StartContents, Working
  <2>2. Pages[page].contents \in Seq(Objs)
    BY <2>1, HereType
  <2>3. CASE pc' = "roots" /\ pending' = Pages[page].contents
    <3>1. TypeOK'
      BY <1>0, <1>1, <2>2, <2>3 DEF StartContents, TypeOK
    <3> QED
      BY <1>0, <1>1, <2>1, <2>3, <3>1 DEF StartContents, Shape, Working, Seen, Copied, Pages, Here
  <2>4. CASE pc' = "error" /\ UNCHANGED pending
    BY <1>0, <1>1, <2>4 DEF StartContents, Shape, TypeOK, Working, Seen
  <2> QED
    BY <1>1, <2>3, <2>4 DEF StartContents
<1>2. CASE StartResources
  <2>1. Working /\ page \in DOMAIN Pages
    BY <1>2 DEF StartResources, Working, Shape
  <2>2. Pages[page].resources \in Seq(Objs)
    BY <2>1, HereType
  <2> QED
    BY <1>0, <1>2, <2>1, <2>2 DEF StartResources, Shape, TypeOK, Working, Seen, Copied, Pages, Here
<1>3. CASE Root
  <2> DEFINE o == Head(pending)
  <2>0. pc = "roots" /\ pending # <<>> /\ Working /\ page \in DOMAIN Pages
    BY <1>3 DEF Root, Shape, Working
  <2>1. o \in Objs /\ Tail(pending) \in Seq(Objs)
    BY <1>0, <2>0, Rest
  <2>2. /\ pc' = pc /\ pending' = Tail(pending) /\ stack' = Append(stack, o)
        /\ UNCHANGED <<input, doc, page, part, cur, copied>>
    BY <1>3 DEF Root
  <2>3. \/ Seen(o) /\ UNCHANGED <<remap, next_number>>
        \/ ~Seen(o) /\ Assign(o)
    BY <1>3 DEF Root
  <2> HIDE DEF o
  <2>4. /\ next_number' \in Nat /\ next_number' >= 3 /\ remap' \in [Objs -> Nat]
        /\ \A p \in Objs : remap'[p] < next_number'
        /\ \A p \in Objs : remap'[p] # 0 => remap'[p] >= 3
        /\ stack' \in Seq(Objs) /\ \A i \in DOMAIN stack' : remap'[stack'[i]] # 0
    BY <2>1, <2>2, <2>3, Meets
  <2>5. TypeOK'
    BY <1>0, <2>0, <2>1, <2>2, <2>4 DEF TypeOK
  <2> QED
    BY <1>0, <2>0, <2>2, <2>4, <2>5 DEF Shape, Working, Pages, Here, Seen
<1>4. CASE RootsDone
  BY <1>0, <1>4 DEF RootsDone, Shape, TypeOK, Working, Seen, Copied, Pages, Here
<1>5. CASE Skip
  <2>1. pc = "pop" /\ stack # <<>> /\ stack' = Popped
    BY <1>5 DEF Skip
  <2>2. Popped \in Seq(Objs) /\ \A i \in DOMAIN Popped : Seen(Popped[i])
    BY <1>0, <2>1, Pop DEF Popped
  <2> QED
    BY <1>0, <1>5, <2>1, <2>2 DEF Skip, Shape, TypeOK, Working, Seen, Copied, Pages, Here
<1>6. CASE CopyMissing
  <2>1. pc = "pop" /\ stack # <<>> /\ stack' = Popped /\ copied' = Stored(remap[Top], Null)
    BY <1>6 DEF CopyMissing
  <2>2. Popped \in Seq(Objs) /\ \A i \in DOMAIN Popped : Seen(Popped[i])
    BY <1>0, <2>1, Pop DEF Popped
  <2>3. copied' \in [DOMAIN copied' -> Objs \cup {Null}]
    BY <1>0, <2>1 DEF Stored
  <2> QED
    BY <1>0, <1>6, <2>1, <2>2, <2>3 DEF CopyMissing, Shape, TypeOK, Working, Seen, Pages, Here
<1>7. CASE Read
  <2>1. /\ pc = "pop" /\ stack # <<>> /\ stack' = Popped /\ Working
        /\ ~Copied(Top) /\ Here.cond[Top] = "plain"
    BY <1>7 DEF Read, Working
  <2>2. /\ Popped \in Seq(Objs) /\ Top \in Objs /\ Seen(Top)
        /\ \A i \in DOMAIN Popped : Seen(Popped[i])
    BY <1>0, <2>1, Pop DEF Popped, Top
  <2>3. Here.links[Top] \in Seq(Objs)
    BY <2>1, <2>2, HereType
  <2>4. CASE pc' = "error" /\ UNCHANGED <<pending, cur>>
    BY <1>0, <1>7, <2>1, <2>2, <2>4 DEF Read, Shape, TypeOK, Working, Seen, Copied
  <2>5. CASE pc' = "refs" /\ pending' = Here.links[Top] /\ cur' = Top
    <3>1. TypeOK'
      BY <1>0, <1>7, <2>2, <2>3, <2>5 DEF Read, TypeOK
    <3> QED
      BY <1>0, <1>7, <2>1, <2>2, <2>5, <3>1 DEF Read, Shape, Working, Seen, Copied, Pages, Here
  <2> QED
    BY <1>7, <2>4, <2>5 DEF Read
<1>8. CASE Discover
  <2> DEFINE r == Head(pending)
  <2>0. /\ pc = "refs" /\ pending # <<>> /\ Working /\ page \in DOMAIN Pages
        /\ cur \in Objs /\ Seen(cur) /\ ~Copied(cur) /\ Here.cond[cur] = "plain"
    BY <1>8 DEF Discover, Shape, Working
  <2>1. r \in Objs /\ Tail(pending) \in Seq(Objs)
    BY <1>0, <2>0, Rest
  <2>2. /\ pc' = pc /\ pending' = Tail(pending)
        /\ UNCHANGED <<input, doc, page, part, cur, copied>>
        /\ stack' \in {stack, Append(stack, r)}
    BY <1>8 DEF Discover
  <2>3. \/ Seen(r) /\ UNCHANGED <<remap, next_number>>
        \/ ~Seen(r) /\ Assign(r)
    BY <1>8 DEF Discover
  <2> HIDE DEF r
  <2>4. /\ next_number' \in Nat /\ next_number' >= 3 /\ remap' \in [Objs -> Nat]
        /\ \A p \in Objs : remap'[p] < next_number'
        /\ \A p \in Objs : remap'[p] # 0 => remap'[p] >= 3
        /\ \A p \in Objs : remap[p] # 0 => remap'[p] = remap[p]
        /\ stack' \in Seq(Objs) /\ \A i \in DOMAIN stack' : remap'[stack'[i]] # 0
    BY <2>1, <2>2, <2>3, Meets
  <2>5. Seen(cur)' /\ ~Copied(cur)'
    BY <2>0, <2>2, <2>4 DEF Copied, Seen
  <2>6. TypeOK'
    BY <1>0, <2>0, <2>1, <2>2, <2>4 DEF TypeOK
  <2> QED
    BY <1>0, <2>0, <2>2, <2>4, <2>5, <2>6 DEF Shape, Working, Pages, Here, Seen
<1>9. CASE Copy
  <2>1. pc = "refs" /\ cur \in Objs /\ page \in DOMAIN Pages
    BY <1>9 DEF Copy, Shape
  <2>2. copied' \in [DOMAIN copied' -> Objs \cup {Null}]
    BY <1>0, <1>9, <2>1 DEF Copy, Stored
  <2> QED
    BY <1>0, <1>9, <2>1, <2>2 DEF Copy, Shape, TypeOK, Working, Seen, Pages, Here
<1>10. CASE ClosureDone
  <2>1. pc = "pop" /\ page \in DOMAIN Pages
    BY <1>10 DEF ClosureDone, Shape
  <2> QED
    BY <1>0, <1>10, <2>1 DEF ClosureDone, Shape, TypeOK, Working, Seen, Copied, Pages, Here
<1>11. CASE PagesDone
  BY <1>0, <1>11 DEF PagesDone, Shape, TypeOK, Working, Seen, Copied
<1>12. CASE Leaf
  <2>1. /\ pc = "leaves" /\ stack = <<>>
        /\ UNCHANGED <<input, pc, doc, part, pending, cur, stack, remap, copied>>
        /\ next_number' = next_number + 1 /\ page' = page + 1
    BY <1>12 DEF Leaf, Shape
  <2>2. next_number' \in Nat /\ next_number' >= 3 /\ \A o \in Objs : remap'[o] < next_number'
    BY <1>0, <2>1
  <2> QED
    BY <1>0, <2>1, <2>2 DEF Shape, TypeOK, Working, Seen
<1>13. CASE LeavesDone
  BY <1>0, <1>13 DEF LeavesDone, Shape, TypeOK, Working, Seen, Copied
<1>14. CASE Emit
  <2>1. /\ pc = "emit" /\ stack = <<>> /\ doc \in Docs
        /\ UNCHANGED <<input, part, pending, cur, stack>>
        /\ next_number' \in {next_number, next_number + 1} /\ page' = 1 /\ doc' = doc + 1
        /\ remap' = [o \in Objs |-> 0] /\ copied' = <<>>
        /\ pc' = IF doc = Inputs THEN "finish" ELSE "page"
        /\ part = "contents"
    BY <1>14 DEF Emit, Shape, Working
  <2> QED
    BY <1>0, <2>1, CopyAssumption DEF Shape, TypeOK, Working, Seen, Docs
<1>15. CASE Finish
  BY <1>0, <1>15 DEF Finish, Shape, TypeOK, Working, Seen, Copied
<1>16. CASE UNCHANGED vars
  BY <1>16 DEF vars, Shape, TypeOK, Working, Seen, Copied, Pages, Here
<1> QED
  BY <1>1, <1>2, <1>3, <1>4, <1>5, <1>6, <1>7, <1>8, <1>9, <1>10, <1>11, <1>12, <1>13, <1>14,
     <1>15, <1>16 DEF Next

-----------------------------------------------------------------------------
(***************************************************************************)
(* Once is preserved.                                                      *)
(***************************************************************************)
LEMMA OnceStep == Shape /\ Once /\ [Next]_vars => Once'
<1> SUFFICES ASSUME Shape, Once, [Next]_vars PROVE Once'
  OBVIOUS
<1>0. /\ stack \in Seq(Objs) /\ remap \in [Objs -> Nat] /\ pending \in Seq(Objs)
      /\ \A o \in Objs : remap[o] < next_number /\ next_number \in Nat
      /\ \A o, p \in Objs : remap[o] # 0 /\ remap[o] = remap[p] => o = p
      /\ \A n \in DOMAIN copied : \E o \in Objs :
            remap[o] # 0 /\ remap[o] = n /\ copied[n] = IF Here.cond[o] = "plain" THEN o ELSE Null
  BY DEF Shape, TypeOK, Once, Seen
\* The numbers, and what is copied, stay: nothing to show.
<1>1. ASSUME UNCHANGED <<input, doc, remap, copied>> PROVE Once'
  BY <1>0, <1>1 DEF Once, Seen, Here
\* One more object is given a number.
<1>2. ASSUME NEW o \in Objs, UNCHANGED <<input, doc, copied>>,
             stack' \in {stack, Append(stack, o)},
             (Seen(o) /\ UNCHANGED <<remap, next_number>>) \/ (~Seen(o) /\ Assign(o))
      PROVE  Once'
  <2>1. CASE Seen(o) /\ UNCHANGED <<remap, next_number>>
    BY <1>1, <1>2, <2>1
  <2>2. CASE ~Seen(o) /\ Assign(o)
    <3>1. /\ remap'[o] = next_number /\ \A p \in Objs \ {o} : remap'[p] = remap[p]
      BY <2>2, Assigns
    <3>2. remap[o] = 0
      BY <2>2 DEF Seen
    <3>3. ASSUME NEW p \in Objs, NEW q \in Objs, remap'[p] # 0, remap'[p] = remap'[q]
          PROVE  p = q
      BY <1>0, <3>1, <3>3
    <3>4. ASSUME NEW n \in DOMAIN copied
          PROVE  \E p \in Objs : /\ remap'[p] # 0 /\ remap'[p] = n
                               /\ copied[n] = IF Here.cond[p] = "plain" THEN p ELSE Null
      BY <1>0, <3>1, <3>2
    <3>5. Here' = Here
      BY <1>2 DEF Here
    <3> QED
      BY <1>2, <3>3, <3>4, <3>5 DEF Once, Seen
  <2> QED
    BY <1>2, <2>1, <2>2
\* One more number gets its object, or null if the object cannot be read.
<1>3. ASSUME NEW o \in Objs, Seen(o), UNCHANGED <<input, doc, remap>>,
             copied' = Stored(remap[o], IF Here.cond[o] = "plain" THEN o ELSE Null)
      PROVE  Once'
  <2>1. remap[o] # 0 /\ Here' = Here
    BY <1>3 DEF Seen, Here
  <2>2. ASSUME NEW n \in DOMAIN copied'
        PROVE  \E p \in Objs : /\ remap[p] # 0 /\ remap[p] = n
                             /\ copied'[n] = IF Here.cond[p] = "plain" THEN p ELSE Null
    <3>1. CASE n = remap[o]
      BY <1>3, <2>1, <3>1 DEF Stored
    <3>2. CASE n # remap[o]
      BY <1>0, <1>3, <3>2 DEF Stored
    <3> QED
      BY <3>1, <3>2
  <2> QED
    BY <1>0, <1>3, <2>1, <2>2 DEF Once, Seen
<1>4. CASE Root
  BY <1>0, <1>2, <1>4, Rest DEF Root
<1>5. CASE Discover
  <2>1. /\ UNCHANGED <<input, doc, copied>> /\ pending # <<>>
        /\ stack' \in {stack, Append(stack, Head(pending))}
        /\ \/ Seen(Head(pending)) /\ UNCHANGED <<remap, next_number>>
           \/ ~Seen(Head(pending)) /\ Assign(Head(pending))
    BY <1>5 DEF Discover
  <2> QED
    BY <1>0, <1>2, <2>1, Rest
<1>6. CASE CopyMissing
  <2>1. Top \in Objs /\ Seen(Top)
    BY <1>0, <1>6, Pop DEF CopyMissing, Top, Shape
  <2> QED
    BY <1>3, <1>6, <2>1 DEF CopyMissing
<1>7. CASE Copy
  <2>1. cur \in Objs /\ Seen(cur) /\ Here.cond[cur] = "plain"
    BY <1>7 DEF Copy, Shape
  <2> QED
    BY <1>3, <1>7, <2>1 DEF Copy
<1>8. CASE Emit
  BY <1>8 DEF Emit, Once, Seen
<1>9. CASE \/ StartContents \/ StartResources \/ RootsDone \/ Skip \/ Read \/ ClosureDone
           \/ PagesDone \/ Leaf \/ LeavesDone \/ Finish \/ UNCHANGED vars
  BY <1>1, <1>9 DEF StartContents, StartResources, RootsDone, Skip, Read, ClosureDone, PagesDone,
     Leaf, LeavesDone, Finish, vars
<1> QED
  BY <1>4, <1>5, <1>6, <1>7, <1>8, <1>9 DEF Next

-----------------------------------------------------------------------------
(***************************************************************************)
(* OnStack is preserved.                                                   *)
(***************************************************************************)
LEMMA OnStackStep == Shape /\ Once /\ OnStack /\ [Next]_vars => OnStack'
<1> SUFFICES ASSUME Shape, Once, OnStack, [Next]_vars PROVE OnStack'
  OBVIOUS
<1> DEFINE Queued(o) == \E i \in DOMAIN stack : stack[i] = o
<1>0. /\ stack \in Seq(Objs) /\ remap \in [Objs -> Nat] /\ pending \in Seq(Objs)
      /\ pc # "error" => \A o \in Objs : remap[o] # 0 /\ remap[o] \notin DOMAIN copied =>
                             Queued(o) \/ (pc = "refs" /\ cur = o)
  BY DEF Shape, TypeOK, OnStack, Seen, Copied
\* Neither the worklist nor the copies change.
<1>1. ASSUME UNCHANGED <<stack, remap, copied>>, pc # "refs", pc # "error" PROVE OnStack'
  BY <1>0, <1>1 DEF OnStack, Seen, Copied
\* The first reference of `pending` is met and, if it is new, enqueued.
<1>2. ASSUME NEW o \in Objs, UNCHANGED <<pc, cur, copied>>, pc # "error",
             (Seen(o) /\ UNCHANGED <<remap, next_number>>) \/ (~Seen(o) /\ Assign(o)),
             stack' = Append(stack, o) \/ (stack' = stack /\ Seen(o))
      PROVE  OnStack'
  <2>1. /\ \A p \in Objs : remap'[p] # 0 <=> (remap[p] # 0 \/ p = o)
        /\ \A p \in Objs : remap[p] # 0 => remap'[p] = remap[p]
        /\ \A i \in DOMAIN stack : \E k \in DOMAIN stack' : stack'[k] = stack[i]
    BY <1>2, Meets
  <2>2. ASSUME NEW p \in Objs, remap'[p] # 0, remap'[p] \notin DOMAIN copied
        PROVE  (\E k \in DOMAIN stack' : stack'[k] = p) \/ (pc = "refs" /\ cur = p)
    <3>1. CASE remap[p] # 0
      <4>1. Queued(p) \/ (pc = "refs" /\ cur = p)
        BY <1>0, <1>2, <2>1, <2>2, <3>1
      <4> QED
        BY <2>1, <4>1
    <3>2. CASE remap[p] = 0
      <4>1. p = o /\ stack' = Append(stack, o)
        BY <1>2, <2>1, <2>2, <3>2 DEF Seen
      <4> QED
        BY <1>0, <4>1, Push
    <3> QED
      BY <3>1, <3>2, <1>0
  <2> QED
    BY <1>2, <2>2 DEF OnStack, Seen, Copied
<1>3. CASE Root
  <2>1. /\ UNCHANGED <<pc, cur, copied>> /\ pc # "error" /\ pending # <<>>
        /\ stack' = Append(stack, Head(pending))
        /\ \/ Seen(Head(pending)) /\ UNCHANGED <<remap, next_number>>
           \/ ~Seen(Head(pending)) /\ Assign(Head(pending))
    BY <1>3 DEF Root
  <2> QED
    BY <1>0, <1>2, <2>1, Rest
<1>4. CASE Discover
  <2>1. /\ UNCHANGED <<pc, cur, copied>> /\ pc # "error" /\ pending # <<>>
        /\ \/ Seen(Head(pending)) /\ UNCHANGED <<remap, next_number>>
           \/ ~Seen(Head(pending)) /\ Assign(Head(pending))
        /\ \/ stack' = Append(stack, Head(pending))
           \/ stack' = stack /\ Seen(Head(pending))
    BY <1>4 DEF Discover
  <2> QED
    BY <1>0, <1>2, <2>1, Rest
\* An element of the worklist that is not the last one stays on it.
<1>5. ASSUME stack # <<>>
      PROVE  \A o \in Objs : Queued(o) => o = Top \/ \E k \in DOMAIN Popped : Popped[k] = o
  BY <1>0, <1>5, Pop DEF Top, Popped
<1>6. CASE Skip
  BY <1>0, <1>5, <1>6 DEF Skip, OnStack, Seen, Copied
<1>7. CASE CopyMissing
  <2>1. DOMAIN copied' = DOMAIN copied \cup {remap[Top]}
    BY <1>7 DEF CopyMissing, Stored
  <2>2. pc = "pop" /\ pc' = pc /\ stack # <<>> /\ stack' = Popped /\ remap' = remap
    BY <1>7 DEF CopyMissing
  <2> QED
    BY <1>0, <1>5, <2>1, <2>2 DEF OnStack, Seen, Copied
<1>8. CASE Read
  <2>1. /\ pc = "pop" /\ stack # <<>> /\ stack' = Popped /\ UNCHANGED <<remap, copied>>
        /\ pc' = "error" \/ (pc' = "refs" /\ cur' = Top)
    BY <1>8 DEF Read
  <2> QED
    BY <1>0, <1>5, <2>1 DEF OnStack, Seen, Copied
<1>9. CASE Copy
  <2>1. DOMAIN copied' = DOMAIN copied \cup {remap[cur]}
    BY <1>9 DEF Copy, Stored
  <2>2. pc = "refs" /\ pc' = "pop" /\ UNCHANGED <<stack, remap>>
    BY <1>9 DEF Copy
  <2> QED
    BY <1>0, <2>1, <2>2 DEF OnStack, Seen, Copied
<1>10. CASE Emit
  BY <1>10 DEF Emit, OnStack, Seen
<1>11. CASE UNCHANGED vars
  BY <1>11 DEF vars, OnStack, Seen, Copied
<1>12. CASE \/ StartContents \/ StartResources \/ RootsDone \/ ClosureDone
            \/ PagesDone \/ Leaf \/ LeavesDone \/ Finish
  BY <1>1, <1>12 DEF StartContents, StartResources, RootsDone, ClosureDone, PagesDone, Leaf,
     LeavesDone, Finish
<1> QED
  BY <1>3, <1>4, <1>6, <1>7, <1>8, <1>9, <1>10, <1>11, <1>12 DEF Next

-----------------------------------------------------------------------------
(***************************************************************************)
(* Reached is preserved.                                                   *)
(***************************************************************************)
\* A root list at work is part of the roots.
LEMMA RootsInRoots ==
    ASSUME Shape, Working, NEW i \in DOMAIN Pages, NEW q \in {"contents", "resources"}
    PROVE  RootsIn(i, q) \subseteq Roots /\ Roots \subseteq Objs
<1>1. Range(Pages[i].contents) \cup Range(Pages[i].resources) \subseteq Roots
  BY DEF Roots
<1>2. \A k \in DOMAIN Pages : Range(Pages[k].contents) \cup Range(Pages[k].resources) \subseteq Objs
  BY HereType, RangeOf
<1>3. Roots \subseteq Objs
  BY <1>2 DEF Roots
<1> QED
  BY <1>1, <1>3 DEF RootsIn

LEMMA ReachedInit == Init => Reached
  BY CopyAssumption DEF Init, Reached, Numbered, Seen, Earlier, Roots

LEMMA ReachedStep == Shape /\ Once /\ OnStack /\ Reached /\ [Next]_vars => Reached'
<1> SUFFICES ASSUME Shape, Once, OnStack, Reached, [Next]_vars PROVE Reached'
  OBVIOUS
<1> DEFINE Open(o) == Here.cond[o] = "plain" /\ Copied(o)
<1>0. /\ stack \in Seq(Objs) /\ remap \in [Objs -> Nat] /\ pending \in Seq(Objs)
      /\ page \in Nat \ {0} /\ part \in {"contents", "resources"}
      /\ Numbered \subseteq Objs
  BY DEF Shape, TypeOK, Numbered
\* The first reference of `pending` is met: it is one of the roots, or a reference
\* of the object at work.
<1>1. ASSUME pc \in {"roots", "refs"}, pending # <<>>, pending' = Tail(pending),
             UNCHANGED <<input, pc, doc, page, part, cur, copied>>,
             stack' \in {stack, Append(stack, Head(pending))},
             \/ Seen(Head(pending)) /\ UNCHANGED <<remap, next_number>>
             \/ ~Seen(Head(pending)) /\ Assign(Head(pending))
      PROVE  Reached'
  <2> DEFINE o == Head(pending)
  <2>1. /\ o \in Objs /\ o \in Range(pending) /\ Range(Tail(pending)) \subseteq Range(pending)
        /\ \A x \in Range(pending) : x = o \/ x \in Range(Tail(pending))
    BY <1>0, <1>1, Rest
  <2> HIDE DEF o
  <2>2. /\ \A p \in Objs : remap'[p] # 0 <=> (remap[p] # 0 \/ p = o)
        /\ \A p \in Objs : remap[p] # 0 => remap'[p] = remap[p]
    BY <1>1, <2>1, Meets DEF o
  <2>3. Numbered' = Numbered \cup {o}
    BY <2>1, <2>2 DEF Numbered, Seen
  <2>4. Here' = Here /\ Pages' = Pages /\ Roots' = Roots /\ Working
    BY <1>1 DEF Here, Pages, Roots, Working
  <2>5. \A i, q : RootsIn(i, q)' = RootsIn(i, q) /\ Earlier(i, q)' = Earlier(i, q)
    BY <1>1, <2>4 DEF RootsIn, Earlier
  \* An object that has just been given a number has no copy.
  <2>6. ASSUME NEW p \in Numbered', Copied(p)', Here.cond[p] = "plain"
        PROVE  Range(Here.links[p]) \subseteq Numbered'
    <3>1. CASE p \in Numbered
      <4>1. Copied(p)
        BY <1>1, <2>2, <2>6, <3>1 DEF Copied, Numbered, Seen
      <4> QED
        BY <2>3, <2>6, <3>1, <4>1 DEF Reached
    <3>2. CASE p \notin Numbered
      <4>1. p = o /\ ~Seen(o) /\ Assign(o)
        BY <1>1, <2>1, <2>3, <2>6, <3>2 DEF Numbered, o
      <4>2. remap'[o] = next_number /\ \A x \in Objs : remap[x] < next_number
        BY <2>1, <4>1, Assigns
      <4>3. remap'[o] \notin DOMAIN copied
        <5>1. \A n \in DOMAIN copied : \E x \in Objs : remap[x] = n
          BY DEF Once
        <5> QED
          BY <1>0, <4>2, <5>1 DEF Shape, TypeOK
      <4> QED
        BY <1>1, <2>6, <4>1, <4>3 DEF Copied
    <3> QED
      BY <3>1, <3>2
  <2>7. pc = "refs" => /\ Range(pending') \subseteq Range(Here.links[cur])
                       /\ Range(Here.links[cur]) \subseteq Numbered' \cup Range(pending')
    BY <1>1, <2>1, <2>3 DEF Reached
  <2>8. pc = "roots" => /\ Range(pending') \subseteq RootsIn(page, part)
                        /\ RootsIn(page, part) \subseteq Numbered' \cup Range(pending')
    BY <1>1, <2>1, <2>3 DEF Reached
  <2>9. ASSUME NEW S \in SUBSET Objs, Roots \subseteq S, ClosedUnder(S)' PROVE Numbered' \subseteq S
    <3>1. ClosedUnder(S)
      BY <2>4, <2>9 DEF ClosedUnder
    <3>2. Numbered \subseteq S
      BY <2>9, <3>1 DEF Reached
    <3>3. CASE pc = "refs"
      <4>1. cur \in Numbered /\ Here.cond[cur] = "plain"
        BY <3>3 DEF Shape, Numbered
      <4>2. Range(Here.links[cur]) \subseteq S
        BY <3>1, <3>2, <4>1 DEF ClosedUnder
      <4> QED
        BY <2>1, <2>3, <3>2, <3>3, <4>2 DEF Reached
    <3>4. CASE pc = "roots"
      <4>1. page \in DOMAIN Pages
        BY <3>4 DEF Shape
      <4>2. RootsIn(page, part) \subseteq Roots
        BY <1>0, <2>4, <4>1, RootsInRoots
      <4> QED
        BY <2>1, <2>3, <2>9, <3>2, <3>4, <4>2 DEF Reached
    <3> QED
      BY <1>1, <3>3, <3>4
  <2>10. \A i \in DOMAIN Pages, q \in {"contents", "resources"} :
            Earlier(i, q) => RootsIn(i, q) \subseteq Numbered'
    BY <1>1, <2>3 DEF Reached
  <2>11. pc' = pc /\ page' = page /\ part' = part /\ cur' = cur
    BY <1>1
  <2>12. \A p \in Numbered' : Copied(p)' /\ Here'.cond[p] = "plain"
            => Range(Here'.links[p]) \subseteq Numbered'
    BY <2>4, <2>6
  <2>13. pc' = "refs" => /\ Range(pending') \subseteq Range(Here'.links[cur'])
                         /\ Range(Here'.links[cur']) \subseteq Numbered' \cup Range(pending')
    BY <2>4, <2>7, <2>11
  <2>14. RootsIn(page, part)' = RootsIn(page, part)
    BY <2>4, <2>11 DEF RootsIn
  <2>15. pc' = "roots" => /\ Range(pending') \subseteq RootsIn(page, part)'
                          /\ RootsIn(page, part)' \subseteq Numbered' \cup Range(pending')
    BY <2>8, <2>11, <2>14
  <2>16. pc' \in {"pop", "refs"} => RootsIn(page, part)' \subseteq Numbered'
    BY <2>3, <2>11, <2>14 DEF Reached
  <2>17. \A i \in DOMAIN Pages', q \in {"contents", "resources"} :
            Earlier(i, q)' => RootsIn(i, q)' \subseteq Numbered'
    BY <2>4, <2>5, <2>10
  <2>18. \A S \in SUBSET Objs : Roots' \subseteq S /\ ClosedUnder(S)' => Numbered' \subseteq S
    BY <2>4, <2>9
  <2>19. pc' \notin {"leaves", "emit"}
    BY <1>1, <2>11
  <2> QED
    BY <2>12, <2>13, <2>15, <2>16, <2>17, <2>18, <2>19 DEF Reached
<1>2. CASE Root
  BY <1>1, <1>2 DEF Root
<1>3. CASE Discover
  BY <1>1, <1>3 DEF Discover
\* The other steps give no new numbers.
<1>4. ASSUME UNCHANGED <<input, doc, remap>>
      PROVE  /\ Numbered' = Numbered /\ Here' = Here /\ Pages' = Pages /\ Roots' = Roots
             /\ \A i, q : RootsIn(i, q)' = RootsIn(i, q)
             /\ \A S \in SUBSET Objs : Roots' \subseteq S /\ ClosedUnder(S)' => Numbered' \subseteq S
  <2>1. Numbered' = Numbered /\ Here' = Here
    BY <1>4 DEF Numbered, Seen, Here
  <2>2. Pages' = Pages /\ Roots' = Roots
    BY <2>1 DEF Pages, Roots
  <2>3. \A i, q : RootsIn(i, q)' = RootsIn(i, q)
    BY <2>2 DEF RootsIn
  <2>4. \A S \in SUBSET Objs : ClosedUnder(S)' <=> ClosedUnder(S)
    BY <2>1 DEF ClosedUnder
  <2> QED
    BY <2>1, <2>2, <2>3, <2>4 DEF Reached
<1>5. CASE StartContents
  <2>1. /\ UNCHANGED <<input, doc, remap, copied, page, part>> /\ pc = "page" /\ part = "contents"
        /\ \/ pc' = "error"
           \/ pc' = "roots" /\ pending' = Pages[page].contents
    BY <1>5 DEF StartContents
  <2>2. \A i, q : Earlier(i, q)' = Earlier(i, q)
    BY <2>1 DEF Earlier
  <2>3. \A o \in Objs : Copied(o)' = Copied(o)
    BY <2>1 DEF Copied
  <2> QED
    BY <1>0, <1>4, <2>1, <2>2, <2>3 DEF Reached, RootsIn
<1>6. CASE StartResources
  <2>1. /\ UNCHANGED <<input, doc, remap, copied, page, part>> /\ pc = "page" /\ part = "resources"
        /\ pc' = "roots" /\ pending' = Pages[page].resources
    BY <1>6 DEF StartResources
  <2>2. \A i, q : Earlier(i, q)' = Earlier(i, q)
    BY <2>1 DEF Earlier
  <2>3. \A o \in Objs : Copied(o)' = Copied(o)
    BY <2>1 DEF Copied
  <2> QED
    BY <1>0, <1>4, <2>1, <2>2, <2>3 DEF Reached, RootsIn
<1>7. CASE RootsDone
  <2>1. /\ UNCHANGED <<input, doc, remap, copied, page, part>> /\ pc = "roots" /\ pc' = "pop"
        /\ pending = <<>>
    BY <1>7 DEF RootsDone
  <2>2. \A i, q : Earlier(i, q)' = Earlier(i, q)
    BY <2>1 DEF Earlier
  <2>3. \A o \in Objs : Copied(o)' = Copied(o)
    BY <2>1 DEF Copied
  <2>4. Range(pending) = {}
    BY <1>0, <2>1, RangeOf
  <2> QED
    BY <1>0, <1>4, <2>1, <2>2, <2>3, <2>4 DEF Reached
<1>8. CASE Skip
  <2>1. /\ UNCHANGED <<input, doc, remap, copied, page, part, pc>> /\ pc = "pop"
    BY <1>8 DEF Skip
  <2>2. \A i, q : Earlier(i, q)' = Earlier(i, q)
    BY <2>1 DEF Earlier
  <2>3. \A o \in Objs : Copied(o)' = Copied(o)
    BY <2>1 DEF Copied
  <2>4. /\ Numbered' = Numbered /\ Here' = Here /\ Pages' = Pages /\ pc' = "pop"
        /\ \A i, q : RootsIn(i, q)' = RootsIn(i, q)
    BY <1>4, <2>1
  <2>5. \A o \in Numbered' : Copied(o)' /\ Here'.cond[o] = "plain"
           => Range(Here'.links[o]) \subseteq Numbered'
    BY <1>0, <2>3, <2>4 DEF Reached
  <2>6. RootsIn(page, part)' \subseteq Numbered'
    <3>1. RootsIn(page, part)' = RootsIn(page, part)
      BY <2>1, <2>4 DEF RootsIn
    <3> QED
      BY <2>1, <2>4, <3>1 DEF Reached
  <2>7. \A i \in DOMAIN Pages', q \in {"contents", "resources"} :
           Earlier(i, q)' => RootsIn(i, q)' \subseteq Numbered'
    BY <2>1, <2>2, <2>4 DEF Reached
  <2>8. \A S \in SUBSET Objs : Roots' \subseteq S /\ ClosedUnder(S)' => Numbered' \subseteq S
    BY <1>4, <2>1
  <2>9. pc' \notin {"refs", "roots", "leaves", "emit"}
    BY <2>4
  <2> QED
    BY <2>5, <2>6, <2>7, <2>8, <2>9 DEF Reached
\* A number was given to one object only: when it gets its body, no other object
\* becomes copied.
<1>9. ASSUME NEW n \in Objs, Seen(n), NEW body, copied' = Stored(remap[n], body), remap' = remap
      PROVE  \A o \in Numbered : Copied(o)' => Copied(o) \/ o = n
  <2>1. DOMAIN copied' = DOMAIN copied \cup {remap[n]}
    BY <1>9 DEF Stored
  <2> QED
    BY <1>9, <2>1 DEF Copied, Once, Numbered, Seen
<1>10. CASE CopyMissing
  <2>1. /\ UNCHANGED <<input, doc, remap, page, part, pc>> /\ pc = "pop" /\ stack # <<>>
        /\ copied' = Stored(remap[Top], Null) /\ Here.cond[Top] # "plain"
    BY <1>10 DEF CopyMissing
  <2>2. Top \in Objs /\ Seen(Top)
    BY <1>0, <2>1, Pop DEF Top, Shape
  <2>3. \A i, q : Earlier(i, q)' = Earlier(i, q)
    BY <2>1 DEF Earlier
  <2>4. \A o \in Numbered : Copied(o)' => Copied(o) \/ o = Top
    BY <1>9, <2>1, <2>2
  <2>5. \A o \in Numbered' : Copied(o)' /\ Here'.cond[o] = "plain"
           => Range(Here'.links[o]) \subseteq Numbered'
    BY <1>4, <2>1, <2>4 DEF Reached
  <2>6. \A i \in DOMAIN Pages', q \in {"contents", "resources"} :
          Earlier(i, q)' => RootsIn(i, q)' \subseteq Numbered'
    BY <1>4, <2>1, <2>3 DEF Reached
  <2>7. RootsIn(page, part)' \subseteq Numbered'
    BY <1>4, <2>1 DEF Reached, RootsIn
  <2> QED
    BY <1>4, <2>1, <2>5, <2>6, <2>7 DEF Reached
<1>11. CASE Read
  <2>1. /\ UNCHANGED <<input, doc, remap, copied, page, part>> /\ pc = "pop"
        /\ \/ pc' = "error"
           \/ pc' = "refs" /\ pending' = Here.links[Top] /\ cur' = Top
    BY <1>11 DEF Read
  <2>2. \A i, q : Earlier(i, q)' = Earlier(i, q)
    BY <2>1 DEF Earlier
  <2>3. \A o \in Objs : Copied(o)' = Copied(o)
    BY <2>1 DEF Copied
  <2> QED
    BY <1>0, <1>4, <2>1, <2>2, <2>3 DEF Reached
<1>12. CASE Copy
  <2>1. /\ UNCHANGED <<input, doc, remap, page, part>> /\ pc = "refs" /\ pc' = "pop"
        /\ pending = <<>> /\ copied' = Stored(remap[cur], cur)
    BY <1>12 DEF Copy
  <2>2. cur \in Objs /\ Seen(cur)
    BY <2>1 DEF Shape
  <2>3. \A i, q : Earlier(i, q)' = Earlier(i, q)
    BY <2>1 DEF Earlier
  <2>4. \A o \in Numbered : Copied(o)' => Copied(o) \/ o = cur
    BY <1>9, <2>1, <2>2
  <2>5. Range(Here.links[cur]) \subseteq Numbered
    BY <1>0, <2>1, RangeOf DEF Reached
  <2> QED
    BY <1>0, <1>4, <2>1, <2>3, <2>4, <2>5 DEF Reached
<1>13. CASE ClosureDone
  <2>1. /\ UNCHANGED <<input, doc, remap, copied>> /\ pc = "pop" /\ pc' = "page"
        /\ \/ part = "contents" /\ part' = "resources" /\ page' = page
           \/ part # "contents" /\ part' = "contents" /\ page' = page + 1
    BY <1>13 DEF ClosureDone
  <2>2. \A o \in Objs : Copied(o)' = Copied(o)
    BY <2>1 DEF Copied
  <2>3. DOMAIN Pages \subseteq Nat
    BY <2>1, HereType DEF Working
  <2>4. \A i \in DOMAIN Pages, q \in {"contents", "resources"} :
          Earlier(i, q)' => Earlier(i, q) \/ (i = page /\ q = part)
    BY <1>0, <2>1, <2>3 DEF Earlier
  <2>5. \A o \in Numbered' : Copied(o)' /\ Here'.cond[o] = "plain"
           => Range(Here'.links[o]) \subseteq Numbered'
    BY <1>4, <2>1, <2>2 DEF Reached, Numbered
  <2>6. RootsIn(page, part) \subseteq Numbered
    BY <2>1 DEF Reached
  <2>7. \A i \in DOMAIN Pages, q \in {"contents", "resources"} :
          Earlier(i, q) => RootsIn(i, q) \subseteq Numbered
    BY <2>1 DEF Reached
  <2>8. \A i \in DOMAIN Pages', q \in {"contents", "resources"} :
          Earlier(i, q)' => RootsIn(i, q)' \subseteq Numbered'
    BY <1>4, <2>1, <2>4, <2>6, <2>7
  <2> QED
    BY <1>4, <2>1, <2>5, <2>8 DEF Reached
<1>14. CASE PagesDone
  <2>1. /\ UNCHANGED <<input, doc, remap, copied>> /\ pc = "page" /\ pc' = "leaves"
        /\ page > Len(Pages)
    BY <1>14 DEF PagesDone
  <2>2. \A o \in Objs : Copied(o)' = Copied(o)
    BY <2>1 DEF Copied
  <2>3. DOMAIN Pages = 1..Len(Pages) /\ Len(Pages) \in Nat
    BY <2>1, HereType DEF Working
  <2>4. \A i \in DOMAIN Pages, q \in {"contents", "resources"} : RootsIn(i, q) \subseteq Numbered
    <3>1. \A i \in DOMAIN Pages, q \in {"contents", "resources"} :
            Earlier(i, q) => RootsIn(i, q) \subseteq Numbered
      BY <1>0, <2>1 DEF Reached
    <3>2. \A i \in DOMAIN Pages, q \in {"contents", "resources"} : Earlier(i, q)
      <4>1. page \in Nat
        BY DEF Shape, TypeOK
      <4> QED
        BY <2>1, <2>3, <4>1 DEF Earlier
    <3> QED
      BY <3>1, <3>2
  <2>5. \A i \in DOMAIN Pages :
          Range(Pages[i].contents) \subseteq Numbered /\ Range(Pages[i].resources) \subseteq Numbered
    <3> TAKE i \in DOMAIN Pages
    <3>1. RootsIn(i, "contents") \subseteq Numbered /\ RootsIn(i, "resources") \subseteq Numbered
      BY <2>4
    <3> QED
      BY <3>1 DEF RootsIn
  <2>6. Roots \subseteq Numbered
    BY <2>5 DEF Roots
  <2> QED
    BY <1>0, <1>4, <2>1, <2>2, <2>6 DEF Reached
<1>15. CASE Leaf
  <2>1. UNCHANGED <<input, pc, doc, remap, copied>> /\ pc = "leaves"
    BY <1>15 DEF Leaf
  <2>2. \A o \in Objs : Copied(o)' = Copied(o)
    BY <2>1 DEF Copied
  <2> QED
    BY <1>0, <1>4, <2>1, <2>2 DEF Reached
<1>16. CASE LeavesDone
  <2>1. UNCHANGED <<input, doc, remap, copied>> /\ pc = "leaves" /\ pc' = "emit"
    BY <1>16 DEF LeavesDone
  <2>2. \A o \in Objs : Copied(o)' = Copied(o)
    BY <2>1 DEF Copied
  <2> QED
    BY <1>0, <1>4, <2>1, <2>2 DEF Reached
<1>17. CASE Emit
  <2>1. /\ pc' \in {"finish", "page"} /\ page' = 1 /\ part' = "contents"
        /\ remap' = [o \in Objs |-> 0]
    BY <1>17 DEF Emit, Shape
  <2>2. Numbered' = {}
    BY <2>1 DEF Numbered, Seen
  <2>3. \A i \in DOMAIN Pages', q \in {"contents", "resources"} : pc' = "page" => ~Earlier(i, q)'
    <3>1. pc' = "page" => DOMAIN Pages' \subseteq Nat \ {0}
      <4>1. ASSUME pc' = "page" PROVE DOMAIN Pages' \subseteq Nat \ {0}
        <5>1. Shape'
          BY ShapeStep
        <5>2. Working'
          BY <4>1 DEF Working
        <5>3. Pages' \in Selections
          BY <5>1, <5>2 DEF Shape, TypeOK, Source, Pages, Here
        <5>4. Pages' \in Seq(Page)
          BY <5>3, CopyAssumption
        <5> QED
          BY <5>4
      <4> QED
        BY <4>1
    <3> QED
      BY <2>1, <3>1 DEF Earlier
  <2> QED
    BY <2>1, <2>2, <2>3 DEF Reached
<1>18. CASE Finish
  <2>1. UNCHANGED <<input, doc, remap, copied>> /\ pc = "finish" /\ pc' = "done"
    BY <1>18 DEF Finish
  <2>2. \A o \in Objs : Copied(o)' = Copied(o)
    BY <2>1 DEF Copied
  <2> QED
    BY <1>0, <1>4, <2>1, <2>2 DEF Reached
<1>19. CASE UNCHANGED vars
  <2>1. UNCHANGED <<input, doc, remap, copied, page, part, pc, pending, cur>>
    BY <1>19 DEF vars
  <2>2. \A i, q : Earlier(i, q)' = Earlier(i, q)
    BY <2>1 DEF Earlier
  <2>3. \A o \in Objs : Copied(o)' = Copied(o)
    BY <2>1 DEF Copied
  <2> QED
    BY <1>0, <1>4, <2>1, <2>2, <2>3 DEF Reached
<1> QED
  BY <1>2, <1>3, <1>5, <1>6, <1>7, <1>8, <1>10, <1>11, <1>12, <1>13, <1>14, <1>15, <1>16, <1>17,
     <1>18, <1>19 DEF Next

-----------------------------------------------------------------------------
(***************************************************************************)
(* Written is preserved.                                                   *)
(***************************************************************************)
LEMMA OthersInit == Init => Once /\ OnStack /\ Written
  BY DEF Init, Once, OnStack, Written, Numbered, Numbers, Seen

\* References to numbered objects are rewritten to the numbers those have.
LEMMA RewrittenTo ==
    ASSUME NEW refs \in Seq(Objs), Range(refs) \subseteq Numbered
    PROVE  Rewritten(refs) \subseteq {remap[o] : o \in Numbered}
  BY DEF Rewritten, Range

LEMMA WrittenStep == Shape /\ Once /\ OnStack /\ Reached /\ Written /\ [Next]_vars => Written'
<1> SUFFICES ASSUME Shape, Once, OnStack, Reached, Written, [Next]_vars PROVE Written'
  OBVIOUS
<1>0. /\ remap \in [Objs -> Nat] /\ next_number \in Nat /\ next_number >= 3
      /\ \A o \in Objs : remap[o] < next_number
      /\ \A o \in Numbered : o \in Objs /\ remap[o] # 0 /\ remap[o] >= 3
      /\ pending \in Seq(Objs)
  BY DEF Shape, TypeOK, Numbered, Seen
<1>1. ASSUME UNCHANGED <<out, next_number, remap>>, pc' \notin {"finish", "done"}, pc # "done"
      PROVE  Written'
  <2>1. Numbers' = Numbers /\ Numbered' = Numbered
    BY <1>1 DEF Numbers, Numbered, Seen
  <2> QED
    BY <1>1, <2>1 DEF Written
<1>2. CASE StartContents
  BY <1>1, <1>2 DEF StartContents
<1>3. CASE StartResources
  BY <1>1, <1>3 DEF StartResources
<1>4. CASE RootsDone
  BY <1>1, <1>4 DEF RootsDone
<1>5. CASE Skip
  BY <1>1, <1>5 DEF Skip
<1>6. CASE CopyMissing
  BY <1>1, <1>6 DEF CopyMissing
<1>7. CASE Read
  BY <1>1, <1>7 DEF Read
<1>8. CASE Copy
  BY <1>1, <1>8 DEF Copy
<1>9. CASE ClosureDone
  BY <1>1, <1>9 DEF ClosureDone
<1>10. CASE PagesDone
  BY <1>1, <1>10 DEF PagesDone
<1>11. CASE LeavesDone
  BY <1>1, <1>11 DEF LeavesDone
\* A number is handed out, or none is.
<1>12. ASSUME NEW o \in Objs, UNCHANGED out, pc \in {"roots", "refs"}, pc' = pc,
              \/ Seen(o) /\ UNCHANGED <<remap, next_number>>
              \/ ~Seen(o) /\ Assign(o)
       PROVE  Written'
  <2>1. CASE Seen(o) /\ UNCHANGED <<remap, next_number>>
    BY <1>1, <1>12, <2>1
  <2>2. CASE ~Seen(o) /\ Assign(o)
    <3>1. /\ next_number' = next_number + 1 /\ remap'[o] = next_number
          /\ \A p \in Objs \ {o} : remap'[p] = remap[p]
          /\ Numbered' = Numbered \cup {o} /\ o \notin Numbered
      BY <2>2, Assigns DEF Numbered
    <3>2. Numbers' = Numbers
      BY <1>12 DEF Numbers
    <3>3. \A p \in Numbered : remap'[p] = remap[p]
      BY <1>0, <3>1
    <3>4. Numbers \subseteq 3..(next_number - 1)
      BY <1>12 DEF Written
    <3>5. Numbers' \subseteq 3..(next_number' - 1)
      BY <1>0, <3>1, <3>2, <3>4
    <3>6. \A p \in Numbered' : remap'[p] \notin Numbers'
      BY <1>0, <1>12, <3>1, <3>2, <3>3, <3>4 DEF Written
    <3>7. \A n \in 3..(next_number' - 1) : n \in Numbers' \/ \E p \in Numbered' : remap'[p] = n
      <4> SUFFICES ASSUME NEW n \in 3..(next_number' - 1), n \notin Numbers
                   PROVE  \E p \in Numbered' : remap'[p] = n
        BY <3>2
      <4>1. CASE n = next_number
        BY <3>1, <4>1
      <4>2. CASE n # next_number
        <5>1. n \in 3..(next_number - 1)
          BY <1>0, <3>1, <4>2
        <5>2. PICK p \in Numbered : remap[p] = n
          BY <1>12, <5>1 DEF Written
        <5> QED
          BY <3>1, <3>3, <5>2
      <4> QED
        BY <4>1, <4>2
    <3>8. {remap[p] : p \in Numbered} \subseteq {remap'[p] : p \in Numbered'}
      BY <3>1, <3>3
    <3>9. \A r \in out' : r.refs \subseteq
             Numbers' \cup {pages_number} \cup {remap'[p] : p \in Numbered'}
      BY <1>12, <3>2, <3>8 DEF Written
    <3>10. pc' \notin {"finish", "done"} /\ \A r, t \in out' : r.number = t.number => r = t
      BY <1>12 DEF Written
    <3> QED
      BY <3>5, <3>6, <3>7, <3>9, <3>10 DEF Written, pages_number
  <2> QED
    BY <1>12, <2>1, <2>2
<1>13. CASE Root
  <2>1. pending # <<>> /\ Head(pending) \in Objs
    BY <1>0, <1>13, Rest DEF Root
  <2> QED
    BY <1>12, <1>13, <2>1 DEF Root
<1>14. CASE Discover
  <2>1. pending # <<>> /\ Head(pending) \in Objs
    BY <1>0, <1>14, Rest DEF Discover
  <2> QED
    BY <1>12, <1>14, <2>1 DEF Discover
<1>15. CASE Leaf
  <2> DEFINE r == [number |-> next_number, from |-> <<doc, "leaf", page>>,
                   refs |-> {pages_number} \cup Rewritten(Pages[page].contents)
                                \cup Rewritten(Pages[page].resources)]
  <2>1. /\ pc = "leaves" /\ pc' = pc /\ page <= Len(Pages) /\ out' = out \cup {r}
        /\ next_number' = next_number + 1 /\ remap' = remap
    BY <1>15 DEF Leaf
  <2>2. page \in DOMAIN Pages /\ Working
    BY <2>1, HereType DEF Working, Shape, TypeOK
  <2>3. Pages[page].contents \in Seq(Objs) /\ Pages[page].resources \in Seq(Objs)
    BY <2>2, HereType
  <2>4. Range(Pages[page].contents) \subseteq Numbered /\ Range(Pages[page].resources) \subseteq Numbered
    BY <2>1, <2>2 DEF Reached, Roots
  <2>5. r.refs \subseteq {pages_number} \cup {remap[o] : o \in Numbered}
    BY <2>3, <2>4, RewrittenTo
  <2>6. r.number = next_number
    OBVIOUS
  <2> HIDE DEF r
  <2>7. Numbers' = Numbers \cup {next_number} /\ Numbered' = Numbered
    BY <2>1, <2>6 DEF Numbers, Numbered, Seen
  <2>8. Numbers \subseteq 3..(next_number - 1)
    BY <2>1 DEF Written
  <2>9. Numbers' \subseteq 3..(next_number' - 1)
    BY <1>0, <2>1, <2>7, <2>8
  <2>10. \A o \in Numbered' : remap'[o] \notin Numbers'
    BY <1>0, <2>1, <2>7 DEF Written
  <2>11. \A n \in 3..(next_number' - 1) : n \in Numbers' \/ \E o \in Numbered' : remap'[o] = n
    <3> SUFFICES ASSUME NEW n \in 3..(next_number' - 1), n # next_number
                 PROVE  n \in Numbers \/ \E o \in Numbered : remap[o] = n
      BY <2>1, <2>7
    <3>1. n \in 3..(next_number - 1)
      BY <1>0, <2>1
    <3> QED
      BY <2>1, <3>1 DEF Written
  <2>12. \A s \in out' : s.refs \subseteq
           Numbers' \cup {pages_number} \cup {remap'[o] : o \in Numbered'}
    BY <2>1, <2>5, <2>7 DEF Written
  <2>13. \A s \in out : s.number # next_number
    BY <1>0, <2>8 DEF Numbers
  <2>14. \A s, t \in out' : s.number = t.number => s = t
    BY <2>1, <2>6, <2>13 DEF Written
  <2> QED
    BY <2>1, <2>9, <2>10, <2>11, <2>12, <2>14 DEF Written
<1>16. CASE Emit
  <2> DEFINE C(n) == [number |-> n, from |-> <<doc, "copy", copied[n]>>,
                      refs |-> IF copied[n] = Null THEN {}
                               ELSE Rewritten(Here.links[copied[n]])]
             copies == {C(n) : n \in DOMAIN copied}
             hasInfo == doc = 1 /\ Here.info
             info == [number |-> next_number, from |-> <<doc, "info", 0>>, refs |-> {}]
             extra == IF hasInfo THEN {info} ELSE {}
  <2>1. /\ pc = "emit" /\ Working /\ out' = out \cup copies \cup extra
        /\ next_number' = (IF hasInfo THEN next_number + 1 ELSE next_number)
        /\ pc' \in {"finish", "page"} /\ remap' = [o \in Objs |-> 0]
    BY <1>16 DEF Emit, Working
  <2>2. Numbered' = {}
    BY <2>1 DEF Numbered, Seen
  <2>3. \A o \in Numbered : Copied(o)
    BY <2>1 DEF OnStack, Shape, Numbered
  <2>4. DOMAIN copied = {remap[o] : o \in Numbered}
    BY <2>3 DEF Once, Copied, Numbered
  <2>5. ASSUME NEW n \in DOMAIN copied
        PROVE  C(n).number = n /\ C(n).refs \subseteq DOMAIN copied
    <3>1. PICK o \in Objs : /\ Seen(o) /\ remap[o] = n
                            /\ copied[n] = IF Here.cond[o] = "plain" THEN o ELSE Null
      BY DEF Once
    <3>2. CASE copied[n] = Null
      BY <3>2
    <3>3. CASE copied[n] # Null
      <4>1. copied[n] = o /\ o \in Numbered /\ Here.cond[o] = "plain"
        BY <3>1, <3>3 DEF Numbered
      <4>2. Here.links[o] \in Seq(Objs) /\ Range(Here.links[o]) \subseteq Numbered
        BY <2>1, <2>3, <4>1, HereType DEF Reached
      <4>3. Rewritten(Here.links[o]) \subseteq DOMAIN copied
        BY <2>4, <4>2, RewrittenTo
      <4> QED
        BY <3>3, <4>1, <4>3
    <3> QED
      BY <3>2, <3>3
  <2>6. info.number = next_number /\ info.refs = {}
    OBVIOUS
  <2>7. \A s \in copies : \E n \in DOMAIN copied : s = C(n)
    OBVIOUS
  <2>8. \A n \in DOMAIN copied : C(n) \in copies
    OBVIOUS
  <2>9. \A s \in extra : s = info /\ hasInfo
    OBVIOUS
  <2>10. hasInfo => info \in extra
    OBVIOUS
  <2> HIDE DEF C, copies, info, extra, hasInfo
  <2>11. /\ \A s \in copies : s.number \in DOMAIN copied /\ s.refs \subseteq DOMAIN copied
         /\ \A s, t \in copies : s.number = t.number => s = t
         /\ \A n \in DOMAIN copied : \E s \in copies : s.number = n
    BY <2>5, <2>7, <2>8
  <2>12. Numbers' = Numbers \cup DOMAIN copied \cup (IF hasInfo THEN {next_number} ELSE {})
    <3>1. \A s \in out' : s.number \in
             Numbers \cup DOMAIN copied \cup (IF hasInfo THEN {next_number} ELSE {})
      BY <2>1, <2>6, <2>9, <2>11 DEF Numbers
    <3>2. \A n \in Numbers \cup DOMAIN copied \cup (IF hasInfo THEN {next_number} ELSE {}) :
             \E s \in out' : s.number = n
      BY <2>1, <2>6, <2>10, <2>11 DEF Numbers
    <3> QED
      BY <3>1, <3>2 DEF Numbers
  <2>13. /\ Numbers \subseteq 3..(next_number - 1)
         /\ DOMAIN copied \subseteq 3..(next_number - 1)
         /\ \A n \in DOMAIN copied : n \notin Numbers
    BY <1>0, <2>1, <2>4 DEF Written
  <2>14. next_number' \in Nat /\ next_number' >= next_number
    BY <1>0, <2>1
  <2>15. Numbers' \subseteq 3..(next_number' - 1)
    <3>1. 3..(next_number - 1) \subseteq 3..(next_number' - 1)
      <4>1. \A m \in Nat : m >= next_number => 3..(next_number - 1) \subseteq 3..(m - 1)
        BY <1>0
      <4> QED
        BY <2>14, <4>1
    <3>2. hasInfo => next_number \in 3..(next_number' - 1)
      BY <1>0, <2>1
    <3> QED
      BY <2>12, <2>13, <3>1, <3>2
  <2>16. \A n \in 3..(next_number' - 1) : n \in Numbers'
    <3> SUFFICES ASSUME NEW n \in 3..(next_number' - 1) PROVE n \in Numbers'
      OBVIOUS
    <3>1. n \in 3..(next_number - 1) \/ (hasInfo /\ n = next_number)
      BY <1>0, <2>1
    <3>2. ASSUME n \in 3..(next_number - 1) PROVE n \in Numbers \cup DOMAIN copied
      <4>1. n \in Numbers \/ \E o \in Numbered : remap[o] = n
        BY <2>1, <3>2 DEF Written
      <4> QED
        BY <2>4, <4>1
    <3> QED
      BY <2>12, <3>1, <3>2
  <2>17. \A s \in out' : s.refs \subseteq Numbers' \cup {pages_number}
    BY <2>1, <2>4, <2>6, <2>9, <2>11, <2>12 DEF Written
  <2>18. /\ \A s \in out : s.number # next_number /\ s.number \notin DOMAIN copied
         /\ \A s \in copies : s.number # next_number
    <3>1. \A s \in out : s.number \in Numbers
      BY DEF Numbers
    <3>2. next_number \notin 3..(next_number - 1)
      BY <1>0
    <3> QED
      BY <2>11, <2>13, <3>1, <3>2
  <2>19. \A s, t \in out : s.number = t.number => s = t
    BY DEF Written
  <2>20. ASSUME NEW s \in out', NEW t \in out', s.number = t.number PROVE s = t
    <3>1. CASE s \in out
      BY <2>1, <2>6, <2>9, <2>11, <2>18, <2>19, <2>20, <3>1
    <3>2. CASE s \in copies
      BY <2>1, <2>6, <2>9, <2>11, <2>18, <2>20, <3>2
    <3>3. CASE s \in extra
      BY <2>1, <2>6, <2>9, <2>18, <2>20, <3>3
    <3> QED
      BY <2>1, <2>20, <3>1, <3>2, <3>3
  <2> QED
    BY <2>1, <2>2, <2>15, <2>16, <2>17, <2>20 DEF Written
<1>17. CASE Finish
  <2> DEFINE pages == [number |-> pages_number, from |-> <<0, "pages", 0>>,
                       refs |-> {r.number : r \in {x \in out : x.from[2] = "leaf"}}]
             catalog == [number |-> catalog_number, from |-> <<0, "catalog", 0>>,
                         refs |-> {pages_number}]
  <2>1. /\ pc = "finish" /\ pc' = "done" /\ out' = out \cup {pages, catalog}
        /\ UNCHANGED <<remap, next_number>>
    BY <1>17 DEF Finish
  <2>2. /\ pages.number = 2 /\ catalog.number = 1 /\ catalog.refs = {2}
        /\ pages.refs \subseteq Numbers
    BY DEF pages_number, catalog_number, Numbers
  <2> HIDE DEF pages, catalog
  <2>3. Numbered = {} /\ Numbered' = {}
    BY <2>1 DEF Written, Numbered, Seen
  <2>4. Numbers' = Numbers \cup {1, 2}
    BY <2>1, <2>2 DEF Numbers
  <2>5. Numbers \subseteq 3..(next_number - 1) /\ \A n \in 3..(next_number - 1) : n \in Numbers
    BY <2>1, <2>3 DEF Written
  <2>6. Numbers' = 1..(next_number' - 1)
    <3>1. Numbers = 3..(next_number - 1)
      BY <2>5
    <3>2. 1..(next_number - 1) = {1, 2} \cup 3..(next_number - 1)
      BY <1>0
    <3> QED
      BY <2>1, <2>4, <3>1, <3>2
  <2>7. \A r \in out' : r.refs \subseteq Numbers'
    BY <2>1, <2>2, <2>3, <2>4 DEF Written, pages_number
  <2>8. \A r \in out : r.number # 1 /\ r.number # 2
    <3>1. \A r \in out : r.number \in 3..(next_number - 1)
      BY <2>5 DEF Numbers
    <3>2. 1 \notin 3..(next_number - 1) /\ 2 \notin 3..(next_number - 1)
      BY <1>0
    <3> QED
      BY <3>1, <3>2
  <2>9. \A r, s \in out' : r.number = s.number => r = s
    BY <2>1, <2>2, <2>8 DEF Written
  <2> QED
    BY <2>1, <2>3, <2>6, <2>7, <2>9 DEF Written
<1>18. CASE UNCHANGED vars
  <2>1. UNCHANGED <<out, next_number, remap, pc>>
    BY <1>18 DEF vars
  <2>2. Numbers' = Numbers /\ Numbered' = Numbered
    BY <2>1 DEF Numbers, Numbered, Seen
  <2> QED
    BY <2>1, <2>2 DEF Written
<1> QED
  BY <1>2, <1>3, <1>4, <1>5, <1>6, <1>7, <1>8, <1>9, <1>10, <1>11, <1>13, <1>14, <1>15, <1>16,
     <1>17, <1>18 DEF Next

-----------------------------------------------------------------------------
LEMMA Always == Spec => [](Shape /\ Once /\ OnStack /\ Reached /\ Written)
<1>1. Init => Shape /\ Once /\ OnStack /\ Reached /\ Written
  BY ShapeInit, ReachedInit, OthersInit
<1>2. Shape /\ Once /\ OnStack /\ Reached /\ Written /\ [Next]_vars
        => (Shape /\ Once /\ OnStack /\ Reached /\ Written)'
  BY ShapeStep, OnceStep, OnStackStep, ReachedStep, WrittenStep
<1> QED
  BY <1>1, <1>2, PTL DEF Spec

\* Types: new numbers stay below next_number, whatever is merged.
THEOREM TypeCorrect == Spec => []TypeOK
<1>1. Shape => TypeOK
  BY DEF Shape
<1> QED
  BY Always, <1>1, PTL

\* No object that was given a number falls off the worklist: what the comment in
\* copy_closure says of its stack, for every reference graph.
THEOREM NothingForgotten == Spec => []OnStack
<1> QED
  BY Always, PTL

\* No source object is copied twice, and no two share a number.
THEOREM CopiesAreShared == Spec => []CopiedOnce
<1>1. Shape /\ Once => CopiedOnce
  <2> SUFFICES ASSUME Shape, Once PROVE CopiedOnce
    OBVIOUS
  <2>1. ASSUME NEW n \in DOMAIN copied, copied[n] # Null PROVE remap[copied[n]] = n
    BY <2>1 DEF Once
  <2> QED
    BY <2>1 DEF Once, CopiedOnce
<1> QED
  BY Always, <1>1, PTL

\* The walk copies the closure of the roots: all of it and nothing else.
THEOREM ClosureIsExact == Spec => []ClosureExact
<1>1. Shape /\ OnStack /\ Reached => ClosureExact
  <2> SUFFICES ASSUME Shape, OnStack, Reached, pc \in {"leaves", "emit"}
               PROVE  /\ \A o \in Numbered : Copied(o)
                      /\ Roots \subseteq Numbered /\ ClosedUnder(Numbered)
                      /\ \A S \in SUBSET Objs :
                            Roots \subseteq S /\ ClosedUnder(S) => Numbered \subseteq S
    BY DEF ClosureExact, Numbered
  <2>1. \A o \in Numbered : Copied(o)
    BY DEF OnStack, Shape, Numbered
  <2>2. ClosedUnder(Numbered)
    BY <2>1 DEF Reached, ClosedUnder
  <2> QED
    BY <2>1, <2>2 DEF Reached
<1> QED
  BY Always, <1>1, PTL

\* Every reference of the output file names an object of it.
THEOREM ReferencesResolve == Spec => []NoDangling
<1>1. Written => NoDangling
  BY DEF Written, NoDangling
<1> QED
  BY Always, <1>1, PTL

\* The numbers of the output file have no gap and no duplicate.
THEOREM NumbersAreExact == Spec => []NumbersExact
<1>1. Written => NumbersExact
  BY DEF Written, NumbersExact
<1> QED
  BY Always, <1>1, PTL

\* The merged file is whole: its references resolve and its numbers are exact.
THEOREM OutputIsExact == Spec => []OutputExact
<1>1. NoDangling /\ NumbersExact => OutputExact
  BY DEF OutputExact
<1> QED
  BY <1>1, ReferencesResolve, NumbersAreExact, PTL
=============================================================================
