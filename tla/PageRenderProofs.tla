-------------------------- MODULE PageRenderProofs ---------------------------
(***************************************************************************)
(* Proofs about the page renderer, for every document, polling interval,    *)
(* nesting limit and cap: a render whose token is tripped stops promptly    *)
(* (CancelledPromptly), and what runs a stream of its own leaves its        *)
(* surroundings as they were (StreamsAreContained).                         *)
(*                                                                          *)
(* Both need the shape of the two stacks: one RenderState for the page and  *)
(* one for each running group and soft mask, every frame the stream of an   *)
(* object of the document (ShapeInv).                                       *)
(*                                                                          *)
(* The bound on a stop counts operators, so its proof is a potential        *)
(* argument.  A stream that is between two polls has at most the rest of    *)
(* its interval left (Left); of the streams that were open when the token   *)
(* was tripped, those below the innermost still have theirs, that of the    *)
(* innermost is partly spent (Spent), and a stream begun by the last        *)
(* operator dispatched stands at a poll (PromptInv).                        *)
(*                                                                          *)
(* That nothing leaks is said of every frame at once, not of the innermost  *)
(* only, because each stream ends on what the one inside it has left.  A    *)
(* frame knows the levels its caller had saved, finds them under its own,   *)
(* and has opened as many of those as its operators so far have q without Q *)
(* (InsideOK, Contained); a group and a soft mask, drawn on a RenderState   *)
(* of their own, have their caller's untouched below it (Parents).          *)
(***************************************************************************)
EXTENDS PageRender, FiniteSetTheorems, TLAPS

-----------------------------------------------------------------------------

(* A sequence, whatever it is a sequence of.                                *)
IsSequence(s) == \E S : s \in Seq(S)

(* The content streams of the documents are sequences.                      *)
LEMMA StreamIsSequence ==
    ASSUME NEW ops, IsStream(ops)
    PROVE  IsSequence(ops)
BY DEF IsStream, IsSequence

(* The domain and the length of a sequence.                                 *)
LEMMA SequenceFacts ==
    ASSUME NEW s, IsSequence(s)
    PROVE  /\ Len(s) \in Nat
           /\ DOMAIN s = 1 .. Len(s)
           /\ s = <<>> <=> Len(s) = 0
BY DEF IsSequence

(* What Append does to a stack.                                             *)
LEMMA Pushing ==
    ASSUME NEW s, IsSequence(s), NEW e
    PROVE  /\ IsSequence(Append(s, e))
           /\ Len(Append(s, e)) = Len(s) + 1
           /\ \A i \in 1 .. Len(s) : Append(s, e)[i] = s[i]
           /\ Append(s, e)[Len(s) + 1] = e
<1>1. PICK S : s \in Seq(S)
  BY DEF IsSequence
<1>2. s \in Seq(S \cup {e})
  <2>1. s \in [1 .. Len(s) -> S] /\ Len(s) \in Nat
    BY <1>1
  <2>2. s \in [1 .. Len(s) -> S \cup {e}]
    BY <2>1
  <2> QED
    BY <2>1, <2>2, <1>1
<1>3. Append(s, e) \in Seq(S \cup {e})
  BY <1>2
<1> QED
  BY <1>1, <1>3 DEF IsSequence

(* What Front and Last are on a stack that is not empty.                    *)
LEMMA Popping ==
    ASSUME NEW s, IsSequence(s), Len(s) > 0
    PROVE  /\ IsSequence(Front(s))
           /\ Len(Front(s)) = Len(s) - 1
           /\ \A i \in 1 .. Len(s) - 1 : Front(s)[i] = s[i]
           /\ Last(s) = s[Len(s)]
<1>1. PICK S : s \in Seq(S)
  BY DEF IsSequence
<1>2. Front(s) = SubSeq(s, 1, Len(s) - 1) /\ Len(s) \in Nat
  BY <1>1 DEF Front
<1>3. PICK n \in Nat : Len(s) = n + 1
  <2>1. Len(s) - 1 \in Nat /\ Len(s) = (Len(s) - 1) + 1
    BY <1>2
  <2> QED
    BY <2>1
<1>4. Front(s) = [i \in 1 .. n |-> s[i]]
  BY <1>1, <1>2, <1>3
<1>5. Front(s) \in [1 .. n -> S]
  BY <1>1, <1>3, <1>4
<1>6. Front(s) \in Seq(S) /\ Len(Front(s)) = n
  BY <1>3, <1>5
<1> QED
  BY <1>3, <1>4, <1>6 DEF IsSequence, Last

(* Replacing one entry of a stack.                                          *)
LEMMA Setting ==
    ASSUME NEW s, IsSequence(s), NEW i \in 1 .. Len(s), NEW v
    PROVE  LET t == [s EXCEPT ![i] = v]
           IN /\ IsSequence(t)
              /\ Len(t) = Len(s)
              /\ t[i] = v
              /\ \A j \in 1 .. Len(s) : j # i => t[j] = s[j]
<1> DEFINE t == [s EXCEPT ![i] = v]
<1>1. PICK S : s \in Seq(S)
  BY DEF IsSequence
<1>2. Len(s) \in Nat /\ s \in [1 .. Len(s) -> S]
  BY <1>1
<1>3. t \in [1 .. Len(s) -> S \cup {v}]
  BY <1>2
<1>4. t \in Seq(S \cup {v}) /\ Len(t) = Len(s)
  BY <1>2, <1>3
<1> QED
  BY <1>2, <1>3, <1>4 DEF IsSequence

-----------------------------------------------------------------------------
(* Every name of a resource dictionary names an object of the document.     *)
NamesObjects(d, res) == \A n \in DOMAIN res : res[n] \in DOMAIN d.objects

(* A RenderState whose resources do.                                        *)
StateOK(d, s) == "res" \in DOMAIN s /\ NamesObjects(d, s.res)

FrameFields == {"kind", "object", "ops", "pc", "caller", "nth", "operator", "outer"}

(* A running dispatch_all: its next operator, its stream, its caller's      *)
(* RenderState.                                                             *)
FrameOK(d, f) ==
    /\ DOMAIN f = FrameFields
    /\ f.pc \in Nat \ {0}
    /\ IsSequence(f.ops)
    /\ StateOK(d, f.caller)
    /\ f.kind = "tile" => f.object \in DOMAIN d.objects

(* The RenderStates a frame brought with it.                                *)
Own(f) == IF f.kind \in {"group", "smask"} THEN 1 ELSE 0

(* There are n RenderStates for the frames fs: level[i] of them up to       *)
(* frame i.                                                                 *)
Fits(fs, n) ==
    \E level \in [0 .. Len(fs) -> Nat \ {0}] :
        /\ level[0] = 1
        /\ \A i \in 1 .. Len(fs) : level[i] = level[i - 1] + Own(fs[i])
        /\ level[Len(fs)] = n

(* The call stack and the RenderStates fit each other.                      *)
Shape(d, ss, fs) ==
    /\ IsSequence(ss)
    /\ \A i \in 1 .. Len(ss) : StateOK(d, ss[i])
    /\ IsSequence(fs)
    /\ \A i \in 1 .. Len(fs) : FrameOK(d, fs[i])
    /\ \A i \in 1 .. Len(fs) : fs[i].kind = "page" => i = 1
    /\ Fits(fs, Len(ss))

(* A frame begun brings its RenderState.                                    *)
LEMMA FitsPush ==
    ASSUME NEW fs, IsSequence(fs), NEW n, Fits(fs, n), NEW f
    PROVE  Fits(Append(fs, f), n + Own(f))
<1> DEFINE k == Len(fs)
<1>1. /\ k \in Nat
      /\ Len(Append(fs, f)) = k + 1
      /\ \A i \in 1 .. k : Append(fs, f)[i] = fs[i]
      /\ Append(fs, f)[k + 1] = f
  BY SequenceFacts, Pushing
<1>2. PICK level \in [0 .. k -> Nat \ {0}] :
        /\ level[0] = 1
        /\ \A i \in 1 .. k : level[i] = level[i - 1] + Own(fs[i])
        /\ level[k] = n
  BY DEF Fits
<1>3. Own(f) \in Nat
  BY DEF Own
<1> HIDE DEF k
<1> DEFINE new == [i \in 0 .. k + 1 |-> IF i = k + 1 THEN n + Own(f) ELSE level[i]]
<1>4. n \in Nat \ {0}
  BY <1>1, <1>2
<1>5. new \in [0 .. k + 1 -> Nat \ {0}]
  <2>1. ASSUME NEW i \in 0 .. k + 1, i # k + 1
        PROVE  level[i] \in Nat \ {0}
    BY <1>1, <1>2, <2>1
  <2> QED
    BY <2>1, <1>3, <1>4
<1>6. new[0] = 1 /\ new[k + 1] = n + Own(f)
  BY <1>1, <1>2
<1>7. ASSUME NEW i \in 1 .. k + 1
      PROVE  new[i] = new[i - 1] + Own(Append(fs, f)[i])
  <2>1. CASE i = k + 1
    BY <2>1, <1>1, <1>2
  <2>2. CASE i # k + 1
    <3>1. i \in 1 .. k /\ i - 1 \in 0 .. k /\ i - 1 # k + 1
      BY <2>2, <1>1
    <3>2. Append(fs, f)[i] = fs[i]
      BY <3>1, <1>1
    <3> QED
      BY <3>1, <3>2, <1>1, <1>2
  <2> QED
    BY <2>1, <2>2
<1> HIDE DEF new
<1> QED
  BY <1>1, <1>5, <1>6, <1>7 DEF Fits

(* A frame left takes its RenderState with it, and that of the page stays.  *)
LEMMA FitsPop ==
    ASSUME NEW fs, IsSequence(fs), NEW n, Fits(fs, n), Len(fs) > 0
    PROVE  /\ n - Own(Last(fs)) \in Nat \ {0}
           /\ Fits(Front(fs), n - Own(Last(fs)))
<1>1. PICK k \in Nat : Len(fs) = k + 1
  <2>1. Len(fs) - 1 \in Nat /\ Len(fs) = (Len(fs) - 1) + 1
    BY SequenceFacts
  <2> QED
    BY <2>1
<1>2. /\ Len(Front(fs)) = k
      /\ \A i \in 1 .. k : Front(fs)[i] = fs[i]
      /\ Last(fs) = fs[k + 1]
  BY <1>1, Popping
<1>3. PICK level \in [0 .. k + 1 -> Nat \ {0}] :
        /\ level[0] = 1
        /\ \A i \in 1 .. k + 1 : level[i] = level[i - 1] + Own(fs[i])
        /\ level[k + 1] = n
  BY <1>1 DEF Fits
<1> DEFINE new == [i \in 0 .. k |-> level[i]]
<1>4. new \in [0 .. k -> Nat \ {0}]
  BY <1>3
<1>5. new[0] = 1
  BY <1>3
<1>6. ASSUME NEW i \in 1 .. k
      PROVE  new[i] = new[i - 1] + Own(Front(fs)[i])
  <2>1. i \in 1 .. k + 1 /\ i \in 0 .. k /\ i - 1 \in 0 .. k
    OBVIOUS
  <2> QED
    BY <2>1, <1>2, <1>3
<1>7. Own(Last(fs)) \in Nat /\ level[k] \in Nat \ {0}
  BY <1>3 DEF Own
<1>8. new[k] = n - Own(Last(fs))
  <2>1. level[k + 1] = level[k] + Own(fs[k + 1])
    BY <1>3
  <2> QED
    BY <2>1, <1>2, <1>3, <1>7
<1>9. new[k] \in Nat \ {0}
  BY <1>4
<1> HIDE DEF new
<1> QED
  BY <1>2, <1>4, <1>5, <1>6, <1>8, <1>9 DEF Fits

(* The tops of two stacks that fit.                                         *)
LEMMA ShapeFacts ==
    ASSUME NEW d, NEW ss, NEW fs, Shape(d, ss, fs)
    PROVE  /\ Len(ss) \in Nat \ {0}
           /\ StateOK(d, Last(ss))
           /\ fs # <<>> => /\ Len(fs) \in Nat \ {0}
                           /\ Last(fs) = fs[Len(fs)]
                           /\ FrameOK(d, Last(fs))
<1>1. Len(ss) \in Nat \ {0}
  <2>1. Len(fs) \in Nat
    BY SequenceFacts DEF Shape
  <2> QED
    BY <2>1 DEF Shape, Fits
<1>2. Last(ss) = ss[Len(ss)] /\ Len(ss) \in 1 .. Len(ss)
  BY <1>1, Popping DEF Shape
<1>3. ASSUME fs # <<>>
      PROVE  Len(fs) \in Nat \ {0} /\ Len(fs) \in 1 .. Len(fs) /\ Last(fs) = fs[Len(fs)]
  BY <1>3, SequenceFacts, Popping DEF Shape
<1> QED
  BY <1>1, <1>2, <1>3 DEF Shape

(* Changing the innermost RenderState keeps the shape.                      *)
LEMMA ReplaceState ==
    ASSUME NEW d, NEW ss, NEW fs, Shape(d, ss, fs), NEW s, StateOK(d, s)
    PROVE  Shape(d, Append(Front(ss), s), fs)
<1> DEFINE f == Front(ss)
           t == Append(f, s)
<1>1. PICK k \in Nat : Len(ss) = k + 1
  <2>1. Len(ss) - 1 \in Nat /\ Len(ss) = (Len(ss) - 1) + 1
    BY ShapeFacts
  <2> QED
    BY <2>1
<1>2. IsSequence(ss) /\ Len(ss) > 0
  <2>1. Len(ss) \in Nat \ {0}
    BY ShapeFacts
  <2> QED
    BY <2>1 DEF Shape
<1>3. IsSequence(f) /\ Len(f) = k /\ \A i \in 1 .. k : f[i] = ss[i]
  BY <1>1, <1>2, Popping
<1> HIDE DEF f
<1>4. /\ IsSequence(t) /\ Len(t) = k + 1
      /\ \A i \in 1 .. k : t[i] = f[i]
      /\ t[k + 1] = s
  BY <1>3, Pushing
<1> HIDE DEF t
<1>5. ASSUME NEW i \in 1 .. Len(t)
      PROVE  StateOK(d, t[i])
  <2>1. i \in 1 .. k \/ i = k + 1
    BY <1>1, <1>4
  <2>2. ASSUME i \in 1 .. k PROVE t[i] = ss[i] /\ i \in 1 .. Len(ss)
    BY <2>2, <1>1, <1>3, <1>4
  <2> QED
    BY <2>1, <2>2, <1>4 DEF Shape
<1>6. Shape(d, t, fs)
  BY <1>1, <1>4, <1>5 DEF Shape
<1> QED
  BY <1>6 DEF t, f

(* Moving to another operator of the innermost stream keeps the shape.      *)
LEMMA SetPc ==
    ASSUME NEW d, NEW ss, NEW fs, Shape(d, ss, fs), fs # <<>>, NEW pc \in Nat \ {0}
    PROVE  LET t == [fs EXCEPT ![Len(fs)].pc = pc]
           IN /\ Shape(d, ss, t)
              /\ Len(t) = Len(fs)
              /\ t[Len(fs)] = [fs[Len(fs)] EXCEPT !.pc = pc]
              /\ \A j \in 1 .. Len(fs) : j # Len(fs) => t[j] = fs[j]
<1> DEFINE n == Len(fs)
           v == [fs[n] EXCEPT !.pc = pc]
           t == [fs EXCEPT ![n] = v]
<1>1. n \in Nat \ {0} /\ n \in 1 .. n /\ IsSequence(fs) /\ FrameOK(d, fs[n])
  BY ShapeFacts DEF Shape
<1> HIDE DEF v
<1>2. /\ IsSequence(t)
      /\ Len(t) = n
      /\ t[n] = v
      /\ \A j \in 1 .. n : j # n => t[j] = fs[j]
  <2>1. \A w : LET u == [fs EXCEPT ![Len(fs)] = w]
               IN /\ IsSequence(u)
                  /\ Len(u) = Len(fs)
                  /\ u[Len(fs)] = w
                  /\ \A j \in 1 .. Len(fs) : j # Len(fs) => u[j] = fs[j]
    BY <1>1, Setting
  <2> QED
    BY <2>1
<1>3. v.kind = fs[n].kind /\ FrameOK(d, v)
  BY <1>1 DEF FrameOK, FrameFields, v
<1>4. \A i \in 1 .. n : t[i].kind = fs[i].kind /\ FrameOK(d, t[i])
  BY <1>2, <1>3 DEF Shape
<1>5. \A i \in 1 .. n : Own(t[i]) = Own(fs[i])
  BY <1>4 DEF Own
<1> HIDE DEF t
<1>6. Fits(t, Len(ss))
  BY <1>2, <1>5 DEF Shape, Fits
<1>7. Shape(d, ss, t)
  BY <1>2, <1>4, <1>6 DEF Shape
<1> QED
  BY <1>2, <1>7 DEF t, v

(* What a frame pushed leaves true of every frame.                          *)
LEMMA FramesPush ==
    ASSUME NEW d, NEW fs, IsSequence(fs), NEW f, FrameOK(d, f), f.kind # "page",
           \A i \in 1 .. Len(fs) : FrameOK(d, fs[i]),
           \A i \in 1 .. Len(fs) : fs[i].kind = "page" => i = 1
    PROVE  LET t == Append(fs, f)
           IN /\ IsSequence(t)
              /\ \A i \in 1 .. Len(t) : FrameOK(d, t[i])
              /\ \A i \in 1 .. Len(t) : t[i].kind = "page" => i = 1
<1> DEFINE t == Append(fs, f)
           n == Len(fs)
<1>1. n \in Nat /\ IsSequence(t) /\ Len(t) = n + 1 /\ t[n + 1] = f
      /\ \A i \in 1 .. n : t[i] = fs[i]
  BY SequenceFacts, Pushing
<1> HIDE DEF t
<1>2. ASSUME NEW i \in 1 .. Len(t)
      PROVE  FrameOK(d, t[i]) /\ (t[i].kind = "page" => i = 1)
  <2>1. i \in 1 .. n \/ i = n + 1
    BY <1>1
  <2> QED
    BY <2>1, <1>1
<1> QED
  BY <1>1, <1>2 DEF t

(* Beginning a stream on the RenderState of its caller.                     *)
LEMMA PushFrame ==
    ASSUME NEW d, NEW ss, NEW fs, Shape(d, ss, fs), NEW f, FrameOK(d, f),
           f.kind \notin {"page", "group", "smask"}
    PROVE  Shape(d, ss, Append(fs, f))
<1>1. Own(f) = 0 /\ Len(ss) \in Nat
  BY ShapeFacts DEF Own
<1>2. Len(ss) + Own(f) = Len(ss)
  BY <1>1
<1>3. Fits(Append(fs, f), Len(ss) + Own(f))
  BY FitsPush DEF Shape
<1> QED
  BY <1>2, <1>3, FramesPush DEF Shape

(* Beginning a stream on a RenderState of its own.                          *)
LEMMA PushBoth ==
    ASSUME NEW d, NEW ss, NEW fs, Shape(d, ss, fs), NEW s, StateOK(d, s),
           NEW f, FrameOK(d, f), f.kind \in {"group", "smask"}
    PROVE  Shape(d, Append(ss, s), Append(fs, f))
<1> DEFINE t == Append(ss, s)
           n == Len(ss)
<1>1. n \in Nat /\ Own(f) = 1 /\ f.kind # "page"
  BY ShapeFacts DEF Own
<1>2. IsSequence(t) /\ Len(t) = n + 1 /\ t[n + 1] = s
      /\ \A i \in 1 .. n : t[i] = ss[i]
  BY Pushing DEF Shape
<1> HIDE DEF t
<1>3. ASSUME NEW i \in 1 .. Len(t) PROVE StateOK(d, t[i])
  <2>1. i \in 1 .. n \/ i = n + 1
    BY <1>1, <1>2
  <2> QED
    BY <2>1, <1>2 DEF Shape
<1>4. Fits(Append(fs, f), Len(t))
  BY <1>1, <1>2, FitsPush DEF Shape
<1>5. Shape(d, t, Append(fs, f))
  BY <1>1, <1>2, <1>3, <1>4, FramesPush DEF Shape
<1> QED
  BY <1>5 DEF t

(* What is true of every frame when the innermost has gone.                 *)
LEMMA FramesPop ==
    ASSUME NEW d, NEW ss, NEW fs, Shape(d, ss, fs), fs # <<>>
    PROVE  LET t == Front(fs)
           IN /\ IsSequence(t)
              /\ Len(t) = Len(fs) - 1
              /\ \A i \in 1 .. Len(t) : FrameOK(d, t[i])
              /\ \A i \in 1 .. Len(t) : t[i].kind = "page" => i = 1
<1> DEFINE t == Front(fs)
           n == Len(fs)
<1>1. n \in Nat \ {0}
  BY ShapeFacts
<1>2. IsSequence(t) /\ Len(t) = n - 1 /\ \A i \in 1 .. n - 1 : t[i] = fs[i]
  BY <1>1, Popping DEF Shape
<1> HIDE DEF t
<1>3. \A i \in 1 .. Len(t) : i \in 1 .. n /\ t[i] = fs[i]
  BY <1>1, <1>2
<1>4. (\A i \in 1 .. Len(t) : FrameOK(d, t[i])) /\ (\A i \in 1 .. Len(t) : t[i].kind = "page" => i = 1)
  BY <1>3 DEF Shape
<1> QED
  BY <1>2, <1>4 DEF t

(* Ending a stream on the RenderState of its caller.                        *)
LEMMA PopFrame ==
    ASSUME NEW d, NEW ss, NEW fs, Shape(d, ss, fs), fs # <<>>,
           Last(fs).kind \notin {"group", "smask"}
    PROVE  Shape(d, ss, Front(fs))
<1>1. Len(fs) > 0 /\ Len(ss) \in Nat /\ Own(Last(fs)) = 0
  BY ShapeFacts DEF Own
<1>2. Len(ss) - Own(Last(fs)) = Len(ss)
  BY <1>1
<1>3. Fits(Front(fs), Len(ss) - Own(Last(fs)))
  BY <1>1, FitsPop DEF Shape
<1> QED
  BY <1>2, <1>3, FramesPop DEF Shape

(* Ending a stream that had a RenderState of its own.                       *)
LEMMA PopBoth ==
    ASSUME NEW d, NEW ss, NEW fs, Shape(d, ss, fs), fs # <<>>,
           Last(fs).kind \in {"group", "smask"}
    PROVE  Shape(d, Front(ss), Front(fs))
<1> DEFINE t == Front(ss)
           n == Len(ss)
<1>1. Len(fs) > 0 /\ n \in Nat \ {0} /\ Own(Last(fs)) = 1
  BY ShapeFacts DEF Own
<1>2. IsSequence(t) /\ Len(t) = n - 1 /\ \A i \in 1 .. n - 1 : t[i] = ss[i]
  BY <1>1, Popping DEF Shape
<1> HIDE DEF t
<1>3. \A i \in 1 .. Len(t) : i \in 1 .. n /\ t[i] = ss[i]
  BY <1>1, <1>2
<1>4. \A i \in 1 .. Len(t) : StateOK(d, t[i])
  BY <1>3 DEF Shape
<1>5. Fits(Front(fs), Len(t))
  BY <1>1, <1>2, FitsPop DEF Shape
<1>6. Shape(d, t, Front(fs))
  BY <1>2, <1>4, <1>5, FramesPop DEF Shape
<1> QED
  BY <1>6 DEF t

(* What DocumentsAssumption says of one document.                           *)
LEMMA DocumentFacts ==
    ASSUME NEW d \in Documents
    PROVE  /\ IsSequence(d.ops)
           /\ NamesObjects(d, d.res)
           /\ \A o \in DOMAIN d.objects :
                 IsSequence(d.objects[o].ops) /\ NamesObjects(d, d.objects[o].res)
           /\ \A i \in Nat : 0 < i /\ i <= Len(d.annots) =>
                 /\ d.annots[i] \in DOMAIN d.objects
                 /\ d.objects[d.annots[i]].kind \in {"form", "group"}
<1>1. IsStream(d.ops) /\ Range(d.res) \subseteq DOMAIN d.objects
      /\ d.annots \in Seq({o \in DOMAIN d.objects : d.objects[o].kind \in {"form", "group"}})
  BY DocumentsAssumption
<1>2. ASSUME NEW o \in DOMAIN d.objects
      PROVE  IsStream(d.objects[o].ops) /\ Range(d.objects[o].res) \subseteq DOMAIN d.objects
  BY DocumentsAssumption
<1>3. \A res : Range(res) \subseteq DOMAIN d.objects => NamesObjects(d, res)
  BY DEF Range, NamesObjects
<1>4. ASSUME NEW i \in Nat, 0 < i, i <= Len(d.annots)
      PROVE  /\ d.annots[i] \in DOMAIN d.objects
             /\ d.objects[d.annots[i]].kind \in {"form", "group"}
  <2>1. i \in 1 .. Len(d.annots)
    BY <1>1, <1>4
  <2> QED
    BY <2>1, <1>1
<1> QED
  BY <1>1, <1>2, <1>3, <1>4, StreamIsSequence

(* The RenderState t has the resources of s.                                *)
Keeps(s, t) == "res" \in DOMAIN s => "res" \in DOMAIN t /\ t.res = s.res

(* A RenderState with the same resources names objects too.                 *)
LEMMA StateKept ==
    ASSUME NEW d, NEW s, NEW t, StateOK(d, s), Keeps(s, t)
    PROVE  StateOK(d, t)
BY DEF StateOK, Keeps

(* Assigning a field other than the resources.                              *)
LEMMA FieldsKept ==
    ASSUME NEW s, NEW v
    PROVE  /\ Keeps(s, [s EXCEPT !.path = v])
           /\ Keeps(s, [s EXCEPT !.pending = v])
           /\ Keeps(s, [s EXCEPT !.marks = v])
           /\ Keeps(s, [s EXCEPT !.blend = v])
           /\ Keeps(s, [s EXCEPT !.clip = v])
           /\ Keeps(s, [s EXCEPT !.smask = v])
           /\ Keeps(s, [s EXCEPT !.depth = v])
           /\ Keeps(s, [s EXCEPT !.gs = v])
           /\ Keeps(s, [s EXCEPT !.clipStack = v])
           /\ Keeps(s, [s EXCEPT !.smaskStack = v])
           /\ Keeps(s, [s EXCEPT !.base = v])
BY DEF Keeps

(* The operators of the painters, of q and Q and of annotations leave the   *)
(* resources alone.                                                         *)
LEMMA StepsKept ==
    ASSUME NEW s, NEW t, NEW v
    PROVE  /\ Keeps(s, Synced(s))
           /\ Keeps(s, Marked(s, v))
           /\ Keeps(s, PaintPath(s, v))
           /\ Keeps(s, Cleared(s))
           /\ Keeps(s, ApplyPendingClip(s))
           /\ Keeps(s, Saved(s))
           /\ Keeps(s, PoppedMasks(s))
           /\ Keeps(s, Restored(s))
           /\ Keeps(s, Shallower(s))
           /\ Keeps(s, AfterFill(s, v))
           /\ Keeps(s, EnterAnnotation(s))
           /\ Keeps(s, LeaveAnnotation(s, t))
<1>1. Keeps(s, Synced(s))
  BY DEF Keeps, Synced
<1>2. Keeps(s, Marked(s, v))
  BY DEF Keeps, Marked
<1>3. Keeps(s, PaintPath(s, v))
  BY DEF Keeps, PaintPath
<1>4. Keeps(s, Cleared(s))
  BY DEF Keeps, Cleared
<1>5. Keeps(s, ApplyPendingClip(s))
  BY DEF Keeps, ApplyPendingClip
<1>6. Keeps(s, Saved(s))
  BY DEF Keeps, Saved
<1>7. Keeps(s, PoppedMasks(s))
  BY DEF Keeps, PoppedMasks
<1>8. Keeps(s, Restored(s))
  BY DEF Keeps, Restored, PoppedMasks, Synced
<1>9. Keeps(s, Shallower(s))
  BY DEF Keeps, Shallower
<1>10. Keeps(s, AfterFill(s, v))
  BY DEF Keeps, AfterFill, Cleared, PaintPath
<1>11. Keeps(s, EnterAnnotation(s))
  BY DEF Keeps, EnterAnnotation, Synced
<1>12. Keeps(s, LeaveAnnotation(s, t))
  BY DEF Keeps, LeaveAnnotation, Synced
<1> QED
  BY <1>1, <1>2, <1>3, <1>4, <1>5, <1>6, <1>7, <1>8, <1>9, <1>10, <1>11, <1>12

(* A form's resources over those in effect still name objects.              *)
LEMMA MergedNames ==
    ASSUME NEW d, NEW own, NEW current, NamesObjects(d, own), NamesObjects(d, current)
    PROVE  NamesObjects(d, MergeResources(own, current))
BY DEF NamesObjects, MergeResources

(* Entering a form or a tile, and leaving a form, with resources that name  *)
(* objects.                                                                 *)
LEMMA NestedStates ==
    ASSUME doc \in Documents, NEW s, StateOK(doc, s), NEW o \in DOMAIN doc.objects,
           NEW caller, StateOK(doc, caller), NEW nth
    PROVE  /\ StateOK(doc, EnterForm(s, o))
           /\ StateOK(doc, CleanupAfterForm(s, caller))
           /\ StateOK(doc, EnterTile(s, o, nth))
<1>1. NamesObjects(doc, doc.objects[o].res)
  BY DocumentFacts
<1>2. NamesObjects(doc, MergeResources(doc.objects[o].res, s.res))
  BY <1>1, MergedNames DEF StateOK
<1>3. StateOK(doc, EnterForm(s, o))
  <2>1. "res" \in DOMAIN EnterForm(s, o)
    BY DEF StateOK, EnterForm
  <2>2. EnterForm(s, o).res = MergeResources(doc.objects[o].res, s.res)
    BY DEF StateOK, EnterForm
  <2> QED
    BY <1>2, <2>1, <2>2 DEF StateOK
<1>4. StateOK(doc, CleanupAfterForm(s, caller))
  <2> DEFINE t == [Shallower(s) EXCEPT !.res = caller.res, !.gs = caller.gs,
                                       !.base = caller.base]
  <2>1. "res" \in DOMAIN Shallower(s)
    BY DEF StateOK, Shallower
  <2>2. "res" \in DOMAIN t /\ t.res = caller.res
    BY <2>1
  <2>3. StateOK(doc, t)
    BY <2>2 DEF StateOK
  <2> HIDE DEF t
  <2>4. StateOK(doc, PoppedMasks(Synced(t)))
    BY <2>3, StepsKept, StateKept
  <2> QED
    BY <2>4 DEF t, CleanupAfterForm
<1>5. StateOK(doc, EnterTile(s, o, nth))
  <2>1. "res" \in DOMAIN EnterTile(s, o, nth)
    BY DEF StateOK, EnterTile
  <2>2. EnterTile(s, o, nth).res = MergeResources(doc.objects[o].res, s.res)
    BY DEF StateOK, EnterTile
  <2> QED
    BY <1>2, <2>1, <2>2 DEF StateOK
<1> QED
  BY <1>3, <1>4, <1>5

(* The RenderState of a group or a soft mask.                               *)
LEMMA ChildStates ==
    ASSUME doc \in Documents, NEW s, StateOK(doc, s), NEW o \in DOMAIN doc.objects,
           NEW marks, NEW clip
    PROVE  StateOK(doc, ChildState(s, o, marks, clip))
<1>1. NamesObjects(doc, doc.objects[o].res)
  BY DocumentFacts
<1>2. NamesObjects(doc, MergeResources(doc.objects[o].res, s.res))
  BY <1>1, MergedNames DEF StateOK
<1> DEFINE fresh == FreshState(MergeResources(doc.objects[o].res, s.res))
<1>3. "res" \in DOMAIN fresh /\ fresh.res = MergeResources(doc.objects[o].res, s.res)
  BY DEF FreshState
<1> HIDE DEF fresh
<1>4. /\ "res" \in DOMAIN ChildState(s, o, marks, clip)
      /\ ChildState(s, o, marks, clip).res = fresh.res
  BY <1>3 DEF ChildState, fresh
<1> QED
  BY <1>2, <1>3, <1>4 DEF StateOK

(* Leaving a tile brings back the resources of the fill.                    *)
LEMMA LeftTile ==
    ASSUME NEW d, NEW s, StateOK(d, s), NEW caller, StateOK(d, caller)
    PROVE  StateOK(d, LeaveTile(s, caller))
<1> DEFINE t == [Shallower(s) EXCEPT !.gs = caller.gs, !.res = caller.res,
                                     !.base = caller.base, !.clip = caller.clip]
<1>1. "res" \in DOMAIN Shallower(s)
  BY DEF StateOK, Shallower
<1>2. "res" \in DOMAIN t /\ t.res = caller.res
  BY <1>1
<1>3. StateOK(d, t)
  BY <1>2 DEF StateOK
<1> HIDE DEF t
<1>4. StateOK(d, Synced(t))
  BY <1>3, StepsKept, StateKept
<1> QED
  BY <1>4 DEF t, LeaveTile

(* Compositing a group back changes marks only.                             *)
LEMMA CompositedKept ==
    ASSUME NEW s, NEW o, NEW child
    PROVE  Keeps(s, Composited(s, o, child))
BY FieldsKept DEF Composited

(* A frame begun for an object of the document is well formed and stands    *)
(* at its first operator.                                                   *)
LEMMA FramesOK ==
    ASSUME doc \in Documents, NEW o \in DOMAIN doc.objects, NEW caller, StateOK(doc, caller),
           NEW kind, NEW nth, NEW operator, NEW outer
    PROVE  /\ FrameOK(doc, Frame(kind, o, caller, nth, operator, outer))
           /\ Frame(kind, o, caller, nth, operator, outer).kind = kind
           /\ Frame(kind, o, caller, nth, operator, outer).pc = 1
<1>1. IsSequence(doc.objects[o].ops)
  BY DocumentFacts
<1> DEFINE f == Frame(kind, o, caller, nth, operator, outer)
<1>2. /\ DOMAIN f = FrameFields
      /\ f.pc = 1 /\ f.kind = kind /\ f.object = o /\ f.caller = caller
      /\ f.ops = doc.objects[o].ops
  BY DEF Frame, FrameFields
<1> QED
  BY <1>1, <1>2 DEF FrameOK

-----------------------------------------------------------------------------
(* The inductive invariant of the stacks.                                   *)
ShapeInv ==
    /\ doc \in Documents
    /\ annot \in Nat
    /\ Shape(doc, states, frames)

(* The innermost RenderState and the innermost frame are well formed.       *)
LEMMA Tops ==
    ASSUME ShapeInv
    PROVE  /\ StateOK(doc, St)
           /\ frames # <<>> => FrameOK(doc, Top)
           /\ frames # <<>> => Top = frames[Len(frames)] /\ Len(frames) \in Nat \ {0}
BY ShapeFacts DEF ShapeInv, St, Top

(* Advancing over the operator dispatched changes one program counter.      *)
LEMMA AdvancedShape ==
    ASSUME ShapeInv, frames # <<>>
    PROVE  /\ Shape(doc, states, Advanced)
           /\ Len(Advanced) = Len(frames)
           /\ Advanced[Len(frames)] = [Top EXCEPT !.pc = Top.pc + 1]
           /\ \A i \in 1 .. Len(frames) : i # Len(frames) => Advanced[i] = frames[i]
<1> DEFINE next == Top.pc + 1
<1>1. Top.pc \in Nat \ {0} /\ Top = frames[Len(frames)]
  BY Tops DEF FrameOK
<1>2. next \in Nat \ {0} /\ next = frames[Len(frames)].pc + 1
  BY <1>1
<1>3. Advanced = [frames EXCEPT ![Len(frames)].pc = frames[Len(frames)].pc + 1]
  BY DEF Advanced
<1> HIDE DEF next
<1>4. Advanced = [frames EXCEPT ![Len(frames)].pc = next]
  BY <1>2, <1>3
<1>5. /\ Shape(doc, states, Advanced)
      /\ Len(Advanced) = Len(frames)
      /\ Advanced[Len(frames)] = [frames[Len(frames)] EXCEPT !.pc = next]
      /\ \A i \in 1 .. Len(frames) : i # Len(frames) => Advanced[i] = frames[i]
  <2>1. \A pc \in Nat \ {0} :
           LET t == [frames EXCEPT ![Len(frames)].pc = pc]
           IN /\ Shape(doc, states, t)
              /\ Len(t) = Len(frames)
              /\ t[Len(frames)] = [frames[Len(frames)] EXCEPT !.pc = pc]
              /\ \A j \in 1 .. Len(frames) : j # Len(frames) => t[j] = frames[j]
    BY SetPc DEF ShapeInv
  <2> QED
    BY <2>1, <1>2, <1>4
<1> QED
  BY <1>1, <1>5 DEF next

(* An operator that changes the RenderState only.                           *)
LEMMA BecomesShape ==
    ASSUME ShapeInv, frames # <<>>, NEW s, StateOK(doc, s)
    PROVE  Shape(doc, WithTop(s), Advanced)
BY AdvancedShape, ReplaceState DEF WithTop

(* An operator that begins a stream on the RenderState it has changed.      *)
LEMMA BeginsShape ==
    ASSUME ShapeInv, frames # <<>>, NEW s, StateOK(doc, s), NEW f, FrameOK(doc, f),
           f.kind \notin {"page", "group", "smask"}
    PROVE  Shape(doc, WithTop(s), Append(Advanced, f))
BY BecomesShape, PushFrame

(* An operator that begins a stream on a new RenderState.                   *)
LEMMA BeginsBothShape ==
    ASSUME ShapeInv, frames # <<>>, NEW s, StateOK(doc, s), NEW f, FrameOK(doc, f),
           NEW child, StateOK(doc, child), f.kind \in {"group", "smask"}
    PROVE  Shape(doc, Append(WithTop(s), child), Append(Advanced, f))
BY BecomesShape, PushBoth

-----------------------------------------------------------------------------
(* The shape at the start of a page.                                        *)
LEMMA ShapeInit == Init => ShapeInv
<1> SUFFICES ASSUME Init PROVE ShapeInv
  OBVIOUS
<1> DEFINE s == FreshState(doc.res)
<1>1. doc \in Documents /\ annot = 0
  BY DEF Init
<1>2. IsSequence(doc.ops) /\ NamesObjects(doc, doc.res)
  BY <1>1, DocumentFacts
<1>3. StateOK(doc, s)
  <2>1. "res" \in DOMAIN s /\ s.res = doc.res
    BY DEF FreshState
  <2> QED
    BY <1>2, <2>1 DEF StateOK
<1> HIDE DEF s
<1> DEFINE f == [kind |-> "page", object |-> "page", ops |-> doc.ops, pc |-> 1,
                 caller |-> s, nth |-> 0, operator |-> "", outer |-> <<>>]
<1>4. states = <<s>> /\ frames = <<f>>
  BY DEF Init, s
<1>5. FrameOK(doc, f) /\ f.kind = "page"
  BY <1>2, <1>3 DEF FrameOK, FrameFields
<1> HIDE DEF f
<1>6. IsSequence(states) /\ Len(states) = 1 /\ states[1] = s
  <2>1. <<s>> \in Seq({s}) /\ Len(<<s>>) = 1 /\ <<s>>[1] = s
    OBVIOUS
  <2> QED
    BY <2>1, <1>4 DEF IsSequence
<1>7. IsSequence(frames) /\ Len(frames) = 1 /\ frames[1] = f
  <2>1. <<f>> \in Seq({f}) /\ Len(<<f>>) = 1 /\ <<f>>[1] = f
    OBVIOUS
  <2> QED
    BY <2>1, <1>4 DEF IsSequence
<1>8. Fits(frames, 1)
  <2> DEFINE level == [i \in 0 .. 1 |-> 1]
  <2>1. Own(f) = 0
    BY <1>5 DEF Own
  <2>2. level \in [0 .. 1 -> Nat \ {0}] /\ level[0] = 1 /\ level[1] = 1
    OBVIOUS
  <2> HIDE DEF level
  <2>3. \A i \in 1 .. 1 : i = 1
    OBVIOUS
  <2>4. \A i \in 1 .. Len(frames) : level[i] = level[i - 1] + Own(frames[i])
    BY <1>7, <2>1, <2>2, <2>3
  <2> QED
    BY <1>7, <2>2, <2>4 DEF Fits
<1>9. \A i \in 1 .. 1 : i = 1
  OBVIOUS
<1> QED
  BY <1>1, <1>3, <1>5, <1>6, <1>7, <1>8, <1>9 DEF ShapeInv, Shape

(* What all operators do: one is dispatched where no poll stops it, the     *)
(* innermost stream moves on, and at most one stream is begun.              *)
OperatorEffect ==
    /\ frames # <<>>
    /\ Running(Top)
    /\ ~ (cancelled /\ Polls(Top))
    /\ Dispatched
    /\ UNCHANGED <<doc, annot, cancelled, open, result>>
    /\ Shape(doc, states', frames')
    /\ frames' = Advanced \/ \E f : frames' = Append(Advanced, f) /\ f.pc = 1

(* ... for an operator that stays in its stream,                            *)
LEMMA BecomesEffect ==
    ASSUME ShapeInv, NEW operators, Due(operators), NEW s, StateOK(doc, s), Becomes(s)
    PROVE  OperatorEffect
<1>1. frames # <<>>
  BY DEF Due
<1>2. Shape(doc, WithTop(s), Advanced)
  BY <1>1, BecomesShape
<1> QED
  BY <1>1, <1>2 DEF OperatorEffect, Due, Becomes

(* ... and for one that begins another.                                     *)
LEMMA BeginsEffect ==
    ASSUME NEW operators, Due(operators), NEW f, frames' = Append(Advanced, f), f.pc = 1,
           Shape(doc, states', frames'), Dispatched,
           UNCHANGED <<doc, annot, cancelled, open, result>>
    PROVE  OperatorEffect
BY DEF OperatorEffect, Due

(* The object a Do or a gs names exists.                                    *)
LEMMA NamedObject ==
    ASSUME ShapeInv, NEW kinds, Named(kinds)
    PROVE  St.res[Arg] \in DOMAIN doc.objects
BY Tops DEF Named, StateOK, NamesObjects

(* Every operator has that effect, whatever it paints.                      *)
LEMMA OperatorStep ==
    ASSUME ShapeInv, Operator
    PROVE  OperatorEffect
<1>1. doc \in Documents /\ StateOK(doc, St)
  BY Tops DEF ShapeInv
<1>2. ASSUME NEW t, Keeps(St, t) PROVE StateOK(doc, t)
  BY <1>1, <1>2, StateKept
<1>3. ASSUME NEW s, StateOK(doc, s), NEW v
      PROVE  /\ StateOK(doc, ApplyPendingClip(s))
             /\ StateOK(doc, Cleared(s))
             /\ StateOK(doc, PaintPath(s, v))
             /\ StateOK(doc, AfterFill(s, v))
             /\ StateOK(doc, Synced(s))
             /\ StateOK(doc, [s EXCEPT !.clip = v])
             /\ StateOK(doc, [s EXCEPT !.smask = v])
             /\ StateOK(doc, [s EXCEPT !.gs = v])
  BY <1>3, StepsKept, FieldsKept, StateKept
<1>4. CASE ConstructPath
  <2>1. StateOK(doc, [St EXCEPT !.path = Append(@, Arg)])
    BY <1>2, FieldsKept
  <2> QED
    BY <1>4, <2>1, BecomesEffect DEF ConstructPath
<1>5. CASE MarkClip
  <2>1. StateOK(doc, [St EXCEPT !.pending = TRUE])
    BY <1>2, FieldsKept
  <2> QED
    BY <1>5, <2>1, BecomesEffect DEF MarkClip
<1>6. CASE EndPath
  BY <1>1, <1>3, <1>6, BecomesEffect DEF EndPath
<1>7. CASE Stroke
  BY <1>1, <1>3, <1>7, BecomesEffect DEF Stroke
<1>8. CASE Fill
  BY <1>1, <1>3, <1>8, BecomesEffect DEF Fill
<1>9. CASE SkipPattern
  BY <1>1, <1>3, <1>9, BecomesEffect DEF SkipPattern
<1>10. CASE FillPattern
  <2> DEFINE s == ApplyPendingClip(St)
             o == s.res[s.gs.fill]
             clipped == [s EXCEPT !.clip = @ \cup {Region(s.path, s.gs.ctm)}]
             f == Frame("tile", o, clipped, 1, Top.ops[Top.pc].op, <<s>>)
  <2>1. /\ states' = WithTop(EnterTile(clipped, o, 1))
        /\ frames' = Append(Advanced, f)
        /\ Due({"f", "B"}) /\ CanTile(St) /\ Dispatched
        /\ UNCHANGED <<doc, annot, cancelled, open, result>>
    BY <1>10 DEF FillPattern
  <2>2. StateOK(doc, s) /\ StateOK(doc, clipped)
    BY <1>1, <1>3
  <2>3. s.res = St.res /\ s.gs = St.gs
    BY <1>1 DEF StateOK, ApplyPendingClip
  <2>4. o \in DOMAIN doc.objects
    BY <2>1, <2>3, <1>1 DEF CanTile, StateOK, NamesObjects
  <2> HIDE DEF s, o, clipped
  <2>5. StateOK(doc, EnterTile(clipped, o, 1))
    BY <1>1, <2>2, <2>4, NestedStates
  <2>6. FrameOK(doc, f) /\ f.kind = "tile" /\ f.pc = 1
    BY <1>1, <2>2, <2>4, FramesOK
  <2> HIDE DEF f
  <2>7. frames # <<>>
    BY <2>1 DEF Due
  <2>8. Shape(doc, states', frames')
    BY <2>1, <2>5, <2>6, <2>7, BeginsShape
  <2> QED
    BY <2>1, <2>6, <2>8, BeginsEffect
<1>11. CASE Save
  BY <1>1, <1>2, <1>11, StepsKept, BecomesEffect DEF Save
<1>12. CASE Restore
  BY <1>1, <1>2, <1>12, StepsKept, BecomesEffect DEF Restore
<1>13. CASE ConcatMatrix
  <2>1. StateOK(doc, [St EXCEPT !.gs.ctm = Append(@, Transform(Arg, 0))])
    BY <1>1 DEF StateOK
  <2> QED
    BY <1>13, <2>1, BecomesEffect DEF ConcatMatrix
<1>14. CASE SetFill
  <2>1. StateOK(doc, [St EXCEPT !.gs.fill = Arg])
    BY <1>1 DEF StateOK
  <2> QED
    BY <1>14, <2>1, BecomesEffect DEF SetFill
<1>15. CASE Show
  BY <1>1, <1>2, <1>15, StepsKept, BecomesEffect DEF Show
<1>16. ASSUME NEW g PROVE StateOK(doc, WithParameters(St, g))
  BY <1>1 DEF StateOK, WithParameters, Synced
<1>17. CASE SetGraphicsState
  <2> DEFINE g == doc.objects[St.res[Arg]]
             s == WithParameters(St, g)
  <2>1. StateOK(doc, s) /\ StateOK(doc, [s EXCEPT !.smask = <<>>])
    BY <1>3, <1>16
  <2>2. Due({"gs"}) /\ (Becomes(s) \/ Becomes([s EXCEPT !.smask = <<>>]))
    BY <1>17 DEF SetGraphicsState
  <2> QED
    BY <2>1, <2>2, BecomesEffect
<1>18. CASE BeginSoftMask
  <2> DEFINE o == doc.objects[St.res[Arg]].smask
             s == WithParameters(St, doc.objects[St.res[Arg]])
             child == ChildState(s, o, <<>>, {})
             f == Frame("smask", o, s, 0, "", <<>>)
  <2>1. /\ states' = Append(WithTop(s), child)
        /\ frames' = Append(Advanced, f)
        /\ Due({"gs"}) /\ o \in DOMAIN doc.objects /\ Dispatched
        /\ UNCHANGED <<doc, annot, cancelled, open, result>>
    BY <1>18 DEF BeginSoftMask
  <2>2. StateOK(doc, s)
    BY <1>16
  <2> HIDE DEF s, o
  <2>3. StateOK(doc, child)
    BY <1>1, <2>1, <2>2, ChildStates
  <2>4. FrameOK(doc, f) /\ f.kind = "smask" /\ f.pc = 1
    <3>1. \A nth, operator, outer :
             LET new == Frame("smask", o, s, nth, operator, outer)
             IN FrameOK(doc, new) /\ new.kind = "smask" /\ new.pc = 1
      <4>1. o \in DOMAIN doc.objects /\ doc \in Documents /\ StateOK(doc, s)
        BY <1>1, <2>1, <2>2
      <4> HIDE DEF f, child
      <4> QED
        BY <4>1, FramesOK
    <3> QED
      BY <3>1
  <2> HIDE DEF f, child
  <2>5. frames # <<>>
    BY <2>1 DEF Due
  <2>6. Shape(doc, states', frames')
    BY <2>1, <2>2, <2>3, <2>4, <2>5, BeginsBothShape
  <2> QED
    BY <2>1, <2>4, <2>6, BeginsEffect
<1>19. CASE SkipName
  BY <1>1, <1>19, BecomesEffect DEF SkipName
<1>20. CASE DoBrokenForm
  <2> DEFINE o == St.res[Arg]
  <2>1. o \in DOMAIN doc.objects
    BY <1>20, NamedObject DEF DoBrokenForm
  <2>2. StateOK(doc, EnterForm(St, o))
    BY <1>1, <2>1, NestedStates
  <2>3. StateOK(doc, CleanupAfterForm(EnterForm(St, o), St))
    BY <1>1, <2>1, <2>2, NestedStates
  <2> QED
    BY <1>20, <2>3, BecomesEffect DEF DoBrokenForm
<1>21. CASE DoForm
  <2> DEFINE o == St.res[Arg]
             f == Frame("form", o, St, 0, "", <<>>)
  <2>1. /\ states' = WithTop(EnterForm(St, o))
        /\ frames' = Append(Advanced, f)
        /\ Due({"Do"}) /\ Dispatched
        /\ UNCHANGED <<doc, annot, cancelled, open, result>>
    BY <1>21 DEF DoForm
  <2>2. o \in DOMAIN doc.objects
    BY <1>21, NamedObject DEF DoForm
  <2> HIDE DEF o
  <2>3. StateOK(doc, EnterForm(St, o))
    BY <1>1, <2>2, NestedStates
  <2>4. FrameOK(doc, f) /\ f.kind = "form" /\ f.pc = 1
    <3>1. \A nth, operator, outer :
             LET new == Frame("form", o, St, nth, operator, outer)
             IN FrameOK(doc, new) /\ new.kind = "form" /\ new.pc = 1
      BY <1>1, <2>2, FramesOK
    <3> QED
      BY <3>1
  <2> HIDE DEF f
  <2>5. frames # <<>>
    BY <2>1 DEF Due
  <2>6. Shape(doc, states', frames')
    BY <2>1, <2>3, <2>4, <2>5, BeginsShape
  <2> QED
    BY <2>1, <2>4, <2>6, BeginsEffect
<1>22. CASE DoGroup
  <2> DEFINE o == St.res[Arg]
             child == ChildState(St, o, Backdrop(St, o), St.clip)
             f == Frame("group", o, St, 0, "", <<>>)
  <2>1. /\ states' = Append(states, child)
        /\ frames' = Append(Advanced, f)
        /\ Due({"Do"}) /\ Dispatched
        /\ UNCHANGED <<doc, annot, cancelled, open, result>>
    BY <1>22 DEF DoGroup
  <2>2. o \in DOMAIN doc.objects
    BY <1>22, NamedObject DEF DoGroup
  <2> HIDE DEF o
  <2>3. StateOK(doc, child)
    BY <1>1, <2>2, ChildStates
  <2>4. FrameOK(doc, f) /\ f.kind = "group" /\ f.pc = 1
    <3>1. \A nth, operator, outer :
             LET new == Frame("group", o, St, nth, operator, outer)
             IN FrameOK(doc, new) /\ new.kind = "group" /\ new.pc = 1
      BY <1>1, <2>2, FramesOK
    <3> QED
      BY <3>1
  <2> HIDE DEF f, child
  <2>5. Shape(doc, states, Advanced)
    BY <2>1, AdvancedShape DEF Due
  <2>6. Shape(doc, states', frames')
    BY <2>1, <2>3, <2>4, <2>5, PushBoth
  <2> QED
    BY <2>1, <2>4, <2>6, BeginsEffect
<1> QED
  BY <1>4, <1>5, <1>6, <1>7, <1>8, <1>9, <1>10, <1>11, <1>12, <1>13, <1>14, <1>15,
     <1>17, <1>18, <1>19, <1>20, <1>21, <1>22 DEF Operator

(* A poll that finds the token tripped ends the innermost stream.           *)
LEMMA StopShape ==
    ASSUME ShapeInv, StopAtPoll
    PROVE  /\ frames # <<>>
           /\ Shape(doc, states, frames')
           /\ Len(frames') = Len(frames)
           /\ \A i \in 1 .. Len(frames) : i # Len(frames) => frames'[i] = frames[i]
           /\ ~ Running(frames'[Len(frames)])
<1> DEFINE n == Len(Top.ops) + 1
<1>1. frames # <<>> /\ frames' = [frames EXCEPT ![Len(frames)].pc = n]
  BY DEF StopAtPoll
<1>2. FrameOK(doc, Top) /\ Top = frames[Len(frames)]
  BY <1>1, Tops
<1>3. Len(Top.ops) \in Nat /\ n \in Nat \ {0}
  BY <1>2, SequenceFacts DEF FrameOK
<1> HIDE DEF n
<1>4. /\ Shape(doc, states, frames')
      /\ Len(frames') = Len(frames)
      /\ frames'[Len(frames)] = [frames[Len(frames)] EXCEPT !.pc = n]
      /\ \A i \in 1 .. Len(frames) : i # Len(frames) => frames'[i] = frames[i]
  <2>1. \A pc \in Nat \ {0} :
           LET t == [frames EXCEPT ![Len(frames)].pc = pc]
           IN /\ Shape(doc, states, t)
              /\ Len(t) = Len(frames)
              /\ t[Len(frames)] = [frames[Len(frames)] EXCEPT !.pc = pc]
              /\ \A j \in 1 .. Len(frames) : j # Len(frames) => t[j] = frames[j]
    BY <1>1, SetPc DEF ShapeInv
  <2> QED
    BY <2>1, <1>1, <1>3
<1>5. frames'[Len(frames)].pc = n /\ frames'[Len(frames)].ops = Top.ops
  BY <1>2, <1>4 DEF FrameOK, FrameFields
<1>6. ~ (n <= Len(Top.ops))
  BY <1>3 DEF n
<1> QED
  BY <1>1, <1>4, <1>5, <1>6 DEF Running

(* What the steps between operators do: they stop at a poll, leave the      *)
(* innermost stream, begin one while the token is not tripped, or leave     *)
(* the call stack alone.                                                    *)
OtherEffect ==
    /\ ShapeInv'
    /\ doc' = doc
    /\ \/ StopAtPoll
       \/ /\ frames # <<>>
          /\ frames' = Front(frames)
          /\ UNCHANGED <<cancelled, late, open>>
       \/ /\ ~ cancelled
          /\ UNCHANGED <<cancelled, late>>
       \/ UNCHANGED <<frames, cancelled, late, open>>

(* A step that keeps the shape keeps ShapeInv.                              *)
LEMMA OtherShape ==
    ASSUME ShapeInv, Shape(doc, states', frames'), doc' = doc, annot' \in Nat
    PROVE  ShapeInv'
BY DEF ShapeInv

(* The ends of streams have that effect,                                    *)
LEMMA EndStep ==
    ASSUME ShapeInv, EndOfStream
    PROVE  OtherEffect
<1>1. doc \in Documents /\ annot \in Nat /\ StateOK(doc, St) /\ Shape(doc, states, frames)
  BY Tops DEF ShapeInv
<1>2. ASSUME NEW s, StateOK(doc, s)
      PROVE  StateOK(doc, Outer(s))
  BY <1>2, StepsKept, StateKept DEF Outer
<1>3. CASE StopAtPoll
  <2>1. Shape(doc, states', frames') /\ doc' = doc /\ annot' = annot
    BY <1>3, StopShape DEF StopAtPoll
  <2> QED
    BY <1>1, <1>3, <2>1, OtherShape DEF OtherEffect
<1>4. CASE EndForm
  <2> DEFINE s == Outer(CleanupAfterForm(St, Top.caller))
  <2>1. /\ frames # <<>> /\ Top.kind = "form" /\ frames' = Front(frames)
        /\ states' = WithTop(s)
        /\ UNCHANGED <<doc, annot, cancelled, late, open>>
    BY <1>4 DEF EndForm, Ended
  <2>2. StateOK(doc, Top.caller)
    BY <2>1, Tops DEF FrameOK
  <2>3. StateOK(doc, CleanupAfterForm(St, Top.caller))
    <3> DEFINE t == [Shallower(St) EXCEPT !.res = Top.caller.res, !.gs = Top.caller.gs,
                                          !.base = Top.caller.base]
    <3>1. "res" \in DOMAIN Shallower(St)
      BY <1>1 DEF StateOK, Shallower
    <3>2. "res" \in DOMAIN t /\ t.res = Top.caller.res
      BY <3>1
    <3>3. StateOK(doc, t)
      BY <2>2, <3>2 DEF StateOK
    <3> HIDE DEF t
    <3>4. StateOK(doc, PoppedMasks(Synced(t)))
      BY <3>3, StepsKept, StateKept
    <3> QED
      BY <3>4 DEF t, CleanupAfterForm
  <2>4. StateOK(doc, s)
    BY <1>2, <2>3
  <2> HIDE DEF s
  <2>5. Shape(doc, states, Front(frames))
    BY <1>1, <2>1, PopFrame DEF Top
  <2>6. Shape(doc, states', frames')
    BY <2>1, <2>4, <2>5, ReplaceState DEF WithTop
  <2> QED
    BY <1>1, <2>1, <2>6, OtherShape DEF OtherEffect
<1>5. ASSUME frames # <<>>, Top.kind \in {"group", "smask"}
      PROVE  /\ Shape(doc, Front(states), Front(frames))
             /\ StateOK(doc, Last(Front(states)))
  <2>1. Shape(doc, Front(states), Front(frames))
    BY <1>1, <1>5, PopBoth DEF Top
  <2> QED
    BY <2>1, ShapeFacts
<1>6. CASE EndGroup
  <2> DEFINE parent == Last(Front(states))
             s == Outer(Composited(parent, Top.object, St))
  <2>1. /\ frames # <<>> /\ Top.kind = "group" /\ frames' = Front(frames)
        /\ states' = Append(Front(Front(states)), s)
        /\ UNCHANGED <<doc, annot, cancelled, late, open>>
    BY <1>6 DEF EndGroup, Ended
  <2>2. Shape(doc, Front(states), Front(frames)) /\ StateOK(doc, parent)
    BY <1>5, <2>1
  <2>3. StateOK(doc, s)
    BY <1>2, <2>2, CompositedKept, StateKept
  <2> HIDE DEF s
  <2>4. Shape(doc, states', frames')
    BY <2>1, <2>2, <2>3, ReplaceState
  <2> QED
    BY <1>1, <2>1, <2>4, OtherShape DEF OtherEffect
<1>7. CASE EndSoftMask
  <2> DEFINE parent == Last(Front(states))
             s == [parent EXCEPT !.smask = <<St.marks>>]
  <2>1. /\ frames # <<>> /\ Top.kind = "smask" /\ frames' = Front(frames)
        /\ states' = Append(Front(Front(states)), s)
        /\ UNCHANGED <<doc, annot, cancelled, late, open>>
    BY <1>7 DEF EndSoftMask, Ended
  <2>2. Shape(doc, Front(states), Front(frames)) /\ StateOK(doc, parent)
    BY <1>5, <2>1
  <2> HIDE DEF parent
  <2>3. StateOK(doc, s)
    BY <2>2, FieldsKept, StateKept
  <2> HIDE DEF s
  <2>4. Shape(doc, states', frames')
    BY <2>1, <2>2, <2>3, ReplaceState
  <2> QED
    BY <1>1, <2>1, <2>4, OtherShape DEF OtherEffect
<1>8. ASSUME frames # <<>>, Top.kind = "tile"
      PROVE  /\ StateOK(doc, Top.caller)
             /\ StateOK(doc, LeaveTile(St, Top.caller))
             /\ Top.object \in DOMAIN doc.objects
             /\ DOMAIN Top = FrameFields
             /\ IsSequence(Top.ops)
             /\ Shape(doc, states, Front(frames))
  <2>1. FrameOK(doc, Top)
    BY <1>8, Tops
  <2>2. Shape(doc, states, Front(frames))
    BY <1>1, <1>8, PopFrame DEF Top
  <2>3. \A caller : StateOK(doc, caller) => StateOK(doc, LeaveTile(St, caller))
    BY <1>1, LeftTile
  <2> QED
    BY <1>8, <2>1, <2>2, <2>3 DEF FrameOK
<1>9. CASE NextTile
  <2> DEFINE s == LeaveTile(St, Top.caller)
             t == EnterTile(s, Top.object, Top.nth + 1)
             f == [Top EXCEPT !.pc = 1, !.nth = @ + 1, !.caller = s]
  <2>1. /\ frames # <<>> /\ Top.kind = "tile" /\ ~ cancelled
        /\ states' = WithTop(t)
        /\ frames' = Append(Front(frames), f)
        /\ UNCHANGED <<doc, annot, cancelled, late, open>>
    BY <1>9 DEF NextTile, Ended, MoreTiles
  <2>2. StateOK(doc, s) /\ Top.object \in DOMAIN doc.objects
    BY <1>8, <2>1
  <2> HIDE DEF s
  <2>3. StateOK(doc, t)
    <3>1. \A o \in DOMAIN doc.objects : \A nth : StateOK(doc, EnterTile(s, o, nth))
      BY <1>1, <2>2, NestedStates
    <3> QED
      BY <3>1, <2>2
  <2>4. FrameOK(doc, f) /\ f.kind = "tile"
    <3>1. /\ DOMAIN Top = FrameFields /\ IsSequence(Top.ops) /\ Top.kind = "tile"
          /\ Top.object \in DOMAIN doc.objects
      BY <1>8, <2>1
    <3>2. /\ DOMAIN f = FrameFields
          /\ f.pc = 1 /\ f.caller = s /\ f.ops = Top.ops /\ f.kind = Top.kind
          /\ f.object = Top.object
      BY <3>1 DEF FrameFields
    <3> HIDE DEF f
    <3> QED
      BY <2>2, <3>1, <3>2 DEF FrameOK
  <2> HIDE DEF t, f
  <2>5. Shape(doc, WithTop(t), Front(frames))
    BY <1>8, <2>1, <2>3, ReplaceState DEF WithTop
  <2>6. Shape(doc, states', frames')
    BY <2>1, <2>4, <2>5, PushFrame
  <2> QED
    BY <1>1, <2>1, <2>6, OtherShape DEF OtherEffect
<1>10. CASE EndTiles
  <2> DEFINE s == LeaveTile(St, Top.caller)
             t == AfterFill([s EXCEPT !.clip = Top.outer[1].clip], Top.operator)
  <2>1. /\ frames # <<>> /\ Top.kind = "tile"
        /\ states' = WithTop(t)
        /\ frames' = Front(frames)
        /\ UNCHANGED <<doc, annot, cancelled, late, open>>
    BY <1>10 DEF EndTiles, Ended
  <2>2. StateOK(doc, s)
    BY <1>8, <2>1
  <2> HIDE DEF s
  <2>3. StateOK(doc, t)
    <3>1. \A v : StateOK(doc, [s EXCEPT !.clip = v])
      BY <2>2, FieldsKept, StateKept
    <3>2. \A u, v : StateOK(doc, u) => StateOK(doc, AfterFill(u, v))
      BY StepsKept, StateKept
    <3> QED
      BY <3>1, <3>2
  <2> HIDE DEF t
  <2>4. Shape(doc, states', frames')
    BY <1>8, <2>1, <2>3, ReplaceState DEF WithTop
  <2> QED
    BY <1>1, <2>1, <2>4, OtherShape DEF OtherEffect
<1>11. CASE EndPage
  <2>1. /\ frames # <<>> /\ Top.kind = "page" /\ frames' = <<>>
        /\ annot' \in {0, 1}
        /\ UNCHANGED <<doc, states, cancelled, late, open>>
    BY <1>11 DEF EndPage, Ended
  <2>2. Len(frames) = 1
    <3>1. Len(frames) \in 1 .. Len(frames) /\ frames[Len(frames)].kind = "page"
      BY <2>1, Tops
    <3> QED
      BY <1>1, <3>1 DEF Shape
  <2>3. IsSequence(Front(frames)) /\ Len(Front(frames)) = 0
    <3>1. IsSequence(frames) /\ Len(frames) > 0 /\ Len(frames) - 1 = 0
      BY <1>1, <2>2 DEF Shape
    <3> QED
      BY <3>1, Popping
  <2>4. Front(frames) = <<>>
    BY <2>3, SequenceFacts
  <2>5. Shape(doc, states', frames')
    BY <1>1, <2>1, <2>4, PopFrame DEF Top
  <2> QED
    BY <1>1, <2>1, <2>4, <2>5, OtherShape DEF OtherEffect
<1> QED
  BY <1>3, <1>4, <1>6, <1>7, <1>9, <1>10, <1>11 DEF EndOfStream

(* ... and so have the annotations.                                         *)
LEMMA AnnotationStep ==
    ASSUME ShapeInv, Annotation
    PROVE  OtherEffect
<1>1. doc \in Documents /\ annot \in Nat /\ StateOK(doc, St) /\ Shape(doc, states, frames)
  BY Tops DEF ShapeInv
<1>2. \A s : Keeps(St, s) => StateOK(doc, s)
  BY <1>1, StateKept
<1>3. StateOK(doc, EnterAnnotation(St))
      /\ StateOK(doc, LeaveAnnotation(EnterAnnotation(St), St))
  <2>1. StateOK(doc, EnterAnnotation(St))
    BY <1>2, StepsKept
  <2> QED
    BY <2>1, StepsKept, StateKept
<1>4. CASE SkipAnnotation
  <2>1. PICK s : StateOK(doc, s) /\ states' = WithTop(s)
    BY <1>1, <1>3, <1>4 DEF SkipAnnotation
  <2>2. UNCHANGED <<doc, frames, cancelled, late, open>> /\ annot' \in Nat
    BY <1>1, <1>4 DEF SkipAnnotation
  <2>3. Shape(doc, states', frames')
    BY <1>1, <2>1, <2>2, ReplaceState DEF WithTop
  <2> QED
    BY <2>2, <2>3, OtherShape DEF OtherEffect
<1>5. CASE DrawAnnotation
  <2> DEFINE o == doc.annots[annot]
             s == EnterAnnotation(St)
             kind == doc.objects[o].kind
             f == Frame(kind, o, s, 0, "", <<St>>)
             child == ChildState(s, o, Backdrop(s, o), s.clip)
  <2>1. /\ frames = <<>> /\ annot > 0 /\ annot <= Len(doc.annots) /\ ~ cancelled
        /\ states' = IF kind = "group" THEN Append(WithTop(s), child)
                     ELSE WithTop(EnterForm(s, o))
        /\ frames' = <<f>>
        /\ annot' = annot + 1
        /\ UNCHANGED <<doc, cancelled, late, open>>
    BY <1>5 DEF DrawAnnotation, BetweenAnnotations, MoreAnnotations
  <2>2. o \in DOMAIN doc.objects /\ kind \in {"form", "group"}
    BY <1>1, <2>1, DocumentFacts
  <2>3. StateOK(doc, s)
    BY <1>3
  <2> HIDE DEF s, o, kind
  <2>4. StateOK(doc, child) /\ StateOK(doc, EnterForm(s, o))
    <3>1. \A marks, clip : StateOK(doc, ChildState(s, o, marks, clip))
      BY <1>1, <2>2, <2>3, ChildStates
    <3> QED
      BY <1>1, <2>2, <2>3, <3>1, NestedStates
  <2>5. FrameOK(doc, f) /\ f.kind = kind
    <3>1. \A k, nth, operator, outer :
             LET new == Frame(k, o, s, nth, operator, outer)
             IN FrameOK(doc, new) /\ new.kind = k
      BY <1>1, <2>2, <2>3, FramesOK
    <3> QED
      BY <3>1
  <2> HIDE DEF f, child
  <2>6. frames' = Append(frames, f)
    BY <2>1
  <2>7. Shape(doc, WithTop(s), frames)
    BY <1>1, <2>3, ReplaceState DEF WithTop
  <2>8. CASE kind = "group"
    <3>1. Shape(doc, states', frames')
      BY <2>1, <2>4, <2>5, <2>6, <2>7, <2>8, PushBoth
    <3> QED
      BY <1>1, <2>1, <3>1, OtherShape DEF OtherEffect
  <2>9. CASE kind # "group"
    <3>1. Shape(doc, WithTop(EnterForm(s, o)), frames)
      BY <1>1, <2>4, ReplaceState DEF WithTop
    <3>2. Shape(doc, states', frames')
      BY <2>1, <2>2, <2>5, <2>6, <2>9, <3>1, PushFrame
    <3> QED
      BY <1>1, <2>1, <3>2, OtherShape DEF OtherEffect
  <2> QED
    BY <2>8, <2>9
<1>6. CASE Finish
  <2>1. UNCHANGED <<doc, states, frames, annot, cancelled, late, open>>
    BY <1>6 DEF Finish
  <2> QED
    BY <1>1, <2>1, OtherShape DEF OtherEffect
<1> QED
  BY <1>4, <1>5, <1>6 DEF Annotation

(* Division with remainder.                                                 *)
LEMMA Remainders ==
    ASSUME NEW a \in Nat, NEW p \in Nat \ {0}
    PROVE  \E q \in Nat, r \in 0 .. p - 1 : a = p * q + r /\ r = a % p
<1>1. PICK q, r : q = a \div p /\ r = a % p
  OBVIOUS
<1>2. a = p * q + r
  BY <1>1, SMT
<1>3. r \in 0 .. p - 1 /\ q \in Int
  BY <1>1, SMT
<1>4. q \in Nat
  <2> SUFFICES ASSUME q < 0 PROVE FALSE
    BY <1>3
  <2>1. PICK k \in Nat : q = -1 - k
    <3>1. -1 - q \in Nat /\ q = -1 - (-1 - q)
      BY <1>3
    <3> QED
      BY <3>1
  <2>2. p * q = 0 - p - p * k /\ p * k \in Nat
    BY <2>1
  <2> QED
    BY <1>2, <1>3, <2>2
<1> QED
  BY <1>1, <1>2, <1>3, <1>4

(* The product grows with its factor.                                       *)
LEMMA Products ==
    ASSUME NEW a \in Nat, NEW b \in Nat, NEW p \in Nat, a < b
    PROVE  p * a \in Nat /\ p * b \in Nat /\ p * a + p <= p * b
<1>1. PICK k \in Nat : b = a + 1 + k
  <2>1. b - a - 1 \in Nat /\ b = a + 1 + (b - a - 1)
    OBVIOUS
  <2> QED
    BY <2>1
<1>2. p * b = p * a + p + p * k
  BY <1>1
<1>3. p * k \in Nat /\ p * a \in Nat
  OBVIOUS
<1> QED
  BY <1>2, <1>3

(* The remainder of the next number is the next remainder, or none.         *)
LEMMA NextRemainder ==
    ASSUME NEW a \in Nat, NEW p \in Nat \ {0}, (a + 1) % p # 0
    PROVE  (a + 1) % p = (a % p) + 1
<1>1. PICK q \in Nat, r \in 0 .. p - 1 : a = p * q + r /\ r = a % p
  BY Remainders
<1>2. PICK t \in Nat, u \in 0 .. p - 1 : a + 1 = p * t + u /\ u = (a + 1) % p
  BY Remainders
<1>3. u # 0
  BY <1>2
<1>4. p * q + r + 1 = p * t + u
  BY <1>1, <1>2
<1>5. CASE q < t
  <2>1. p * q \in Nat /\ p * t \in Nat /\ p * q + p <= p * t
    BY <1>1, <1>2, <1>5, Products
  <2> QED
    BY <1>1, <1>2, <1>3, <1>4, <2>1
<1>6. CASE t < q
  <2>1. p * q \in Nat /\ p * t \in Nat /\ p * t + p <= p * q
    BY <1>1, <1>2, <1>6, Products
  <2> QED
    BY <1>1, <1>2, <1>3, <1>4, <2>1
<1>7. CASE q = t
  <2>1. PICK x \in Nat : x = p * q
    BY <1>1
  <2>2. x + r + 1 = x + u /\ r \in Nat /\ u \in Nat
    <3>1. p * t = x
      BY <2>1, <1>7
    <3> QED
      BY <1>4, <2>1, <3>1
  <2>3. u = r + 1
    BY <2>2
  <2>4. r = a % p /\ u = (a + 1) % p
    BY <1>1, <1>2, Zenon
  <2>5. (a % p) + 1 = r + 1
    BY <2>4, Zenon
  <2> QED
    BY <2>3, <2>4, <2>5, Zenon
<1> QED
  BY <1>1, <1>2, <1>5, <1>6, <1>7

(* What a stream may dispatch after a poll before it reaches the next.      *)
Rest == PollInterval - 1

(* Where a stream is in its polling interval.                               *)
Phase(f) == (f.pc - 1) % PollInterval

(* What it can still dispatch without a poll.                               *)
Left(f) == IF Running(f) /\ ~ Polls(f) THEN PollInterval - Phase(f) ELSE 0

(* What the innermost of m open streams no longer can.                      *)
Spent(fs, m) == IF m = 0 THEN 0 ELSE Rest - Left(fs[m])

(* Of the streams open when the token was tripped the innermost m still     *)
(* run; each of those that have ended dispatched at most Rest operators,    *)
(* the innermost what it has spent.                                         *)
PromptInv ==
    /\ late \in Nat
    /\ open \in Nat
    /\ ~ cancelled => late = 0
    /\ cancelled =>
          \E m \in 0 .. open :
              /\ Len(frames) \in {m, m + 1}
              /\ Len(frames) = m + 1 => Left(frames[m + 1]) = 0
              /\ late <= (open - m) * Rest + Spent(frames, m)

(* A frame at phase r.                                                      *)
AtPhase(f, r) ==
    /\ r \in 0 .. PollInterval - 1
    /\ Polls(f) <=> r = 0
    /\ Left(f) = IF Running(f) /\ ~ Polls(f) THEN PollInterval - r ELSE 0

(* Its phase decides whether it polls and what it has left.                 *)
LEMMA Phases ==
    ASSUME NEW f, NEW r, r \in 0 .. PollInterval - 1, r = (f.pc - 1) % PollInterval
    PROVE  AtPhase(f, r)
<1>1. Polls(f) <=> r = 0
  BY Zenon DEF Polls
<1>2. Phase(f) = r
  BY Zenon DEF Phase
<1>3. Left(f) = IF Running(f) /\ ~ Polls(f) THEN PollInterval - r ELSE 0
  BY <1>2 DEF Left
<1> QED
  BY <1>1, <1>3 DEF AtPhase

(* No stream has more left than the rest of an interval.                    *)
LEMMA LeftBound ==
    ASSUME NEW f, f.pc \in Nat \ {0}
    PROVE  Left(f) \in 0 .. Rest
<1>1. PollInterval \in Nat \ {0} /\ f.pc - 1 \in Nat
  BY LimitsAssumption
<1>2. PICK q \in Nat, r \in 0 .. PollInterval - 1 : r = (f.pc - 1) % PollInterval
  BY <1>1, Remainders
<1>3. AtPhase(f, r)
  BY <1>2, Phases
<1> QED
  BY <1>1, <1>3 DEF AtPhase, Rest

(* Dispatching an operator uses one up.                                     *)
LEMMA LeftStep ==
    ASSUME NEW f, f.pc \in Nat \ {0}, Running(f), ~ Polls(f),
           NEW g, g.pc = f.pc + 1
    PROVE  Left(g) + 1 <= Left(f)
<1>1. PollInterval \in Nat \ {0} /\ f.pc - 1 \in Nat /\ g.pc - 1 = (f.pc - 1) + 1
      /\ (f.pc - 1) + 1 \in Nat
  BY LimitsAssumption
<1>2. PICK q \in Nat, r \in 0 .. PollInterval - 1 : r = (f.pc - 1) % PollInterval
  BY <1>1, Remainders
<1>3. AtPhase(f, r)
  BY <1>2, Phases
<1>4. PICK t \in Nat, u \in 0 .. PollInterval - 1 : u = ((f.pc - 1) + 1) % PollInterval
  BY <1>1, Remainders
<1>5. AtPhase(g, u)
  <2>1. u = (g.pc - 1) % PollInterval
    BY <1>1, <1>4, Zenon
  <2> QED
    BY <2>1, Phases
<1>6. CASE u # 0
  <2>1. ((f.pc - 1) + 1) % PollInterval # 0
    BY <1>4, <1>6, Zenon
  <2>2. ((f.pc - 1) + 1) % PollInterval = ((f.pc - 1) % PollInterval) + 1
    BY <1>1, <2>1, NextRemainder
  <2>3. u = r + 1
    BY <1>2, <1>4, <2>2, Zenon
  <2> QED
    BY <1>1, <1>3, <1>5, <2>3 DEF AtPhase
<1>7. CASE u = 0
  BY <1>1, <1>3, <1>5, <1>7 DEF AtPhase
<1> QED
  BY <1>6, <1>7

(* A stream polls before its first operator.                                *)
LEMMA LeftFresh ==
    ASSUME NEW f, f.pc = 1
    PROVE  Polls(f) /\ Left(f) = 0
<1>1. PollInterval \in Nat \ {0} /\ f.pc - 1 = 0 /\ 0 \in Nat
  BY LimitsAssumption
<1>2. PICK q \in Nat, r \in 0 .. PollInterval - 1 :
         0 = PollInterval * q + r /\ r = 0 % PollInterval
  BY <1>1, Remainders
<1>3. r = 0
  <2>1. PICK x \in Nat : x = PollInterval * q
    BY <1>1
  <2> QED
    BY <1>2, <2>1
<1>4. AtPhase(f, r)
  <2>1. r = (f.pc - 1) % PollInterval
    BY <1>1, <1>2, Zenon
  <2> QED
    BY <2>1, Phases
<1> QED
  BY <1>3, <1>4 DEF AtPhase

(* What is spent is between nothing and the rest of an interval.            *)
LEMMA SpentBound ==
    ASSUME ShapeInv, NEW m \in 0 .. Len(frames)
    PROVE  /\ Rest \in Nat
           /\ Spent(frames, m) \in 0 .. Rest
           /\ m = 0 => Spent(frames, m) = 0
<1>1. Len(frames) \in Nat /\ Rest \in Nat
  BY SequenceFacts, LimitsAssumption DEF ShapeInv, Shape, Rest
<1>2. CASE m = 0
  BY <1>1, <1>2 DEF Spent
<1>3. CASE m # 0
  <2>1. m \in 1 .. Len(frames)
    BY <1>1, <1>3
  <2>2. Left(frames[m]) \in 0 .. Rest
    BY <2>1, LeftBound DEF ShapeInv, Shape, FrameOK
  <2> QED
    BY <1>1, <1>3, <2>2 DEF Spent
<1> QED
  BY <1>2, <1>3

(* The potential bounds the operators dispatched late.                      *)
LEMMA PromptBound ==
    ASSUME ShapeInv, PromptInv
    PROVE  PromptlyCancelled
<1>1. Rest \in Nat
  BY LimitsAssumption DEF Rest
<1>2. CASE ~ cancelled
  <2>1. open * Rest \in Nat /\ late = 0
    BY <1>1, <1>2 DEF PromptInv
  <2> QED
    BY <2>1 DEF PromptlyCancelled, Rest
<1>3. CASE cancelled
  <2>1. PICK m \in 0 .. open : /\ Len(frames) \in {m, m + 1}
                               /\ late <= (open - m) * Rest + Spent(frames, m)
    BY <1>3 DEF PromptInv
  <2>2. open \in Nat /\ late \in Nat /\ Len(frames) \in Nat
    BY SequenceFacts DEF PromptInv, ShapeInv, Shape
  <2>3. Spent(frames, m) \in 0 .. Rest /\ (m = 0 => Spent(frames, m) = 0)
    BY <2>1, <2>2, SpentBound
  <2>4. CASE m = 0
    <3>1. late <= open * Rest + 0 /\ open * Rest \in Nat
      BY <1>1, <2>1, <2>2, <2>3, <2>4
    <3> QED
      BY <2>2, <3>1 DEF PromptlyCancelled, Rest
  <2>5. CASE m # 0
    <3>1. open - m \in Nat /\ open - m < open
      BY <2>2, <2>5
    <3>2. Rest * (open - m) \in Nat /\ Rest * open \in Nat
          /\ Rest * (open - m) + Rest <= Rest * open
      BY <1>1, <2>2, <3>1, Products
    <3>3. (open - m) * Rest = Rest * (open - m) /\ open * Rest = Rest * open
      BY <1>1, <2>2, <3>1
    <3>4. late <= open * Rest
      BY <1>1, <2>1, <2>2, <2>3, <3>2, <3>3
    <3> QED
      BY <3>4 DEF PromptlyCancelled, Rest
  <2> QED
    BY <2>4, <2>5
<1> QED
  BY <1>2, <1>3

(* A late operator is one of the innermost stream open, and is paid for by  *)
(* what that stream had left.                                               *)
LEMMA PromptOperator ==
    ASSUME ShapeInv, PromptInv, OperatorEffect
    PROVE  PromptInv'
<1> DEFINE n == Len(frames)
<1>1. /\ frames # <<>> /\ Running(Top) /\ ~ (cancelled /\ Polls(Top))
      /\ late' = (IF cancelled THEN late + 1 ELSE late)
      /\ cancelled' = cancelled /\ open' = open
  BY DEF OperatorEffect, Dispatched
<1>2. late \in Nat /\ open \in Nat
  BY DEF PromptInv
<1>3. CASE ~ cancelled
  BY <1>1, <1>2, <1>3 DEF PromptInv
<1>4. CASE cancelled
  <2>1. /\ n \in Nat \ {0} /\ Top = frames[n] /\ Top.pc \in Nat \ {0}
        /\ DOMAIN Top = FrameFields
    BY <1>1, Tops DEF FrameOK
  <2>2. PICK m \in 0 .. open :
          /\ n \in {m, m + 1}
          /\ n = m + 1 => Left(frames[m + 1]) = 0
          /\ late <= (open - m) * Rest + Spent(frames, m)
    BY <1>4 DEF PromptInv
  <2> DEFINE g == [Top EXCEPT !.pc = Top.pc + 1]
  <2>3. /\ Len(Advanced) = n /\ Advanced[n] = g
        /\ IsSequence(Advanced)
    BY <1>1, AdvancedShape DEF Shape
  <2>4. g.pc = Top.pc + 1 /\ g.pc \in Nat \ {0}
    BY <2>1 DEF FrameFields
  <2> HIDE DEF g, n
  <2>5. Left(g) + 1 <= Left(Top) /\ Left(g) \in 0 .. Rest /\ Left(Top) \in 0 .. Rest
        /\ Rest \in Nat
    BY <1>1, <1>4, <2>1, <2>4, LeftStep, LeftBound, LimitsAssumption DEF Rest
  <2>6. n = m
    BY <2>1, <2>2, <2>5
  <2>7. /\ Len(frames') \in {m, m + 1}
        /\ Len(frames') = m + 1 => Left(frames'[m + 1]) = 0
        /\ frames'[m] = g
    <3>1. CASE frames' = Advanced
      BY <2>1, <2>3, <2>6, <3>1
    <3>2. CASE \E f : frames' = Append(Advanced, f) /\ f.pc = 1
      <4>1. PICK f : frames' = Append(Advanced, f) /\ f.pc = 1
        BY <3>2
      <4>2. Left(f) = 0
        BY <4>1, LeftFresh
      <4>3. Len(frames') = n + 1 /\ frames'[n + 1] = f /\ frames'[n] = Advanced[n]
        BY <2>1, <2>3, <4>1, Pushing
      <4> QED
        BY <2>3, <2>6, <4>2, <4>3
    <3> QED
      BY <3>1, <3>2 DEF OperatorEffect
  <2>8. Spent(frames, m) + 1 <= Spent(frames', m)
        /\ Spent(frames, m) \in Int /\ Spent(frames', m) \in Int
    BY <2>1, <2>5, <2>6, <2>7 DEF Spent
  <2>9. late + 1 <= (open - m) * Rest + Spent(frames', m)
    <3>1. PICK p \in Int : p = (open - m) * Rest
      BY <1>2, <2>5
    <3> QED
      BY <1>2, <2>2, <2>8, <3>1
  <2>10. late' = late + 1 /\ late' \in Nat
    BY <1>1, <1>2, <1>4
  <2> QED
    BY <1>1, <1>2, <1>4, <2>7, <2>9, <2>10 DEF PromptInv
<1> QED
  BY <1>3, <1>4

(* Stopping at a poll dispatches nothing.                                   *)
LEMMA PromptStop ==
    ASSUME ShapeInv, PromptInv, StopAtPoll
    PROVE  PromptInv'
<1> DEFINE n == Len(frames)
<1>1. /\ frames # <<>> /\ Len(frames') = n
      /\ \A i \in 1 .. n : i # n => frames'[i] = frames[i]
      /\ ~ Running(frames'[n])
  BY StopShape
<1>2. cancelled /\ Polls(Top) /\ UNCHANGED <<cancelled, late, open>>
  BY DEF StopAtPoll
<1>3. n \in Nat \ {0} /\ Top = frames[n] /\ Rest \in Nat
  BY <1>1, Tops, LimitsAssumption DEF Rest
<1>4. Left(Top) = 0 /\ Left(frames'[n]) = 0
  BY <1>1, <1>2 DEF Left
<1>5. PICK m \in 0 .. open :
        /\ n \in {m, m + 1}
        /\ n = m + 1 => Left(frames[m + 1]) = 0
        /\ late <= (open - m) * Rest + Spent(frames, m)
  BY <1>2 DEF PromptInv
<1>6. Spent(frames', m) = Spent(frames, m)
  <2>1. CASE m = 0
    BY <2>1 DEF Spent
  <2>2. CASE m # 0
    <3>1. m \in 1 .. n
      BY <1>3, <1>5, <2>2
    <3>2. Left(frames'[m]) = Left(frames[m])
      BY <1>1, <1>3, <1>4, <3>1
    <3> QED
      BY <2>2, <3>2 DEF Spent
  <2> QED
    BY <2>1, <2>2
<1>7. Len(frames') = m + 1 => Left(frames'[m + 1]) = 0
  BY <1>1, <1>4
<1> QED
  BY <1>1, <1>2, <1>5, <1>6, <1>7 DEF PromptInv

(* The stream below the one that ends still has its own rest.               *)
LEMMA PromptPop ==
    ASSUME ShapeInv, PromptInv, frames # <<>>, frames' = Front(frames),
           UNCHANGED <<cancelled, late, open>>
    PROVE  PromptInv'
<1> DEFINE n == Len(frames)
<1>1. n \in Nat \ {0} /\ Rest \in Nat
  BY Tops, LimitsAssumption DEF Rest
<1>2. Len(frames') = n - 1 /\ \A i \in 1 .. n - 1 : frames'[i] = frames[i]
  BY <1>1, Popping DEF ShapeInv, Shape
<1>3. CASE ~ cancelled
  BY <1>3 DEF PromptInv
<1>4. CASE cancelled
  <2>1. PICK m \in 0 .. open :
          /\ n \in {m, m + 1}
          /\ late <= (open - m) * Rest + Spent(frames, m)
    BY <1>4 DEF PromptInv
  <2>2. open \in Nat /\ late \in Nat
    BY DEF PromptInv
  <2>3. CASE n = m + 1
    <3>1. Len(frames') = m /\ m # m + 1
      BY <1>2, <2>2, <2>3
    <3>2. Spent(frames', m) = Spent(frames, m)
      <4>1. CASE m = 0
        BY <4>1 DEF Spent
      <4>2. CASE m # 0
        <5>1. m \in 1 .. n - 1
          BY <2>2, <2>3, <4>2
        <5> QED
          BY <1>2, <4>2, <5>1 DEF Spent
      <4> QED
        BY <4>1, <4>2
    <3> QED
      BY <1>4, <2>1, <2>2, <3>1, <3>2 DEF PromptInv
  <2>4. CASE n = m
    <3> DEFINE k == m - 1
    <3>1. k \in 0 .. open /\ k \in 0 .. n /\ m = k + 1 /\ Len(frames') = k /\ k # k + 1
          /\ m \in 0 .. n
      BY <1>1, <1>2, <2>2, <2>4
    <3>2. Spent(frames', k) = Spent(frames, k)
      <4>1. CASE k = 0
        BY <4>1 DEF Spent
      <4>2. CASE k # 0
        <5>1. k \in 1 .. n - 1
          BY <1>1, <2>4, <3>1, <4>2
        <5> QED
          BY <1>2, <4>2, <5>1 DEF Spent
      <4> QED
        BY <4>1, <4>2
    <3>3. Spent(frames, m) <= Rest /\ Spent(frames, m) \in Nat /\ Spent(frames, k) \in Nat
      BY <1>1, <3>1, SpentBound
    <3>4. (open - k) * Rest = (open - m) * Rest + Rest /\ (open - m) * Rest \in Int
      <4>1. PICK j \in Nat : open = m + j
        <5>1. open - m \in Nat /\ open = m + (open - m)
          BY <2>2
        <5> QED
          BY <5>1
      <4>2. open - m = j /\ open - k = j + 1
        BY <2>2, <3>1, <4>1
      <4>3. (j + 1) * Rest = j * Rest + Rest /\ j * Rest \in Int
        BY <1>1
      <4> QED
        BY <4>2, <4>3
    <3>5. late <= (open - k) * Rest + Spent(frames', k)
      <4>1. PICK p \in Int : p = (open - m) * Rest
        BY <3>4
      <4> QED
        BY <1>1, <2>1, <2>2, <3>2, <3>3, <3>4, <4>1
    <3> QED
      BY <1>4, <2>2, <3>1, <3>5 DEF PromptInv
  <2> QED
    BY <2>1, <2>3, <2>4
<1> QED
  BY <1>3, <1>4

(* When the token is tripped nothing is late yet.                           *)
LEMMA PromptCancel ==
    ASSUME ShapeInv, PromptInv, Cancel
    PROVE  PromptInv'
<1> DEFINE n == Len(frames)
<1>1. /\ ~ cancelled /\ cancelled' = TRUE /\ open' = n
      /\ frames' = frames /\ late' = late
  BY DEF Cancel
<1>2. n \in Nat /\ late = 0
  BY <1>1, SequenceFacts DEF PromptInv, ShapeInv, Shape
<1>3. n \in 0 .. n /\ Spent(frames, n) \in Nat /\ Rest \in Nat
  BY <1>2, SpentBound
<1>4. (n - n) * Rest = 0
  BY <1>2, <1>3
<1>5. late' <= (open' - n) * Rest + Spent(frames', n)
  BY <1>1, <1>2, <1>3, <1>4
<1>6. Len(frames') = n /\ n # n + 1
  BY <1>1, <1>2
<1> QED
  BY <1>1, <1>2, <1>3, <1>5, <1>6 DEF PromptInv

(* The other steps dispatch nothing.                                        *)
LEMMA PromptOther ==
    ASSUME ShapeInv, PromptInv, OtherEffect, open' \in Nat
    PROVE  PromptInv'
<1>1. CASE StopAtPoll
  BY <1>1, PromptStop
<1>2. CASE frames # <<>> /\ frames' = Front(frames) /\ UNCHANGED <<cancelled, late, open>>
  BY <1>2, PromptPop
<1>3. CASE ~ cancelled /\ UNCHANGED <<cancelled, late>>
  BY <1>3 DEF PromptInv
<1>4. CASE UNCHANGED <<frames, cancelled, late, open>>
  BY <1>4 DEF PromptInv
<1> QED
  BY <1>1, <1>2, <1>3, <1>4 DEF OtherEffect

(* The inductive invariant.                                                 *)
IInv == ShapeInv /\ PromptInv

(* No token is tripped at the start.                                        *)
LEMMA PromptInit == Init => PromptInv
<1>1. Init => cancelled = FALSE /\ late = 0 /\ open = 0
  BY DEF Init
<1> QED
  BY <1>1 DEF PromptInv

(* Every step keeps the inductive invariant.                                *)
LEMMA PromptStep == IInv /\ [Next]_vars => IInv'
<1> SUFFICES ASSUME ShapeInv, PromptInv, [Next]_vars PROVE ShapeInv' /\ PromptInv'
  BY DEF IInv
<1>1. CASE Operator
  <2>1. OperatorEffect
    BY <1>1, OperatorStep
  <2>2. Shape(doc, states', frames') /\ doc' = doc /\ annot' = annot
    BY <2>1 DEF OperatorEffect
  <2> QED
    BY <2>1, <2>2, PromptOperator, OtherShape DEF ShapeInv
<1>2. CASE EndOfStream \/ Annotation
  <2>1. OtherEffect
    BY <1>2, EndStep, AnnotationStep
  <2>2. open' = open
    BY <1>2 DEF EndOfStream, Annotation, StopAtPoll, EndForm, EndGroup, EndSoftMask,
       NextTile, EndTiles, EndPage, SkipAnnotation, DrawAnnotation, Finish
  <2> QED
    BY <2>1, <2>2, PromptOther DEF OtherEffect, PromptInv
<1>3. CASE Cancel
  <2>1. UNCHANGED <<doc, states, frames, annot>>
    BY <1>3 DEF Cancel
  <2> QED
    BY <1>3, <2>1, PromptCancel DEF ShapeInv
<1>4. CASE UNCHANGED vars
  BY <1>4 DEF vars, ShapeInv, PromptInv
<1> QED
  BY <1>1, <1>2, <1>3, <1>4 DEF Next, Work, Returned

(* Once the token is tripped each stream that was running dispatches at     *)
(* most the rest of one polling interval, and no stream begun after it      *)
(* anything: dispatch_all polls before its first operator and before every  *)
(* PollInterval-th.                                                         *)
THEOREM CancelledPromptly == Spec => []PromptlyCancelled
<1>1. Init => IInv
  BY ShapeInit, PromptInit DEF IInv
<1>2. IInv => PromptlyCancelled
  BY PromptBound DEF IInv
<1> QED
  BY <1>1, <1>2, PromptStep, PTL DEF Spec

-----------------------------------------------------------------------------
(* How often an operator has occurred, one operator later.                  *)
LEMMA TimesStep ==
    ASSUME NEW ops, NEW name, NEW n \in Nat
    PROVE  /\ Times(ops, name, n) \in Nat
           /\ Times(ops, name, n + 1) =
                 Times(ops, name, n) + IF ops[n + 1].op = name THEN 1 ELSE 0
<1> DEFINE set(k) == {i \in 1 .. k : ops[i].op = name}
<1>1. IsFiniteSet(set(n))
  <2>1. IsFiniteSet(1 .. n)
    BY FS_Interval
  <2> QED
    BY <2>1, FS_Subset
<1>2. Cardinality(set(n)) \in Nat
  BY <1>1, FS_CardinalityType
<1>3. CASE ops[n + 1].op = name
  <2>1. set(n + 1) = set(n) \cup {n + 1} /\ n + 1 \notin set(n)
    BY <1>3
  <2> QED
    BY <1>1, <1>2, <1>3, <2>1, FS_AddElement DEF Times
<1>4. CASE ops[n + 1].op # name
  <2>1. set(n + 1) = set(n)
    <3>1. \A i \in 1 .. n + 1 : i \in 1 .. n \/ i = n + 1
      OBVIOUS
    <3>2. \A i \in 1 .. n : i \in 1 .. n + 1
      OBVIOUS
    <3> QED
      BY <3>1, <3>2, <1>4
  <2> QED
    BY <1>2, <1>4, <2>1 DEF Times
<1> QED
  BY <1>3, <1>4

(* q opens a level, Q closes one, the other operators do neither.           *)
LEMMA LevelStep ==
    ASSUME NEW ops, NEW n \in Nat
    PROVE  /\ Level(ops, n) \in Int
           /\ ops[n + 1].op = "q" => Level(ops, n + 1) = Level(ops, n) + 1
           /\ ops[n + 1].op = "Q" => Level(ops, n + 1) = Level(ops, n) - 1
           /\ ops[n + 1].op \notin {"q", "Q"} => Level(ops, n + 1) = Level(ops, n)
<1>1. \A name : /\ Times(ops, name, n) \in Nat
                /\ Times(ops, name, n + 1) =
                      Times(ops, name, n) + IF ops[n + 1].op = name THEN 1 ELSE 0
  BY TimesStep
<1>2. "q" # "Q"
  OBVIOUS
<1> QED
  BY <1>1, <1>2 DEF Level

(* A stream starts at level 0.                                              *)
LEMMA LevelStart ==
    ASSUME NEW ops
    PROVE  Level(ops, 0) = 0
<1>1. \A name : {i \in 1 .. 0 : ops[i].op = name} = {}
  OBVIOUS
<1>2. \A name : Times(ops, name, 0) = 0
  BY <1>1, FS_EmptySet DEF Times
<1> QED
  BY <1>2 DEF Level

(* In a well-nested stream no level is negative and the end is at level 0.  *)
LEMMA LevelFacts ==
    ASSUME NEW ops, IsSequence(ops), Balanced(ops), NEW n \in 0 .. Len(ops)
    PROVE  /\ Level(ops, n) \in Nat
           /\ Level(ops, Len(ops)) = 0
<1>1. Len(ops) \in Nat /\ n \in Nat
  BY SequenceFacts
<1>2. Level(ops, n) \in Int
  BY <1>1, LevelStep
<1> QED
  BY <1>1, <1>2 DEF Balanced

(* Two stacks with the same entries are the same.                           *)
LEMMA SameStack ==
    ASSUME NEW s, IsSequence(s), NEW t, IsSequence(t), Len(s) = Len(t),
           \A i \in 1 .. Len(s) : s[i] = t[i]
    PROVE  s = t
<1>1. PICK S : s \in Seq(S)
  BY DEF IsSequence
<1>2. PICK T : t \in Seq(T)
  BY DEF IsSequence
<1>3. PICK n \in Nat : s \in [1 .. n -> S] /\ Len(s) = n
  BY <1>1
<1>4. PICK m \in Nat : t \in [1 .. m -> T] /\ Len(t) = m
  BY <1>2
<1>5. n = m
  BY <1>3, <1>4
<1>6. s = [i \in 1 .. n |-> s[i]] /\ t = [i \in 1 .. n |-> t[i]]
  BY <1>3, <1>4, <1>5
<1>7. \A i \in 1 .. n : s[i] = t[i]
  BY <1>3
<1> QED
  BY <1>6, <1>7

-----------------------------------------------------------------------------
(* level[i] RenderStates belong to the first i frames and the page; no      *)
(* frame is counted below one that was begun before it.                     *)
Levels(fs, n, level) ==
    /\ level \in [0 .. Len(fs) -> Nat \ {0}]
    /\ level[0] = 1
    /\ level[Len(fs)] = n
    /\ \A i \in 1 .. Len(fs) : level[i] = level[i - 1] + Own(fs[i])
    /\ \A i, j \in 0 .. Len(fs) : i <= j => level[i] <= level[j]

(* While a group or a soft mask is drawn, the RenderState below its own is  *)
(* its caller's, untouched.                                                 *)
Parents(ss, fs) ==
    \E level :
        /\ Levels(fs, Len(ss), level)
        /\ \A i \in 1 .. Len(fs) : Own(fs[i]) = 1 => ss[level[i - 1]] = fs[i].caller

(* A frame that draws on a RenderState of its own is not below the top      *)
(* state.                                                                   *)
LEMMA ParentsBelow ==
    ASSUME NEW ss, NEW fs, IsSequence(fs), NEW level, Levels(fs, Len(ss), level),
           NEW i \in 1 .. Len(fs), Own(fs[i]) = 1
    PROVE  /\ level[i - 1] \in Nat \ {0}
           /\ level[i - 1] <= Len(ss) - 1
           /\ Len(ss) \in Nat
<1>1. Len(fs) \in Nat
  BY SequenceFacts
<1>2. i \in 0 .. Len(fs) /\ Len(fs) \in 0 .. Len(fs) /\ i <= Len(fs) /\ i - 1 \in 0 .. Len(fs)
  BY <1>1
<1>3. level[i] <= level[Len(fs)]
  BY <1>2 DEF Levels
<1>4. level[i] = level[i - 1] + 1 /\ level[i - 1] \in Nat \ {0} /\ level[Len(fs)] \in Nat
  BY <1>2 DEF Levels
<1>5. level[Len(fs)] = Len(ss)
  BY DEF Levels
<1> QED
  BY <1>3, <1>4, <1>5

(* The innermost RenderState may change.                                    *)
LEMMA ParentsReplace ==
    ASSUME NEW ss, IsSequence(ss), Len(ss) > 0, NEW fs, IsSequence(fs), Parents(ss, fs), NEW s
    PROVE  Parents(Append(Front(ss), s), fs)
<1> DEFINE f == Front(ss)
           t == Append(f, s)
<1>1. IsSequence(f) /\ Len(f) = Len(ss) - 1 /\ Len(ss) \in Nat
      /\ \A i \in 1 .. Len(ss) - 1 : f[i] = ss[i]
  BY Popping, SequenceFacts
<1> HIDE DEF f
<1>2. Len(t) = Len(ss) /\ \A i \in 1 .. Len(ss) - 1 : t[i] = ss[i]
  BY <1>1, Pushing
<1> HIDE DEF t
<1>3. PICK level : /\ Levels(fs, Len(ss), level)
                   /\ \A i \in 1 .. Len(fs) : Own(fs[i]) = 1 => ss[level[i - 1]] = fs[i].caller
  BY DEF Parents
<1>4. ASSUME NEW i \in 1 .. Len(fs), Own(fs[i]) = 1
      PROVE  t[level[i - 1]] = fs[i].caller
  <2>1. level[i - 1] \in 1 .. Len(ss) - 1
    BY <1>1, <1>3, <1>4, ParentsBelow
  <2> QED
    BY <1>2, <1>3, <1>4, <2>1
<1>5. Parents(t, fs)
  BY <1>2, <1>3, <1>4 DEF Parents
<1> QED
  BY <1>5 DEF t, f

(* So may what a frame is about, but for its kind and, with a RenderState   *)
(* of its own, its caller.                                                  *)
LEMMA ParentsKept ==
    ASSUME NEW ss, NEW fs, NEW gs, Parents(ss, fs), Len(gs) = Len(fs),
           \A i \in 1 .. Len(fs) : /\ gs[i].kind = fs[i].kind
                                   /\ Own(fs[i]) = 1 => gs[i].caller = fs[i].caller
    PROVE  Parents(ss, gs)
<1>1. PICK level : /\ Levels(fs, Len(ss), level)
                   /\ \A i \in 1 .. Len(fs) : Own(fs[i]) = 1 => ss[level[i - 1]] = fs[i].caller
  BY DEF Parents
<1>2. \A i \in 1 .. Len(fs) : Own(gs[i]) = Own(fs[i])
  BY DEF Own
<1>3. Levels(gs, Len(ss), level)
  BY <1>1, <1>2 DEF Levels
<1>4. \A i \in 1 .. Len(gs) : Own(gs[i]) = 1 => ss[level[i - 1]] = gs[i].caller
  BY <1>1, <1>2
<1> QED
  BY <1>3, <1>4 DEF Parents

(* One frame more.                                                          *)
LEMMA LevelsPush ==
    ASSUME NEW fs, IsSequence(fs), NEW n, NEW level, Levels(fs, n, level), NEW f
    PROVE  \E new : /\ Levels(Append(fs, f), n + Own(f), new)
                    /\ \A i \in 0 .. Len(fs) : new[i] = level[i]
<1>1. PICK k \in Nat : Len(fs) = k
  BY SequenceFacts
<1>2. /\ Len(Append(fs, f)) = k + 1
      /\ \A i \in 1 .. k : Append(fs, f)[i] = fs[i]
      /\ Append(fs, f)[k + 1] = f
  BY <1>1, Pushing
<1>3. Own(f) \in {0, 1}
  BY DEF Own
<1>4. /\ level \in [0 .. k -> Nat \ {0}] /\ level[0] = 1 /\ level[k] = n
      /\ \A i \in 1 .. k : level[i] = level[i - 1] + Own(fs[i])
      /\ \A i, j \in 0 .. k : i <= j => level[i] <= level[j]
  BY <1>1 DEF Levels
<1>5. n \in Nat \ {0}
  BY <1>4
<1> DEFINE new == [i \in 0 .. k + 1 |-> IF i = k + 1 THEN n + Own(f) ELSE level[i]]
<1>6. \A i \in 0 .. k : new[i] = level[i] /\ level[i] \in Nat \ {0}
  BY <1>4
<1>7. new[k + 1] = n + Own(f) /\ n + Own(f) \in Nat \ {0} /\ n <= n + Own(f)
  BY <1>3, <1>5
<1>8. DOMAIN new = 0 .. k + 1 /\ new = [i \in 0 .. k + 1 |-> new[i]]
  OBVIOUS
<1> HIDE DEF new
<1>9. \A i \in 0 .. k + 1 : i \in 0 .. k \/ i = k + 1
  OBVIOUS
<1>10. new \in [0 .. k + 1 -> Nat \ {0}]
  <2>1. \A i \in 0 .. k + 1 : new[i] \in Nat \ {0}
    BY <1>6, <1>7, <1>9
  <2> QED
    BY <1>8, <2>1
<1>11. ASSUME NEW i \in 1 .. k + 1
       PROVE  new[i] = new[i - 1] + Own(Append(fs, f)[i])
  <2>1. CASE i = k + 1
    <3>1. k \in 0 .. k /\ i - 1 = k
      BY <2>1
    <3> QED
      BY <2>1, <3>1, <1>2, <1>4, <1>6, <1>7
  <2>2. CASE i # k + 1
    <3>1. i \in 1 .. k /\ i - 1 \in 0 .. k /\ i \in 0 .. k
      BY <2>2
    <3> QED
      BY <3>1, <1>2, <1>4, <1>6
  <2> QED
    BY <2>1, <2>2
<1>12. ASSUME NEW i \in 0 .. k + 1, NEW j \in 0 .. k + 1, i <= j
       PROVE  new[i] <= new[j]
  <2>1. CASE j = k + 1 /\ i = k + 1
    BY <2>1, <1>7
  <2>2. CASE j = k + 1 /\ i # k + 1
    <3>1. i \in 0 .. k /\ k \in 0 .. k /\ i <= k
      BY <2>2
    <3>2. level[i] <= n
      BY <3>1, <1>4
    <3> QED
      BY <2>2, <3>1, <3>2, <1>3, <1>5, <1>6, <1>7
  <2>3. CASE j # k + 1
    <3>1. i \in 0 .. k /\ j \in 0 .. k
      BY <2>3, <1>12
    <3> QED
      BY <3>1, <1>4, <1>6, <1>12
  <2> QED
    BY <2>1, <2>2, <2>3
<1>13. new[0] = 1
  BY <1>4, <1>6
<1>14. Levels(Append(fs, f), n + Own(f), new)
  BY <1>2, <1>7, <1>10, <1>11, <1>12, <1>13 DEF Levels
<1> QED
  BY <1>1, <1>6, <1>14

(* A stream begun on the RenderState of its caller.                         *)
LEMMA ParentsPush ==
    ASSUME NEW ss, NEW fs, IsSequence(fs), Parents(ss, fs), NEW f, Own(f) = 0
    PROVE  Parents(ss, Append(fs, f))
<1>1. PICK level : /\ Levels(fs, Len(ss), level)
                   /\ \A i \in 1 .. Len(fs) : Own(fs[i]) = 1 => ss[level[i - 1]] = fs[i].caller
  BY DEF Parents
<1>2. Len(ss) + Own(f) = Len(ss)
  <2>1. Len(fs) \in Nat /\ Len(fs) \in 0 .. Len(fs)
    BY SequenceFacts
  <2> QED
    BY <1>1, <2>1 DEF Levels
<1>3. PICK new : /\ Levels(Append(fs, f), Len(ss), new)
                 /\ \A i \in 0 .. Len(fs) : new[i] = level[i]
  BY <1>1, <1>2, LevelsPush
<1>4. ASSUME NEW i \in 1 .. Len(Append(fs, f)), Own(Append(fs, f)[i]) = 1
      PROVE  ss[new[i - 1]] = Append(fs, f)[i].caller
  <2>1. Len(fs) \in Nat /\ Len(Append(fs, f)) = Len(fs) + 1 /\ Append(fs, f)[Len(fs) + 1] = f
        /\ \A m \in 1 .. Len(fs) : Append(fs, f)[m] = fs[m]
    BY SequenceFacts, Pushing
  <2>2. i \in 1 .. Len(fs) /\ i - 1 \in 0 .. Len(fs)
    BY <1>4, <2>1
  <2> QED
    BY <1>1, <1>3, <1>4, <2>1, <2>2
<1> QED
  BY <1>3, <1>4 DEF Parents

(* A stream begun on a RenderState of its own.                              *)
LEMMA ParentsPushOwn ==
    ASSUME NEW ss, IsSequence(ss), Len(ss) > 0, NEW fs, IsSequence(fs), Parents(ss, fs),
           NEW f, Own(f) = 1, f.caller = Last(ss), NEW s
    PROVE  Parents(Append(ss, s), Append(fs, f))
<1> DEFINE t == Append(ss, s)
           gs == Append(fs, f)
<1>1. PICK level : /\ Levels(fs, Len(ss), level)
                   /\ \A i \in 1 .. Len(fs) : Own(fs[i]) = 1 => ss[level[i - 1]] = fs[i].caller
  BY DEF Parents
<1>2. Len(ss) \in Nat /\ Len(t) = Len(ss) + 1 /\ Last(ss) = ss[Len(ss)]
      /\ \A m \in 1 .. Len(ss) : t[m] = ss[m]
  BY SequenceFacts, Pushing, Popping
<1>3. Len(fs) \in Nat /\ Len(gs) = Len(fs) + 1 /\ gs[Len(fs) + 1] = f
      /\ \A m \in 1 .. Len(fs) : gs[m] = fs[m]
  BY SequenceFacts, Pushing
<1>4. PICK new : /\ Levels(gs, Len(t), new)
                 /\ \A i \in 0 .. Len(fs) : new[i] = level[i]
  <2>1. \E new : /\ Levels(gs, Len(ss) + Own(f), new)
                 /\ \A i \in 0 .. Len(fs) : new[i] = level[i]
    BY <1>1, LevelsPush
  <2> QED
    BY <1>2, <2>1
<1> HIDE DEF t, gs
<1>5. ASSUME NEW i \in 1 .. Len(gs), Own(gs[i]) = 1
      PROVE  t[new[i - 1]] = gs[i].caller
  <2>1. CASE i = Len(fs) + 1
    <3>1. Len(fs) \in 0 .. Len(fs) /\ i - 1 = Len(fs) /\ level[Len(fs)] = Len(ss)
      BY <2>1, <1>1, <1>3 DEF Levels
    <3>2. new[i - 1] = Len(ss) /\ Len(ss) \in 1 .. Len(ss)
      BY <3>1, <1>2, <1>4
    <3> QED
      BY <2>1, <3>2, <1>2, <1>3
  <2>2. CASE i # Len(fs) + 1
    <3>1. i \in 1 .. Len(fs) /\ i - 1 \in 0 .. Len(fs)
      BY <2>2, <1>3
    <3>2. gs[i] = fs[i] /\ new[i - 1] = level[i - 1]
      BY <3>1, <1>3, <1>4
    <3>3. level[i - 1] \in 1 .. Len(ss)
      BY <3>1, <3>2, <1>1, <1>2, <1>5, ParentsBelow
    <3> QED
      BY <3>1, <3>2, <3>3, <1>1, <1>2, <1>5
  <2> QED
    BY <2>1, <2>2
<1>6. Parents(t, gs)
  BY <1>4, <1>5 DEF Parents
<1> QED
  BY <1>6 DEF t, gs

(* The innermost frame ends, with its RenderState if it has one: what is    *)
(* then innermost is its caller's.                                          *)
LEMMA ParentsPop ==
    ASSUME NEW ss, IsSequence(ss), NEW fs, IsSequence(fs), Len(fs) > 0, Parents(ss, fs),
           NEW t, IsSequence(t), Len(t) = Len(ss) - Own(Last(fs)),
           \A i \in 1 .. Len(t) : t[i] = ss[i]
    PROVE  /\ Parents(t, Front(fs))
           /\ Own(Last(fs)) = 1 => Len(t) > 0 /\ Last(t) = Last(fs).caller
<1> DEFINE gs == Front(fs)
<1>1. PICK k \in Nat : Len(fs) = k + 1
  <2>1. Len(fs) - 1 \in Nat /\ Len(fs) = (Len(fs) - 1) + 1
    BY SequenceFacts
  <2> QED
    BY <2>1
<1>2. Len(gs) = k /\ Last(fs) = fs[k + 1] /\ \A i \in 1 .. k : gs[i] = fs[i]
  BY <1>1, Popping
<1> HIDE DEF gs
<1>3. PICK level : /\ Levels(fs, Len(ss), level)
                   /\ \A i \in 1 .. Len(fs) : Own(fs[i]) = 1 => ss[level[i - 1]] = fs[i].caller
  BY DEF Parents
<1>4. /\ level \in [0 .. k + 1 -> Nat \ {0}] /\ level[0] = 1 /\ level[k + 1] = Len(ss)
      /\ \A i \in 1 .. k + 1 : level[i] = level[i - 1] + Own(fs[i])
      /\ \A i, j \in 0 .. k + 1 : i <= j => level[i] <= level[j]
  BY <1>1, <1>3 DEF Levels
<1>5. Own(Last(fs)) \in {0, 1}
  BY DEF Own
<1>6. level[k] = Len(t) /\ level[k] \in Nat \ {0}
  <2>1. k + 1 \in 1 .. k + 1 /\ k \in 0 .. k + 1 /\ (k + 1) - 1 = k
    OBVIOUS
  <2>2. level[k + 1] = level[k] + Own(fs[k + 1]) /\ level[k] \in Nat \ {0}
    BY <1>4, <2>1
  <2> QED
    BY <1>2, <1>4, <1>5, <2>2
<1> DEFINE new == [i \in 0 .. k |-> level[i]]
<1>7. \A i \in 0 .. k : new[i] = level[i] /\ i \in 0 .. k + 1
  OBVIOUS
<1>8. new \in [0 .. k -> Nat \ {0}]
  BY <1>4
<1> HIDE DEF new
<1>9. Levels(gs, Len(t), new)
  <2>1. new[0] = 1 /\ new[k] = Len(t)
    BY <1>4, <1>6, <1>7
  <2>2. \A i, j \in 0 .. k : i <= j => new[i] <= new[j]
    BY <1>4, <1>7
  <2>3. ASSUME NEW i \in 1 .. k PROVE new[i] = new[i - 1] + Own(gs[i])
    <3>1. i \in 0 .. k /\ i - 1 \in 0 .. k /\ i \in 1 .. k + 1
      OBVIOUS
    <3> QED
      BY <3>1, <1>2, <1>4, <1>7
  <2> QED
    BY <1>2, <1>8, <2>1, <2>2, <2>3 DEF Levels
<1>10. ASSUME NEW i \in 1 .. Len(gs), Own(gs[i]) = 1
       PROVE  t[new[i - 1]] = gs[i].caller
  <2>1. i \in 1 .. k /\ i \in 1 .. Len(fs) /\ i - 1 \in 0 .. k /\ i \in 0 .. k /\ k \in 0 .. k
        /\ i <= k
    BY <1>1, <1>2
  <2>2. level[i - 1] \in Nat \ {0} /\ level[i] = level[i - 1] + Own(fs[i]) /\ level[i] <= level[k]
    BY <1>4, <2>1
  <2>3. level[i - 1] \in 1 .. Len(t)
    BY <1>2, <1>6, <1>10, <2>1, <2>2
  <2> QED
    BY <1>2, <1>3, <1>7, <1>10, <2>1, <2>3
<1>11. ASSUME Own(Last(fs)) = 1
       PROVE  Len(t) > 0 /\ Last(t) = Last(fs).caller
  <2>1. Len(t) > 0 /\ Last(t) = t[Len(t)] /\ Len(t) \in 1 .. Len(t)
    BY <1>6, Popping
  <2>2. k + 1 \in 1 .. Len(fs) /\ (k + 1) - 1 = k
    BY <1>1
  <2>3. ss[level[k]] = Last(fs).caller
    BY <1>2, <1>3, <1>11, <2>2
  <2> QED
    BY <1>6, <2>1, <2>3
<1>12. Parents(t, gs)
  BY <1>9, <1>10 DEF Parents
<1> QED
  BY <1>11, <1>12 DEF gs

-----------------------------------------------------------------------------
GraphicsFields == {"ctm", "fill", "alpha", "blend", "stack"}

StateFields == {"gs", "clip", "smask", "blend", "marks", "clipStack", "smaskStack", "path",
                "pending", "depth", "res", "base"}

GraphicsOK(g) ==
    /\ DOMAIN g = GraphicsFields
    /\ IsSequence(g.stack)
    /\ \A i \in 1 .. Len(g.stack) : DOMAIN g.stack[i] = GraphicsFields

(* A RenderState between two operators: the blend mode of its buffer is     *)
(* that of its graphics state, clips and soft masks are saved together.     *)
Sound(s) ==
    /\ DOMAIN s = StateFields
    /\ GraphicsOK(s.gs)
    /\ s.blend = s.gs.blend
    /\ s.depth \in Nat
    /\ IsSequence(s.clipStack)
    /\ IsSequence(s.smaskStack)
    /\ Len(s.clipStack) = Len(s.smaskStack)

(* t saves what s saves, at the same depth.                                 *)
SameLevels(s, t) ==
    /\ t.clipStack = s.clipStack
    /\ t.smaskStack = s.smaskStack
    /\ t.depth = s.depth

(* t is sound, and s but for what a painter or a setter changes.            *)
Quiet(s, t) ==
    /\ Sound(t)
    /\ SameLevels(s, t)
    /\ t.smask = s.smask

(* t has the surroundings of s again, but perhaps for the soft mask.        *)
Restores(s, t) ==
    /\ DOMAIN t = StateFields
    /\ SameLevels(s, t)
    /\ t.gs = s.gs
    /\ t.clip = s.clip
    /\ t.blend = s.blend
    /\ t.res = s.res
    /\ t.base = s.base

(* What has the surroundings of a sound RenderState is sound.               *)
LEMMA RestoredSound ==
    ASSUME NEW s, Sound(s), NEW t, Restores(s, t)
    PROVE  Sound(t)
BY DEF Sound, Restores, SameLevels

(* The graphics state may be changed but for its stack and blend mode.      *)
LEMMA GraphicsChange ==
    ASSUME NEW g, GraphicsOK(g), NEW v
    PROVE  /\ GraphicsOK([g EXCEPT !.ctm = v])
           /\ GraphicsOK([g EXCEPT !.fill = v])
           /\ GraphicsOK([g EXCEPT !.alpha = v])
           /\ GraphicsOK([g EXCEPT !.blend = v])
           /\ [g EXCEPT !.ctm = v].blend = g.blend
           /\ [g EXCEPT !.fill = v].blend = g.blend
BY DEF GraphicsOK, GraphicsFields

(* Assigning a field that neither q nor a nested stream minds.              *)
LEMMA QuietFields ==
    ASSUME NEW s, Sound(s), NEW v
    PROVE  /\ Quiet(s, s)
           /\ Quiet(s, [s EXCEPT !.path = v])
           /\ Quiet(s, [s EXCEPT !.pending = v])
           /\ Quiet(s, [s EXCEPT !.marks = v])
           /\ Quiet(s, [s EXCEPT !.clip = v])
           /\ Quiet(s, [s EXCEPT !.gs.ctm = v])
           /\ Quiet(s, [s EXCEPT !.gs.fill = v])
<1>1. Quiet(s, s)
  BY DEF Quiet, Sound, SameLevels
<1>2. Quiet(s, [s EXCEPT !.path = v])
  BY DEF Quiet, Sound, SameLevels, StateFields
<1>3. Quiet(s, [s EXCEPT !.pending = v])
  BY DEF Quiet, Sound, SameLevels, StateFields
<1>4. Quiet(s, [s EXCEPT !.marks = v])
  BY DEF Quiet, Sound, SameLevels, StateFields
<1>5. Quiet(s, [s EXCEPT !.clip = v])
  BY DEF Quiet, Sound, SameLevels, StateFields
<1>6. ASSUME NEW g, GraphicsOK(g), g.blend = s.gs.blend
      PROVE  Quiet(s, [s EXCEPT !.gs = g])
  BY <1>6 DEF Quiet, Sound, SameLevels, StateFields
<1>7. Quiet(s, [s EXCEPT !.gs.ctm = v])
  <2>1. [s EXCEPT !.gs.ctm = v] = [s EXCEPT !.gs = [s.gs EXCEPT !.ctm = v]]
    BY DEF Sound, StateFields
  <2>2. GraphicsOK([s.gs EXCEPT !.ctm = v]) /\ [s.gs EXCEPT !.ctm = v].blend = s.gs.blend
    BY GraphicsChange DEF Sound
  <2> QED
    BY <1>6, <2>1, <2>2
<1>8. Quiet(s, [s EXCEPT !.gs.fill = v])
  <2>1. [s EXCEPT !.gs.fill = v] = [s EXCEPT !.gs = [s.gs EXCEPT !.fill = v]]
    BY DEF Sound, StateFields
  <2>2. GraphicsOK([s.gs EXCEPT !.fill = v]) /\ [s.gs EXCEPT !.fill = v].blend = s.gs.blend
    BY GraphicsChange DEF Sound
  <2> QED
    BY <1>6, <2>1, <2>2
<1> QED
  BY <1>1, <1>2, <1>3, <1>4, <1>5, <1>7, <1>8

(* Two quiet steps are quiet.                                               *)
LEMMA QuietTwice ==
    ASSUME NEW s, NEW t, Quiet(s, t), NEW u, Quiet(t, u)
    PROVE  Quiet(s, u)
BY DEF Quiet, SameLevels

(* The painters, the clip, and the parameters of an ExtGState.              *)
LEMMA QuietSteps ==
    ASSUME NEW s, Sound(s), NEW v
    PROVE  /\ Quiet(s, Marked(s, v))
           /\ Quiet(s, PaintPath(s, v))
           /\ Quiet(s, Cleared(s))
           /\ Quiet(s, ApplyPendingClip(s))
           /\ Quiet(s, AfterFill(s, v))
           /\ Quiet(s, WithParameters(s, v))
<1>1. \A t : Sound(t) => \A w : /\ Quiet(t, t)
                               /\ Quiet(t, [t EXCEPT !.path = w])
                               /\ Quiet(t, [t EXCEPT !.pending = w])
                               /\ Quiet(t, [t EXCEPT !.marks = w])
                               /\ Quiet(t, [t EXCEPT !.clip = w])
  BY QuietFields
<1>2. \A t, w : Sound(t) => Quiet(t, PaintPath(t, w))
  BY <1>1 DEF PaintPath
<1>3. \A t : Sound(t) => Quiet(t, Cleared(t))
  BY <1>1 DEF Cleared
<1>4. Quiet(s, Marked(s, v))
  BY <1>1 DEF Marked
<1>5. Quiet(s, ApplyPendingClip(s))
  <2>1. CASE s.pending
    <3> DEFINE w == s.clip \cup {Region(s.path, s.gs.ctm)}
               t == [s EXCEPT !.clip = w]
    <3>1. Quiet(s, t)
      BY <1>1
    <3>2. Quiet(t, [t EXCEPT !.pending = FALSE])
      BY <1>1, <3>1 DEF Quiet
    <3>3. ApplyPendingClip(s) = [t EXCEPT !.pending = FALSE]
      BY <2>1 DEF ApplyPendingClip
    <3> QED
      BY <3>1, <3>2, <3>3, QuietTwice
  <2>2. CASE ~ s.pending
    BY <2>2, <1>1 DEF ApplyPendingClip
  <2> QED
    BY <2>1, <2>2
<1>6. Quiet(s, AfterFill(s, v))
  <2>1. CASE v = "B"
    <3>1. Quiet(s, PaintPath(s, "stroke"))
      BY <1>2
    <3>2. Quiet(PaintPath(s, "stroke"), Cleared(PaintPath(s, "stroke")))
      BY <1>3, <3>1 DEF Quiet
    <3> QED
      BY <2>1, <3>1, <3>2, QuietTwice DEF AfterFill
  <2>2. CASE v # "B"
    BY <2>2, <1>3 DEF AfterFill
  <2> QED
    BY <2>1, <2>2
<1>7. Quiet(s, WithParameters(s, v))
  <2> DEFINE b == IF v.blend = "" THEN s.gs.blend ELSE v.blend
             a == IF v.alpha = "" THEN s.gs.alpha ELSE v.alpha
             g == [[s.gs EXCEPT !.blend = b] EXCEPT !.alpha = a]
             t == [s EXCEPT !.gs = g]
  <2>1. GraphicsOK(g)
    <3>1. GraphicsOK([s.gs EXCEPT !.blend = b])
      BY GraphicsChange DEF Sound
    <3> QED
      BY <3>1, GraphicsChange
  <2>2. WithParameters(s, v) = [t EXCEPT !.blend = g.blend]
    <3>1. DOMAIN s = StateFields /\ DOMAIN s.gs = GraphicsFields
      BY DEF Sound, GraphicsOK
    <3>2. t.gs = g
      BY <3>1 DEF StateFields
    <3>3. WithParameters(s, v) = Synced(t)
      BY <3>1 DEF WithParameters, StateFields, GraphicsFields
    <3> HIDE DEF g, t
    <3> QED
      BY <3>2, <3>3 DEF Synced
  <2> HIDE DEF g
  <2>3. Quiet(s, [t EXCEPT !.blend = g.blend])
    BY <2>1 DEF Quiet, Sound, SameLevels, StateFields
  <2> QED
    BY <2>2, <2>3
<1> QED
  BY <1>2, <1>3, <1>4, <1>5, <1>6, <1>7

(* What an operator that begins a stream puts on the stacks, and what the   *)
(* end of the stream takes off.                                             *)
LEMMA SavedSound ==
    ASSUME NEW s, Sound(s)
    PROVE  /\ Sound(Saved(s))
           /\ Saved(s).depth = s.depth
           /\ Saved(s).smask = s.smask
           /\ Saved(s).clipStack = Append(s.clipStack, s.clip)
           /\ Saved(s).smaskStack = Append(s.smaskStack, s.smask)
<1> DEFINE top == [s.gs EXCEPT !.stack = <<>>]
           stack == Append(s.gs.stack, top)
           g == [s.gs EXCEPT !.stack = stack]
           clips == Append(s.clipStack, s.clip)
           masks == Append(s.smaskStack, s.smask)
           t == [[[s EXCEPT !.clipStack = clips] EXCEPT !.smaskStack = masks] EXCEPT !.gs = g]
<1>1. DOMAIN s = StateFields /\ DOMAIN s.gs = GraphicsFields /\ s.blend = s.gs.blend
      /\ s.depth \in Nat
  BY DEF Sound, GraphicsOK
<1>2. GraphicsOK(g) /\ g.blend = s.gs.blend
  <2>1. IsSequence(s.gs.stack) /\ DOMAIN top = GraphicsFields
    BY <1>1 DEF Sound, GraphicsOK
  <2> HIDE DEF top
  <2>2. IsSequence(stack) /\ Len(stack) = Len(s.gs.stack) + 1
        /\ stack[Len(s.gs.stack) + 1] = top
        /\ \A i \in 1 .. Len(s.gs.stack) : stack[i] = s.gs.stack[i]
    BY <2>1, Pushing
  <2> HIDE DEF stack
  <2>3. \A i \in 1 .. Len(stack) : DOMAIN stack[i] = GraphicsFields
    <3>1. Len(s.gs.stack) \in Nat
      BY <2>1, SequenceFacts
    <3>2. \A i \in 1 .. Len(stack) : i \in 1 .. Len(s.gs.stack) \/ i = Len(s.gs.stack) + 1
      BY <3>1, <2>2
    <3> QED
      BY <3>2, <2>1, <2>2 DEF Sound, GraphicsOK
  <2> QED
    BY <1>1, <2>2, <2>3 DEF GraphicsOK, GraphicsFields
<1>3. Saved(s) = t
  BY <1>1 DEF Saved, StateFields, GraphicsFields
<1>4. IsSequence(clips) /\ IsSequence(masks) /\ Len(clips) = Len(masks)
  <2>1. IsSequence(s.clipStack) /\ IsSequence(s.smaskStack) /\ Len(s.clipStack) = Len(s.smaskStack)
    BY DEF Sound
  <2> QED
    BY <2>1, Pushing
<1> HIDE DEF g, clips, masks
<1>5. /\ DOMAIN t = StateFields /\ t.gs = g /\ t.clipStack = clips /\ t.smaskStack = masks
      /\ t.blend = s.blend /\ t.depth = s.depth /\ t.smask = s.smask
  BY <1>1 DEF StateFields
<1> HIDE DEF t
<1> QED
  BY <1>1, <1>2, <1>3, <1>4, <1>5 DEF Sound, clips, masks

(* A graphics state popped.                                                 *)
LEMMA PoppedGraphics ==
    ASSUME NEW g, GraphicsOK(g)
    PROVE  GraphicsOK(PopGraphics(g))
<1>1. CASE g.stack = <<>>
  BY <1>1 DEF PopGraphics
<1>2. CASE g.stack # <<>>
  <2>1. PICK k \in Nat : Len(g.stack) = k + 1
    <3>1. Len(g.stack) \in Nat /\ Len(g.stack) # 0
      BY <1>2, SequenceFacts DEF GraphicsOK
    <3>2. Len(g.stack) - 1 \in Nat /\ Len(g.stack) = (Len(g.stack) - 1) + 1
      BY <3>1
    <3> QED
      BY <3>2
  <2>2. /\ IsSequence(Front(g.stack)) /\ Len(Front(g.stack)) = k
        /\ \A i \in 1 .. k : Front(g.stack)[i] = g.stack[i]
        /\ Last(g.stack) = g.stack[k + 1]
    BY <2>1, Popping DEF GraphicsOK
  <2>3. \A i \in 1 .. k : i \in 1 .. Len(g.stack)
    BY <2>1
  <2>4. DOMAIN Last(g.stack) = GraphicsFields
    BY <2>1, <2>2 DEF GraphicsOK
  <2>5. \A i \in 1 .. k : DOMAIN Front(g.stack)[i] = GraphicsFields
    BY <2>2, <2>3 DEF GraphicsOK
  <2> DEFINE f == Front(g.stack)
             l == Last(g.stack)
  <2>6. PopGraphics(g) = [l EXCEPT !.stack = f]
    BY <1>2 DEF PopGraphics
  <2> HIDE DEF f, l
  <2>7. DOMAIN [l EXCEPT !.stack = f] = GraphicsFields /\ [l EXCEPT !.stack = f].stack = f
    BY <2>4 DEF GraphicsFields, l
  <2> QED
    BY <2>2, <2>5, <2>6, <2>7 DEF GraphicsOK, f
<1> QED
  BY <1>1, <1>2

(* Popping the clip and the soft mask.                                      *)
LEMMA MasksPopped ==
    ASSUME NEW s, Sound(s)
    PROVE  LET t == PoppedMasks(s)
           IN /\ Sound(t)
              /\ t.gs = s.gs /\ t.blend = s.blend /\ t.depth = s.depth
              /\ t.res = s.res /\ t.base = s.base
              /\ s.clipStack = <<>> => Quiet(s, t)
              /\ s.clipStack # <<>> =>
                    /\ t.clip = Last(s.clipStack)
                    /\ t.smask = Last(s.smaskStack)
                    /\ t.clipStack = Front(s.clipStack)
                    /\ t.smaskStack = Front(s.smaskStack)
<1>1. /\ DOMAIN s = StateFields /\ IsSequence(s.clipStack) /\ IsSequence(s.smaskStack)
      /\ Len(s.clipStack) = Len(s.smaskStack)
  BY DEF Sound
<1>2. s.clipStack = <<>> <=> s.smaskStack = <<>>
  BY <1>1, SequenceFacts
<1>3. CASE s.clipStack = <<>>
  <2>1. PoppedMasks(s) = [[[[s EXCEPT !.clip = s.clip] EXCEPT !.clipStack = s.clipStack]
                              EXCEPT !.smask = s.smask] EXCEPT !.smaskStack = s.smaskStack]
    BY <1>1, <1>2, <1>3 DEF PoppedMasks, StateFields
  <2> DEFINE t == PoppedMasks(s)
  <2>2. /\ DOMAIN t = StateFields /\ t.gs = s.gs /\ t.blend = s.blend /\ t.depth = s.depth
        /\ t.res = s.res /\ t.base = s.base /\ t.clipStack = s.clipStack
        /\ t.smaskStack = s.smaskStack /\ t.smask = s.smask
    BY <1>1, <2>1 DEF StateFields
  <2> HIDE DEF t
  <2>3. Sound(t) /\ Quiet(s, t)
    BY <2>2 DEF Sound, Quiet, SameLevels
  <2> QED
    BY <1>3, <2>2, <2>3 DEF t
<1>4. CASE s.clipStack # <<>>
  <2> DEFINE clip == Last(s.clipStack)
             smask == Last(s.smaskStack)
             clips == Front(s.clipStack)
             masks == Front(s.smaskStack)
             t == PoppedMasks(s)
  <2>1. /\ IsSequence(clips) /\ IsSequence(masks) /\ Len(clips) = Len(masks)
    <3>1. Len(s.clipStack) > 0 /\ Len(s.smaskStack) > 0
      BY <1>1, <1>4, SequenceFacts
    <3> QED
      BY <1>1, <3>1, Popping
  <2>2. t = [[[[s EXCEPT !.clip = clip] EXCEPT !.clipStack = clips]
                 EXCEPT !.smask = smask] EXCEPT !.smaskStack = masks]
    BY <1>1, <1>2, <1>4 DEF PoppedMasks, StateFields
  <2> HIDE DEF clip, smask, clips, masks
  <2>3. /\ DOMAIN t = StateFields /\ t.gs = s.gs /\ t.blend = s.blend /\ t.depth = s.depth
        /\ t.res = s.res /\ t.base = s.base /\ t.clipStack = clips /\ t.clip = clip
        /\ t.smaskStack = masks /\ t.smask = smask
    BY <1>1, <2>2 DEF StateFields
  <2> HIDE DEF t
  <2>4. Sound(t)
    BY <2>1, <2>3 DEF Sound
  <2> QED
    BY <1>4, <2>3, <2>4 DEF t, clip, smask, clips, masks
<1> QED
  BY <1>3, <1>4

(* Setting the blend mode from the graphics state.                          *)
LEMMA SyncedSound ==
    ASSUME NEW s, DOMAIN s = StateFields, GraphicsOK(s.gs), s.depth \in Nat,
           IsSequence(s.clipStack), IsSequence(s.smaskStack),
           Len(s.clipStack) = Len(s.smaskStack)
    PROVE  /\ Sound(Synced(s))
           /\ SameLevels(s, Synced(s))
           /\ Synced(s).gs = s.gs /\ Synced(s).blend = s.gs.blend
           /\ Synced(s).clip = s.clip /\ Synced(s).smask = s.smask
           /\ Synced(s).res = s.res /\ Synced(s).base = s.base
<1>1. /\ DOMAIN Synced(s) = StateFields
      /\ SameLevels(s, Synced(s))
      /\ Synced(s).gs = s.gs /\ Synced(s).blend = s.gs.blend
      /\ Synced(s).clip = s.clip /\ Synced(s).smask = s.smask
      /\ Synced(s).res = s.res /\ Synced(s).base = s.base
  BY DEF Synced, StateFields, SameLevels
<1> QED
  BY <1>1 DEF Sound, SameLevels

(* Q: the level saved last is back, or nothing changes on the stacks.       *)
LEMMA RestoredSoundly ==
    ASSUME NEW s, Sound(s)
    PROVE  LET t == Restored(s)
           IN /\ Sound(t)
              /\ t.depth = s.depth
              /\ s.clipStack = <<>> => Quiet(s, t)
              /\ s.clipStack # <<>> =>
                    /\ t.smask = Last(s.smaskStack)
                    /\ t.clipStack = Front(s.clipStack)
                    /\ t.smaskStack = Front(s.smaskStack)
<1> DEFINE g == PopGraphics(s.gs)
           u == [s EXCEPT !.gs = g]
           v == Synced(u)
<1>1. GraphicsOK(g)
  BY PoppedGraphics DEF Sound
<1>2. Restored(s) = PoppedMasks(v)
  BY DEF Restored
<1> HIDE DEF g
<1>3. /\ DOMAIN u = StateFields /\ u.gs = g /\ u.depth = s.depth
      /\ u.clipStack = s.clipStack /\ u.smaskStack = s.smaskStack /\ u.smask = s.smask
  BY DEF Sound, StateFields
<1> HIDE DEF u
<1>4. Sound(v) /\ SameLevels(u, v) /\ v.smask = u.smask
  <2>1. s.depth \in Nat /\ IsSequence(s.clipStack) /\ IsSequence(s.smaskStack)
        /\ Len(s.clipStack) = Len(s.smaskStack)
    BY DEF Sound
  <2> QED
    BY <1>1, <1>3, <2>1, SyncedSound
<1> HIDE DEF v
<1>5. v.clipStack = s.clipStack /\ v.smaskStack = s.smaskStack /\ v.depth = s.depth
      /\ v.smask = s.smask
  BY <1>3, <1>4 DEF SameLevels
<1> QED
  BY <1>2, <1>4, <1>5, MasksPopped DEF Quiet, SameLevels

-----------------------------------------------------------------------------
(* s still has what c has saved below.                                      *)
Above(s, c) ==
    \A i \in 1 .. Len(c.clipStack) :
        s.clipStack[i] = c.clipStack[i] /\ s.smaskStack[i] = c.smaskStack[i]

(* The level above those of c is c itself.                                  *)
Holds(s, c) ==
    /\ s.clipStack[Len(c.clipStack) + 1] = c.clip
    /\ s.smaskStack[Len(c.clipStack) + 1] = c.smask

(* A form begins one level above its caller.                                *)
LEMMA FormEntered ==
    ASSUME NEW c, Sound(c), NEW o
    PROVE  LET s == EnterForm(c, o)
           IN /\ Sound(s)
              /\ s.depth = c.depth + 1
              /\ Len(s.clipStack) = Len(c.clipStack) + 1
              /\ Above(s, c)
              /\ Holds(s, c)
<1> DEFINE ctm == Append(c.gs.ctm, Transform(o, 0))
           g == [c.gs EXCEPT !.ctm = ctm]
           clips == Append(c.clipStack, c.clip)
           masks == Append(c.smaskStack, c.smask)
           s == EnterForm(c, o)
<1>1. DOMAIN c = StateFields /\ c.depth \in Nat /\ GraphicsOK(c.gs) /\ c.blend = c.gs.blend
  BY DEF Sound
<1>2. GraphicsOK(g) /\ g.blend = c.gs.blend
  BY <1>1, GraphicsChange
<1>3. IsSequence(c.clipStack) /\ IsSequence(c.smaskStack) /\ Len(c.clipStack) = Len(c.smaskStack)
  BY DEF Sound
<1>4. /\ IsSequence(clips) /\ IsSequence(masks)
      /\ Len(clips) = Len(c.clipStack) + 1 /\ Len(masks) = Len(c.clipStack) + 1
      /\ \A i \in 1 .. Len(c.clipStack) : clips[i] = c.clipStack[i] /\ masks[i] = c.smaskStack[i]
      /\ clips[Len(c.clipStack) + 1] = c.clip /\ masks[Len(c.clipStack) + 1] = c.smask
  BY <1>3, Pushing
<1>5. /\ DOMAIN s = StateFields /\ s.gs = g /\ s.blend = c.blend /\ s.depth = c.depth + 1
      /\ s.clipStack = clips /\ s.smaskStack = masks
  BY <1>1 DEF EnterForm, StateFields
<1> HIDE DEF s, clips, masks, g
<1>6. Sound(s)
  BY <1>1, <1>2, <1>4, <1>5 DEF Sound
<1>7. Above(s, c) /\ Holds(s, c)
  BY <1>4, <1>5 DEF Above, Holds
<1> QED
  BY <1>4, <1>5, <1>6, <1>7 DEF s

(* The end of a stream that is back at its caller's depth.                  *)
LEMMA DepthBack ==
    ASSUME NEW s, Sound(s), NEW c, Sound(c), s.depth = c.depth + 1
    PROVE  LET t == Shallower(s)
           IN /\ DOMAIN t = StateFields
              /\ t.depth = c.depth
              /\ t.clipStack = s.clipStack /\ t.smaskStack = s.smaskStack
              /\ t.smask = s.smask /\ t.clip = s.clip
<1>1. DOMAIN s = StateFields /\ s.depth \in Nat /\ c.depth \in Nat
  BY DEF Sound
<1>2. s.depth # 0 /\ s.depth - 1 = c.depth
  BY <1>1
<1>3. Shallower(s) = [s EXCEPT !.depth = c.depth]
  BY <1>1, <1>2 DEF Shallower, StateFields
<1> QED
  BY <1>1, <1>3 DEF StateFields

(* ... and of a form, whose caller is on the top of the stacks.             *)
LEMMA FormLeft ==
    ASSUME NEW s, Sound(s), NEW c, Sound(c), s.depth = c.depth + 1,
           Len(s.clipStack) = Len(c.clipStack) + 1, Above(s, c), Holds(s, c)
    PROVE  /\ Restores(c, CleanupAfterForm(s, c))
           /\ CleanupAfterForm(s, c).smask = c.smask
<1> DEFINE u == Shallower(s)
           v == [[[u EXCEPT !.res = c.res] EXCEPT !.gs = c.gs] EXCEPT !.base = c.base]
           w == Synced(v)
           t == PoppedMasks(w)
<1>1. DOMAIN u = StateFields /\ u.depth = c.depth
      /\ u.clipStack = s.clipStack /\ u.smaskStack = s.smaskStack
  BY DepthBack
<1>2. CleanupAfterForm(s, c) = t
  BY DEF CleanupAfterForm
<1> HIDE DEF u
<1>3. /\ DOMAIN v = StateFields /\ v.depth = c.depth /\ v.gs = c.gs /\ v.res = c.res
      /\ v.base = c.base /\ v.clipStack = s.clipStack /\ v.smaskStack = s.smaskStack
  BY <1>1 DEF StateFields
<1> HIDE DEF v
<1>4. /\ IsSequence(s.clipStack) /\ IsSequence(s.smaskStack)
      /\ Len(s.clipStack) = Len(s.smaskStack)
      /\ IsSequence(c.clipStack) /\ IsSequence(c.smaskStack)
      /\ Len(c.clipStack) = Len(c.smaskStack)
      /\ GraphicsOK(c.gs) /\ c.blend = c.gs.blend /\ c.depth \in Nat
  BY DEF Sound
<1>5. /\ Sound(w) /\ w.gs = c.gs /\ w.blend = c.blend /\ w.depth = c.depth
      /\ w.res = c.res /\ w.base = c.base
      /\ w.clipStack = s.clipStack /\ w.smaskStack = s.smaskStack
  <2>1. GraphicsOK(v.gs) /\ v.depth \in Nat /\ IsSequence(v.clipStack)
        /\ IsSequence(v.smaskStack) /\ Len(v.clipStack) = Len(v.smaskStack)
    BY <1>3, <1>4
  <2> QED
    BY <1>3, <1>4, <2>1, SyncedSound DEF SameLevels
<1> HIDE DEF w
<1>6. PICK n \in Nat : n = Len(c.clipStack)
  BY <1>4, SequenceFacts
<1>7. Len(s.clipStack) = n + 1 /\ Len(s.smaskStack) = n + 1 /\ s.clipStack # <<>>
  BY <1>4, <1>6, SequenceFacts
<1>8. /\ IsSequence(Front(s.clipStack)) /\ Len(Front(s.clipStack)) = n
      /\ \A i \in 1 .. n : Front(s.clipStack)[i] = s.clipStack[i]
      /\ Last(s.clipStack) = s.clipStack[n + 1]
      /\ IsSequence(Front(s.smaskStack)) /\ Len(Front(s.smaskStack)) = n
      /\ \A i \in 1 .. n : Front(s.smaskStack)[i] = s.smaskStack[i]
      /\ Last(s.smaskStack) = s.smaskStack[n + 1]
  <2>1. ASSUME NEW t0, IsSequence(t0), Len(t0) = n + 1
        PROVE  /\ IsSequence(Front(t0)) /\ Len(Front(t0)) = n
               /\ \A i \in 1 .. n : Front(t0)[i] = t0[i]
               /\ Last(t0) = t0[n + 1]
    <3>1. Len(t0) > 0 /\ Len(t0) - 1 = n
      BY <2>1
    <3> QED
      BY <2>1, <3>1, Popping
  <2> QED
    BY <1>4, <1>7, <2>1
<1>9. Front(s.clipStack) = c.clipStack
  <2> DEFINE front == Front(s.clipStack)
  <2>1. IsSequence(front) /\ Len(front) = n
        /\ \A i \in 1 .. n : front[i] = s.clipStack[i]
    BY <1>8
  <2> HIDE DEF front
  <2>2. \A i \in 1 .. n : front[i] = c.clipStack[i]
    BY <1>6, <2>1 DEF Above
  <2>3. front = c.clipStack
    BY <1>4, <1>6, <2>1, <2>2, SameStack
  <2> QED
    BY <2>3 DEF front
<1>10. Front(s.smaskStack) = c.smaskStack
  <2> DEFINE front == Front(s.smaskStack)
  <2>1. IsSequence(front) /\ Len(front) = n
        /\ \A i \in 1 .. n : front[i] = s.smaskStack[i]
    BY <1>8
  <2> HIDE DEF front
  <2>2. \A i \in 1 .. n : front[i] = c.smaskStack[i]
    BY <1>6, <2>1 DEF Above
  <2>3. front = c.smaskStack
    BY <1>4, <1>6, <2>1, <2>2, SameStack
  <2> QED
    BY <2>3 DEF front
<1>11. Last(s.clipStack) = c.clip /\ Last(s.smaskStack) = c.smask
  BY <1>6, <1>8 DEF Holds
<1>12. /\ Sound(t) /\ t.gs = c.gs /\ t.blend = c.blend /\ t.depth = c.depth
       /\ t.res = c.res /\ t.base = c.base
       /\ t.clip = c.clip /\ t.smask = c.smask
       /\ t.clipStack = c.clipStack /\ t.smaskStack = c.smaskStack
  <2>1. /\ Sound(t)
        /\ t.gs = w.gs /\ t.blend = w.blend /\ t.depth = w.depth
        /\ t.res = w.res /\ t.base = w.base
        /\ w.clipStack # <<>> =>
              /\ t.clip = Last(w.clipStack)
              /\ t.smask = Last(w.smaskStack)
              /\ t.clipStack = Front(w.clipStack)
              /\ t.smaskStack = Front(w.smaskStack)
    BY <1>5, MasksPopped
  <2> HIDE DEF t
  <2> QED
    BY <1>5, <1>7, <1>9, <1>10, <1>11, <2>1
<1> HIDE DEF t
<1>13. DOMAIN t = StateFields
  BY <1>12 DEF Sound
<1> QED
  BY <1>2, <1>12, <1>13 DEF Restores, SameLevels

(* A tile begins at the level of the fill.                                  *)
LEMMA TileEntered ==
    ASSUME NEW c, Sound(c), NEW o, NEW nth
    PROVE  LET s == EnterTile(c, o, nth)
           IN /\ Sound(s)
              /\ s.depth = c.depth + 1
              /\ s.clipStack = c.clipStack /\ s.smaskStack = c.smaskStack
              /\ s.smask = c.smask
<1> DEFINE ctm == Append(c.base, Transform(o, nth))
           g == [c.gs EXCEPT !.ctm = ctm]
           s == EnterTile(c, o, nth)
<1>1. DOMAIN c = StateFields /\ c.depth \in Nat /\ GraphicsOK(c.gs) /\ c.blend = c.gs.blend
  BY DEF Sound
<1>2. GraphicsOK(g) /\ g.blend = c.gs.blend
  BY <1>1, GraphicsChange
<1>3. /\ DOMAIN s = StateFields /\ s.gs = g /\ s.blend = c.blend /\ s.depth = c.depth + 1
      /\ s.clipStack = c.clipStack /\ s.smaskStack = c.smaskStack /\ s.smask = c.smask
  BY <1>1 DEF EnterTile, StateFields
<1> HIDE DEF s, g
<1>4. Sound(s)
  BY <1>1, <1>2, <1>3 DEF Sound
<1> QED
  BY <1>3, <1>4 DEF s

(* ... and leaves everything but the soft mask as it was.                   *)
LEMMA TileLeft ==
    ASSUME NEW s, Sound(s), NEW c, Sound(c), s.depth = c.depth + 1,
           Len(s.clipStack) = Len(c.clipStack), Above(s, c)
    PROVE  /\ Restores(c, LeaveTile(s, c))
           /\ LeaveTile(s, c).smask = s.smask
<1> DEFINE u == Shallower(s)
           v == [[[[u EXCEPT !.gs = c.gs] EXCEPT !.res = c.res] EXCEPT !.base = c.base]
                   EXCEPT !.clip = c.clip]
           w == Synced(v)
<1>1. DOMAIN u = StateFields /\ u.depth = c.depth /\ u.smask = s.smask
      /\ u.clipStack = s.clipStack /\ u.smaskStack = s.smaskStack
  BY DepthBack
<1>2. LeaveTile(s, c) = w
  BY DEF LeaveTile
<1> HIDE DEF u
<1>3. /\ DOMAIN v = StateFields /\ v.depth = c.depth /\ v.gs = c.gs /\ v.res = c.res
      /\ v.base = c.base /\ v.clip = c.clip /\ v.smask = s.smask
      /\ v.clipStack = s.clipStack /\ v.smaskStack = s.smaskStack
  BY <1>1 DEF StateFields
<1> HIDE DEF v
<1>4. /\ IsSequence(s.clipStack) /\ IsSequence(s.smaskStack)
      /\ Len(s.clipStack) = Len(s.smaskStack)
      /\ IsSequence(c.clipStack) /\ IsSequence(c.smaskStack)
      /\ Len(c.clipStack) = Len(c.smaskStack)
      /\ GraphicsOK(c.gs) /\ c.blend = c.gs.blend /\ c.depth \in Nat
  BY DEF Sound
<1>5. s.clipStack = c.clipStack
  <2>1. \A i \in 1 .. Len(s.clipStack) : s.clipStack[i] = c.clipStack[i]
    BY DEF Above
  <2> QED
    BY <1>4, <2>1, SameStack
<1>6. s.smaskStack = c.smaskStack
  <2>1. \A i \in 1 .. Len(s.smaskStack) : s.smaskStack[i] = c.smaskStack[i]
    BY <1>4 DEF Above
  <2> QED
    BY <1>4, <2>1, SameStack
<1>7. /\ Sound(w) /\ w.gs = c.gs /\ w.blend = c.blend /\ w.depth = c.depth
      /\ w.res = c.res /\ w.base = c.base /\ w.clip = c.clip /\ w.smask = s.smask
      /\ w.clipStack = c.clipStack /\ w.smaskStack = c.smaskStack
  <2>1. GraphicsOK(v.gs) /\ v.depth \in Nat /\ IsSequence(v.clipStack)
        /\ IsSequence(v.smaskStack) /\ Len(v.clipStack) = Len(v.smaskStack)
    BY <1>3, <1>4
  <2> QED
    BY <1>3, <1>4, <1>5, <1>6, <2>1, SyncedSound DEF SameLevels
<1> HIDE DEF w
<1>8. DOMAIN w = StateFields
  BY <1>7 DEF Sound
<1> QED
  BY <1>2, <1>7, <1>8 DEF Restores, SameLevels

(* A group and a soft mask begin on a RenderState of their own.             *)
LEMMA ChildSound ==
    ASSUME NEW c, Sound(c), NEW o, NEW marks, NEW clip
    PROVE  Sound(ChildState(c, o, marks, clip))
<1> DEFINE ctm == Append(c.gs.ctm, Transform(o, 0))
           g == [[[c.gs EXCEPT !.ctm = ctm] EXCEPT !.alpha = "1"] EXCEPT !.blend = "Normal"]
           r == MergeResources(doc.objects[o].res, c.res)
           s == ChildState(c, o, marks, clip)
<1>1. GraphicsOK(g) /\ g.blend = "Normal"
  <2>1. \A h : GraphicsOK(h) => \A v : /\ GraphicsOK([h EXCEPT !.ctm = v])
                                       /\ GraphicsOK([h EXCEPT !.alpha = v])
                                       /\ GraphicsOK([h EXCEPT !.blend = v])
    BY GraphicsChange
  <2>2. GraphicsOK(c.gs)
    BY DEF Sound
  <2>3. GraphicsOK([[c.gs EXCEPT !.ctm = ctm] EXCEPT !.alpha = "1"])
    BY <2>1, <2>2
  <2>4. \A h : GraphicsOK(h) => [h EXCEPT !.blend = "Normal"].blend = "Normal"
    BY DEF GraphicsOK, GraphicsFields
  <2> QED
    BY <2>1, <2>3, <2>4
<1>2. c.depth + 1 \in Nat
  BY DEF Sound
<1>3. /\ DOMAIN s = StateFields /\ s.gs = g /\ s.blend = "Normal" /\ s.depth = c.depth + 1
      /\ s.clipStack = <<>> /\ s.smaskStack = <<>>
  BY DEF ChildState, FreshState, StateFields
<1>4. IsSequence(<<>>)
  <2>1. <<>> \in Seq({})
    OBVIOUS
  <2> QED
    BY <2>1 DEF IsSequence
<1> HIDE DEF s, g
<1> QED
  BY <1>1, <1>2, <1>3, <1>4 DEF Sound, s

(* What is painted of a group is one mark more.                             *)
LEMMA CompositedBack ==
    ASSUME NEW c, Sound(c), NEW o, NEW child
    PROVE  /\ Restores(c, Composited(c, o, child))
           /\ Composited(c, o, child).smask = c.smask
<1>1. \A marks : LET t == [c EXCEPT !.marks = marks]
                 IN Restores(c, t) /\ t.smask = c.smask
  BY DEF Restores, SameLevels, Sound, StateFields
<1>2. PICK marks : Composited(c, o, child) = [c EXCEPT !.marks = marks]
  BY DEF Composited
<1> QED
  BY <1>1, <1>2

(* The graphics state a page starts from.                                   *)
LEMMA InitialSound == GraphicsOK(InitialGraphics)
<1>1. IsSequence(<<>>) /\ Len(<<>>) = 0
  <2>1. <<>> \in Seq({})
    OBVIOUS
  <2> QED
    BY <2>1 DEF IsSequence
<1>2. DOMAIN InitialGraphics = GraphicsFields /\ InitialGraphics.stack = <<>>
  BY DEF InitialGraphics, GraphicsFields
<1> QED
  BY <1>1, <1>2 DEF GraphicsOK

(* ... and the RenderState, which has saved nothing.                        *)
LEMMA FreshSound ==
    ASSUME NEW res
    PROVE  Sound(FreshState(res)) /\ FreshState(res).clipStack = <<>>
<1> DEFINE s == FreshState(res)
<1>1. /\ DOMAIN s = StateFields /\ s.gs = InitialGraphics /\ s.blend = "Normal" /\ s.depth = 0
      /\ s.clipStack = <<>> /\ s.smaskStack = <<>>
  BY DEF FreshState, StateFields
<1>2. InitialGraphics.blend = "Normal"
  BY DEF InitialGraphics
<1>3. IsSequence(<<>>)
  <2>1. <<>> \in Seq({})
    OBVIOUS
  <2> QED
    BY <2>1 DEF IsSequence
<1> HIDE DEF s
<1> QED
  BY <1>1, <1>2, <1>3, InitialSound DEF Sound, s

(* The surroundings an annotation is drawn in,                              *)
LEMMA AnnotationEntered ==
    ASSUME NEW s, Sound(s)
    PROVE  LET t == EnterAnnotation(s)
           IN /\ Sound(t)
              /\ SameLevels(s, t)
              /\ t.res = s.res /\ t.base = s.base
<1> DEFINE ctm == <<Transform("rect", annot)>>
           g == [InitialGraphics EXCEPT !.ctm = ctm]
           v == [[[s EXCEPT !.clip = {}] EXCEPT !.smask = <<>>] EXCEPT !.gs = g]
<1>1. GraphicsOK(g)
  BY InitialSound, GraphicsChange
<1>2. EnterAnnotation(s) = Synced(v)
  BY DEF EnterAnnotation
<1> HIDE DEF g
<1>3. /\ DOMAIN v = StateFields /\ v.gs = g /\ v.depth = s.depth
      /\ v.clipStack = s.clipStack /\ v.smaskStack = s.smaskStack
      /\ v.res = s.res /\ v.base = s.base
  BY DEF Sound, StateFields
<1> HIDE DEF v
<1>4. s.depth \in Nat /\ IsSequence(s.clipStack) /\ IsSequence(s.smaskStack)
      /\ Len(s.clipStack) = Len(s.smaskStack)
  BY DEF Sound
<1> QED
  BY <1>1, <1>2, <1>3, <1>4, SyncedSound DEF SameLevels

(* ... and what is put back after it.                                       *)
LEMMA AnnotationLeft ==
    ASSUME NEW s, Sound(s), NEW before, Sound(before), SameLevels(before, s),
           s.res = before.res, s.base = before.base
    PROVE  /\ Restores(before, LeaveAnnotation(s, before))
           /\ LeaveAnnotation(s, before).smask = before.smask
<1> DEFINE v == [[[s EXCEPT !.gs = before.gs] EXCEPT !.clip = before.clip]
                   EXCEPT !.smask = before.smask]
           w == Synced(v)
<1>1. LeaveAnnotation(s, before) = w
  BY DEF LeaveAnnotation
<1>2. /\ DOMAIN v = StateFields /\ v.gs = before.gs /\ v.depth = s.depth
      /\ v.clip = before.clip /\ v.smask = before.smask
      /\ v.clipStack = s.clipStack /\ v.smaskStack = s.smaskStack
      /\ v.res = s.res /\ v.base = s.base
  BY DEF Sound, StateFields
<1> HIDE DEF v
<1>3. s.depth \in Nat /\ IsSequence(s.clipStack) /\ IsSequence(s.smaskStack)
      /\ Len(s.clipStack) = Len(s.smaskStack)
      /\ GraphicsOK(before.gs) /\ before.blend = before.gs.blend
  BY DEF Sound
<1>4. /\ Sound(w) /\ SameLevels(v, w) /\ w.gs = before.gs /\ w.blend = before.blend
      /\ w.clip = before.clip /\ w.smask = before.smask
      /\ w.res = s.res /\ w.base = s.base
  BY <1>2, <1>3, SyncedSound
<1> HIDE DEF w
<1>5. DOMAIN w = StateFields
  BY <1>4 DEF Sound
<1> QED
  BY <1>1, <1>2, <1>4, <1>5 DEF Restores, SameLevels

-----------------------------------------------------------------------------
(* A tile of the document may leave a soft mask behind.                     *)
MaskStays(d) == \E o \in DOMAIN d.objects : LeavesMask(d.objects[o])

(* Every stream of the document saves and restores in pairs.                *)
Paired(d) == \A o \in DOMAIN d.objects : Balanced(d.objects[o].ops)

(* The RenderState that the operator which began f will have to leave       *)
(* behind.                                                                  *)
Before(f) == IF f.outer = <<>> THEN f.caller ELSE f.outer[1]

(* What a frame knows of its caller.                                        *)
CallerOK(d, f) ==
    /\ FrameOK(d, f)
    /\ f.kind \in {"page", "form", "group", "smask", "tile"}
    /\ f.pc <= Len(f.ops) + 1
    /\ f.kind # "page" =>
         /\ f.object \in DOMAIN d.objects
         /\ f.ops = d.objects[f.object].ops
         /\ Sound(f.caller)
    /\ f.kind # "page" /\ f.outer # <<>> =>
         /\ Sound(f.outer[1])
         /\ SameLevels(f.outer[1], f.caller)
         /\ f.caller.res = f.outer[1].res
         /\ f.caller.base = f.outer[1].base
    /\ f.kind = "tile" =>
         /\ d.objects[f.object].kind = "tiling"
         /\ f.outer # <<>>
         /\ f.caller.gs = f.outer[1].gs
         /\ ~ MaskStays(d) => f.caller.smask = f.outer[1].smask
    /\ f.kind = "smask" => f.outer = <<>>

(* The levels saved when the stream of f began.                             *)
Ground(f) == Len(f.caller.clipStack) + (IF f.kind = "form" THEN 1 ELSE 0)

(* The soft mask of level n.                                                *)
MaskAt(s, n) == IF Len(s.smaskStack) = n THEN s.smask ELSE s.smaskStack[n + 1]

(* What the RenderState s is while f runs on it: the levels of its caller,  *)
(* under those that f has opened itself.                                    *)
InsideOK(d, f, s) ==
    /\ Sound(s)
    /\ f.kind \in {"form", "tile"} =>
         /\ s.depth = f.caller.depth + 1
         /\ Len(s.clipStack) = Ground(f) + Level(f.ops, f.pc - 1)
         /\ Above(s, f.caller)
    /\ f.kind = "form" => Holds(s, f.caller)
    /\ f.kind = "tile" /\ ~ MaskStays(d) => MaskAt(s, Ground(f)) = f.caller.smask

(* A frame that has just dispatched a gs.                                   *)
AtMask(f) == f.pc > 1 /\ f.ops[f.pc - 1].op = "gs"

(* The RenderState frame i sees, or will see when it goes on.               *)
View(fs, s, i) == IF i = Len(fs) THEN s ELSE Before(fs[i + 1])

(* Every frame finds what it left.                                          *)
Contained(d, fs, s) ==
    \A i \in 1 .. Len(fs) :
        /\ CallerOK(d, fs[i])
        /\ InsideOK(d, fs[i], View(fs, s, i))
        /\ i < Len(fs) /\ fs[i + 1].kind = "smask" => AtMask(fs[i])

-----------------------------------------------------------------------------
(* The level at the next operator of a stream in pairs.                     *)
LEMMA Grounded ==
    ASSUME NEW d, Paired(d), NEW f, CallerOK(d, f), f.kind # "page"
    PROVE  /\ IsSequence(f.ops) /\ Len(f.ops) \in Nat
           /\ f.pc \in Nat \ {0} /\ f.pc - 1 \in 0 .. Len(f.ops)
           /\ Level(f.ops, f.pc - 1) \in Nat
           /\ Level(f.ops, Len(f.ops)) = 0
           /\ Ground(f) \in Nat
           /\ Len(f.caller.clipStack) \in Nat
           /\ Len(f.caller.clipStack) <= Ground(f)
<1>1. IsSequence(f.ops) /\ f.pc \in Nat \ {0} /\ f.pc <= Len(f.ops) + 1
  BY DEF CallerOK, FrameOK
<1>2. Len(f.ops) \in Nat
  BY <1>1, SequenceFacts
<1>3. Balanced(f.ops)
  BY DEF CallerOK, Paired
<1>4. f.pc - 1 \in 0 .. Len(f.ops)
  BY <1>1, <1>2
<1>5. Level(f.ops, f.pc - 1) \in Nat /\ Level(f.ops, Len(f.ops)) = 0
  BY <1>1, <1>3, <1>4, LevelFacts
<1>6. Len(f.caller.clipStack) \in Nat
  BY SequenceFacts DEF CallerOK, Sound
<1>7. Ground(f) \in Nat /\ Len(f.caller.clipStack) <= Ground(f)
  <2>1. CASE f.kind = "form"
    <3>1. Ground(f) = Len(f.caller.clipStack) + 1
      BY <2>1 DEF Ground
    <3> QED
      BY <1>6, <3>1
  <2>2. CASE f.kind # "form"
    <3>1. Ground(f) = Len(f.caller.clipStack) + 0
      BY <2>2 DEF Ground
    <3> QED
      BY <1>6, <3>1
  <2> QED
    BY <2>1, <2>2
<1> QED
  BY <1>1, <1>2, <1>4, <1>5, <1>6, <1>7

(* A gs at the ground level of a tile is what MaskStays speaks of.          *)
LEMMA MaskGuarded ==
    ASSUME NEW d, ~ MaskStays(d), NEW f, CallerOK(d, f), f.kind = "tile",
           NEW n \in 1 .. Len(f.ops), f.ops[n].op = "gs"
    PROVE  Level(f.ops, n - 1) # 0
<1>1. f.object \in DOMAIN d.objects /\ f.ops = d.objects[f.object].ops
      /\ d.objects[f.object].kind = "tiling" /\ IsSequence(f.ops)
  BY DEF CallerOK, FrameOK
<1>2. n \in DOMAIN f.ops /\ Len(f.ops) \in Nat
  BY <1>1, SequenceFacts
<1>3. Level(f.ops, n) # 0
  BY <1>1, <1>2 DEF MaskStays, LeavesMask
<1>4. n - 1 \in Nat /\ (n - 1) + 1 = n
  BY <1>2
<1>5. Level(f.ops, n) = Level(f.ops, n - 1)
  <2>1. \A k \in Nat : f.ops[k + 1].op \notin {"q", "Q"} => Level(f.ops, k + 1) = Level(f.ops, k)
    BY LevelStep
  <2> QED
    BY <1>4, <2>1
<1> QED
  BY <1>3, <1>5

(* A soft mask set by a gs.                                                 *)
LEMMA MaskMoves ==
    ASSUME NEW d, Paired(d), NEW f, CallerOK(d, f), NEW s, InsideOK(d, f, s),
           NEW t, Sound(t), SameLevels(s, t), AtMask(f)
    PROVE  InsideOK(d, f, t)
<1>1. t.clipStack = s.clipStack /\ t.smaskStack = s.smaskStack /\ t.depth = s.depth
  BY DEF SameLevels
<1>2. f.kind \in {"form", "tile"} => Above(t, f.caller)
  BY <1>1 DEF InsideOK, Above
<1>3. f.kind = "form" => Holds(t, f.caller)
  BY <1>1 DEF InsideOK, Holds
<1>4. ASSUME f.kind = "tile", ~ MaskStays(d)
      PROVE  MaskAt(t, Ground(f)) = f.caller.smask
  <2>1. /\ f.pc \in Nat \ {0} /\ f.pc - 1 \in 0 .. Len(f.ops) /\ Len(f.ops) \in Nat
        /\ Level(f.ops, f.pc - 1) \in Nat /\ Ground(f) \in Nat
    BY <1>4, Grounded
  <2> DEFINE n == f.pc - 1
  <2>2. n \in 1 .. Len(f.ops) /\ f.ops[n].op = "gs" /\ n - 1 \in Nat /\ (n - 1) + 1 = n
    BY <2>1 DEF AtMask
  <2> HIDE DEF n
  <2>3. Level(f.ops, n - 1) # 0
    BY <1>4, <2>2, MaskGuarded
  <2>4. Level(f.ops, n) = Level(f.ops, n - 1)
    <3>1. \A k \in Nat : f.ops[k + 1].op \notin {"q", "Q"} => Level(f.ops, k + 1) = Level(f.ops, k)
      BY LevelStep
    <3> QED
      BY <2>2, <3>1
  <2>5. Level(f.ops, f.pc - 1) # 0
    BY <2>3, <2>4 DEF n
  <2>6. Len(s.smaskStack) = Ground(f) + Level(f.ops, f.pc - 1)
    BY <1>4 DEF InsideOK, Sound
  <2>7. Len(s.smaskStack) # Ground(f)
    BY <2>1, <2>5, <2>6
  <2> QED
    BY <1>1, <1>4, <2>7 DEF InsideOK, MaskAt
<1> QED
  BY <1>1, <1>2, <1>3, <1>4 DEF InsideOK

(* A nested stream that has left its surroundings as they were.             *)
LEMMA InsideKept ==
    ASSUME NEW d, NEW f, NEW s, InsideOK(d, f, s), NEW t, Sound(t), SameLevels(s, t),
           t.smask = s.smask \/ MaskStays(d)
    PROVE  InsideOK(d, f, t)
<1>1. t.clipStack = s.clipStack /\ t.smaskStack = s.smaskStack /\ t.depth = s.depth
  BY DEF SameLevels
<1>2. f.kind \in {"form", "tile"} => Above(t, f.caller)
  BY <1>1 DEF InsideOK, Above
<1>3. f.kind = "form" => Holds(t, f.caller)
  BY <1>1 DEF InsideOK, Holds
<1>4. f.kind = "tile" /\ ~ MaskStays(d) => MaskAt(t, Ground(f)) = f.caller.smask
  BY <1>1 DEF InsideOK, MaskAt
<1> QED
  BY <1>1, <1>2, <1>3, <1>4 DEF InsideOK

(* The frame at its next operator.                                          *)
Next1(f) == [f EXCEPT !.pc = f.pc + 1]

(* Moving to it changes nothing else of the frame.                          *)
LEMMA NextFrame ==
    ASSUME NEW d, NEW f, CallerOK(d, f), f.pc <= Len(f.ops)
    PROVE  /\ CallerOK(d, Next1(f))
           /\ Next1(f).pc = f.pc + 1
           /\ Next1(f).kind = f.kind /\ Next1(f).ops = f.ops
           /\ Next1(f).caller = f.caller /\ Next1(f).outer = f.outer
           /\ Ground(Next1(f)) = Ground(f)
           /\ Before(Next1(f)) = Before(f)
           /\ f.ops[f.pc].op = "gs" => AtMask(Next1(f))
<1> DEFINE g == Next1(f)
<1>1. DOMAIN f = FrameFields /\ f.pc \in Nat \ {0} /\ IsSequence(f.ops)
  BY DEF CallerOK, FrameOK
<1>2. Len(f.ops) \in Nat
  BY <1>1, SequenceFacts
<1>3. /\ DOMAIN g = FrameFields
      /\ g.pc = f.pc + 1 /\ g.kind = f.kind /\ g.ops = f.ops /\ g.object = f.object
      /\ g.caller = f.caller /\ g.outer = f.outer
  BY <1>1 DEF Next1, FrameFields
<1>4. f.pc + 1 \in Nat \ {0} /\ f.pc + 1 <= Len(f.ops) + 1 /\ f.pc + 1 > 1 /\ (f.pc + 1) - 1 = f.pc
  BY <1>1, <1>2
<1> HIDE DEF g
<1>5. FrameOK(d, g)
  BY <1>3, <1>4 DEF CallerOK, FrameOK
<1>6. CallerOK(d, g)
  BY <1>3, <1>4, <1>5 DEF CallerOK
<1>7. f.ops[f.pc].op = "gs" => AtMask(g)
  BY <1>3, <1>4 DEF AtMask
<1> QED
  BY <1>3, <1>6, <1>7 DEF g, Ground, Before

(* An operator other than q and Q.                                          *)
LEMMA InsideNext ==
    ASSUME NEW d, Paired(d), NEW f, CallerOK(d, f), f.pc <= Len(f.ops),
           f.ops[f.pc].op \notin {"q", "Q"},
           NEW s, InsideOK(d, f, s), NEW t, Sound(t), SameLevels(s, t),
           t.smask = s.smask \/ f.ops[f.pc].op = "gs"
    PROVE  InsideOK(d, Next1(f), t)
<1> DEFINE g == Next1(f)
<1>1. /\ CallerOK(d, g) /\ g.pc = f.pc + 1 /\ g.kind = f.kind /\ g.ops = f.ops
      /\ g.caller = f.caller /\ Ground(g) = Ground(f)
      /\ f.ops[f.pc].op = "gs" => AtMask(g)
  BY NextFrame
<1> HIDE DEF g
<1>2. f.pc \in Nat \ {0}
  BY DEF CallerOK, FrameOK
<1>3. Level(g.ops, g.pc - 1) = Level(f.ops, f.pc - 1)
  <2>1. \A k \in Nat : f.ops[k + 1].op \notin {"q", "Q"} => Level(f.ops, k + 1) = Level(f.ops, k)
    BY LevelStep
  <2>2. f.pc - 1 \in Nat /\ (f.pc - 1) + 1 = f.pc /\ (f.pc + 1) - 1 = f.pc
    BY <1>2
  <2> QED
    BY <1>1, <2>1, <2>2
<1>4. InsideOK(d, g, s)
  BY <1>1, <1>3 DEF InsideOK
<1>5. InsideOK(d, g, t)
  <2>1. CASE t.smask = s.smask
    BY <1>4, <2>1, InsideKept
  <2>2. CASE f.ops[f.pc].op = "gs"
    BY <1>1, <1>4, <2>2, MaskMoves
  <2> QED
    BY <2>1, <2>2
<1> QED
  BY <1>5 DEF g

(* q opens a level of the stream's own.                                     *)
LEMMA InsideSaved ==
    ASSUME NEW d, Paired(d), NEW f, CallerOK(d, f), f.pc <= Len(f.ops),
           f.ops[f.pc].op = "q", NEW s, InsideOK(d, f, s)
    PROVE  InsideOK(d, Next1(f), Saved(s))
<1> DEFINE g == Next1(f)
           t == Saved(s)
<1>1. /\ g.pc = f.pc + 1 /\ g.kind = f.kind /\ g.ops = f.ops
      /\ g.caller = f.caller /\ Ground(g) = Ground(f)
  BY NextFrame
<1>2. /\ Sound(t) /\ t.depth = s.depth /\ t.smask = s.smask
      /\ t.clipStack = Append(s.clipStack, s.clip)
      /\ t.smaskStack = Append(s.smaskStack, s.smask)
  BY SavedSound DEF InsideOK
<1> HIDE DEF g, t
<1>3. CASE f.kind \notin {"form", "tile"}
  BY <1>1, <1>2, <1>3 DEF InsideOK, g, t
<1>4. CASE f.kind \in {"form", "tile"}
  <2> DEFINE m == Len(f.caller.clipStack)
             n == Len(s.clipStack)
             G == Ground(f)
             L == Level(f.ops, f.pc - 1)
  <2>1. /\ f.pc \in Nat \ {0} /\ L \in Nat /\ G \in Nat /\ m \in Nat /\ m <= G
    BY <1>4, Grounded
  <2>2. n = G + L /\ IsSequence(s.clipStack) /\ IsSequence(s.smaskStack)
        /\ Len(s.smaskStack) = n /\ Above(s, f.caller) /\ s.depth = f.caller.depth + 1
    BY <1>4 DEF InsideOK, Sound
  <2>3. Level(g.ops, g.pc - 1) = L + 1
    <3>1. \A k \in Nat : f.ops[k + 1].op = "q" => Level(f.ops, k + 1) = Level(f.ops, k) + 1
      BY LevelStep
    <3>2. f.pc - 1 \in Nat /\ (f.pc - 1) + 1 = f.pc /\ (f.pc + 1) - 1 = f.pc
      BY <2>1
    <3> QED
      BY <1>1, <3>1, <3>2
  <2>4. /\ Len(t.clipStack) = n + 1 /\ Len(t.smaskStack) = n + 1
        /\ \A i \in 1 .. n : t.clipStack[i] = s.clipStack[i] /\ t.smaskStack[i] = s.smaskStack[i]
        /\ t.clipStack[n + 1] = s.clip /\ t.smaskStack[n + 1] = s.smask
    BY <1>2, <2>2, Pushing
  <2>5. f.kind = "form" => m + 1 = G
    BY DEF Ground
  <2>6. s.clipStack = s.clipStack /\ \A i \in 1 .. m :
           s.clipStack[i] = f.caller.clipStack[i] /\ s.smaskStack[i] = f.caller.smaskStack[i]
    BY <2>2 DEF Above
  <2>7. f.kind = "form" => s.clipStack[m + 1] = f.caller.clip /\ s.smaskStack[m + 1] = f.caller.smask
    BY DEF InsideOK, Holds
  <2>8. f.kind = "tile" /\ ~ MaskStays(d) =>
           (IF n = G THEN s.smask ELSE s.smaskStack[G + 1]) = f.caller.smask
    BY <2>2 DEF InsideOK, MaskAt
  <2> HIDE DEF m, n, G, L
  <2>9. Len(t.clipStack) = G + (L + 1)
    BY <2>1, <2>2, <2>4
  <2>10. \A i \in 1 .. m : i \in 1 .. n
    BY <2>1, <2>2
  <2>11. Above(t, f.caller)
    BY <2>4, <2>6, <2>10 DEF Above, m
  <2>12. f.kind = "form" => Holds(t, f.caller)
    <3>1. f.kind = "form" => m + 1 \in 1 .. n
      BY <2>1, <2>2, <2>5
    <3> QED
      BY <3>1, <2>4, <2>7 DEF Holds, m
  <2>13. f.kind = "tile" /\ ~ MaskStays(d) => MaskAt(t, G) = f.caller.smask
    <3>1. n + 1 # G
      BY <2>1, <2>2
    <3>2. n # G => G + 1 \in 1 .. n
      BY <2>1, <2>2
    <3> QED
      BY <3>1, <3>2, <2>4, <2>8 DEF MaskAt
  <2> QED
    BY <1>1, <1>2, <2>2, <2>3, <2>9, <2>11, <2>12, <2>13 DEF InsideOK, G, g, t
<1> QED
  BY <1>3, <1>4

(* Q closes one, and a stream in pairs closes none but its own.             *)
LEMMA InsideRestored ==
    ASSUME NEW d, Paired(d), NEW f, CallerOK(d, f), f.pc <= Len(f.ops),
           f.ops[f.pc].op = "Q", NEW s, InsideOK(d, f, s)
    PROVE  InsideOK(d, Next1(f), Restored(s))
<1> DEFINE g == Next1(f)
           t == Restored(s)
<1>1. /\ CallerOK(d, g) /\ g.pc = f.pc + 1 /\ g.kind = f.kind /\ g.ops = f.ops
      /\ g.caller = f.caller /\ Ground(g) = Ground(f)
  BY NextFrame
<1>2. /\ Sound(t) /\ t.depth = s.depth
      /\ s.clipStack # <<>> =>
            /\ t.smask = Last(s.smaskStack)
            /\ t.clipStack = Front(s.clipStack)
            /\ t.smaskStack = Front(s.smaskStack)
  BY RestoredSoundly DEF InsideOK
<1> HIDE DEF g, t
<1>3. CASE f.kind \notin {"form", "tile"}
  BY <1>1, <1>2, <1>3 DEF InsideOK, g, t
<1>4. CASE f.kind \in {"form", "tile"}
  <2> DEFINE m == Len(f.caller.clipStack)
             n == Len(s.clipStack)
             G == Ground(f)
             L == Level(f.ops, f.pc - 1)
             K == Level(g.ops, g.pc - 1)
  <2>1. /\ f.pc \in Nat \ {0} /\ L \in Nat /\ G \in Nat /\ m \in Nat /\ m <= G
    BY <1>4, Grounded
  <2>2. n = G + L /\ IsSequence(s.clipStack) /\ IsSequence(s.smaskStack)
        /\ Len(s.smaskStack) = n /\ Above(s, f.caller) /\ s.depth = f.caller.depth + 1
    BY <1>4 DEF InsideOK, Sound
  <2>3. K = L - 1 /\ K \in Nat
    <3>1. \A k \in Nat : f.ops[k + 1].op = "Q" => Level(f.ops, k + 1) = Level(f.ops, k) - 1
      BY LevelStep
    <3>2. f.pc - 1 \in Nat /\ (f.pc - 1) + 1 = f.pc /\ (f.pc + 1) - 1 = f.pc
      BY <2>1
    <3>3. K = L - 1
      BY <1>1, <3>1, <3>2
    <3>4. K \in Nat
      BY <1>1, <1>4, Grounded
    <3> QED
      BY <3>3, <3>4
  <2>4. f.kind = "form" => m + 1 = G
    BY DEF Ground
  <2>5. \A i \in 1 .. m :
           s.clipStack[i] = f.caller.clipStack[i] /\ s.smaskStack[i] = f.caller.smaskStack[i]
    BY <2>2 DEF Above
  <2>6. f.kind = "form" => s.clipStack[m + 1] = f.caller.clip /\ s.smaskStack[m + 1] = f.caller.smask
    BY DEF InsideOK, Holds
  <2>7. f.kind = "tile" /\ ~ MaskStays(d) =>
           (IF n = G THEN s.smask ELSE s.smaskStack[G + 1]) = f.caller.smask
    BY <2>2 DEF InsideOK, MaskAt
  <2>8. PICK p \in Nat : p = G + K
    BY <2>1, <2>3
  <2>9. n = p + 1 /\ n > 0
    BY <2>1, <2>2, <2>3, <2>8
  <2>10. s.clipStack # <<>>
    BY <2>2, <2>9, SequenceFacts
  <2>11. /\ Len(t.clipStack) = p /\ Len(t.smaskStack) = p
         /\ \A i \in 1 .. p : t.clipStack[i] = s.clipStack[i] /\ t.smaskStack[i] = s.smaskStack[i]
         /\ t.smask = s.smaskStack[p + 1]
    <3>1. ASSUME NEW w, IsSequence(w), Len(w) = n
          PROVE  /\ Len(Front(w)) = p
                 /\ \A i \in 1 .. p : Front(w)[i] = w[i]
                 /\ Last(w) = w[p + 1]
      <4>1. Len(w) > 0 /\ Len(w) - 1 = p /\ Len(w) = p + 1
        BY <2>9, <3>1
      <4> QED
        BY <3>1, <4>1, Popping
    <3>2. t.smask = Last(s.smaskStack) /\ t.clipStack = Front(s.clipStack)
          /\ t.smaskStack = Front(s.smaskStack)
      BY <1>2, <2>10
    <3>3. n = Len(s.clipStack)
      OBVIOUS
    <3> HIDE DEF n
    <3> QED
      BY <2>2, <3>1, <3>2, <3>3
  <2> HIDE DEF m, n, G, L, K
  <2>12. Above(t, f.caller)
    <3>1. \A i \in 1 .. m : i \in 1 .. p
      BY <2>1, <2>3, <2>8
    <3> QED
      BY <2>5, <2>11, <3>1 DEF Above, m
  <2>13. f.kind = "form" => Holds(t, f.caller)
    <3>1. f.kind = "form" => m + 1 \in 1 .. p
      BY <2>1, <2>3, <2>4, <2>8
    <3> QED
      BY <3>1, <2>6, <2>11 DEF Holds, m
  <2>14. f.kind = "tile" /\ ~ MaskStays(d) => MaskAt(t, G) = f.caller.smask
    <3>1. n # G
      BY <2>1, <2>3, <2>8, <2>9
    <3>2. p # G => G + 1 \in 1 .. p
      BY <2>1, <2>3, <2>8
    <3> QED
      BY <3>1, <3>2, <2>7, <2>11 DEF MaskAt
  <2>15. Len(t.clipStack) = Ground(g) + Level(g.ops, g.pc - 1)
    BY <1>1, <2>8, <2>11 DEF G, K
  <2> QED
    BY <1>1, <1>2, <2>2, <2>12, <2>13, <2>14, <2>15 DEF InsideOK, G, g, t
<1> QED
  BY <1>3, <1>4

-----------------------------------------------------------------------------
(* The innermost frame and the RenderState it runs on have moved.           *)
LEMMA ContainedSet ==
    ASSUME NEW d, NEW fs, IsSequence(fs), NEW s, Contained(d, fs, s),
           NEW n \in Nat \ {0}, Len(fs) = n,
           NEW gs, Len(gs) = n, \A i \in 1 .. n : i # n => gs[i] = fs[i],
           gs[n].kind = fs[n].kind, Before(gs[n]) = Before(fs[n]),
           CallerOK(d, gs[n]), NEW t, InsideOK(d, gs[n], t)
    PROVE  Contained(d, gs, t)
<1> SUFFICES ASSUME NEW i \in 1 .. n
             PROVE  /\ CallerOK(d, gs[i])
                    /\ InsideOK(d, gs[i], View(gs, t, i))
                    /\ i < n /\ gs[i + 1].kind = "smask" => AtMask(gs[i])
  BY DEF Contained
<1>1. CASE i = n
  BY <1>1 DEF View
<1>2. CASE i # n
  <2>1. gs[i] = fs[i] /\ i + 1 \in 1 .. n
    BY <1>2
  <2>2. Before(gs[i + 1]) = Before(fs[i + 1]) /\ gs[i + 1].kind = fs[i + 1].kind
    <3>1. CASE i + 1 = n
      BY <3>1
    <3>2. CASE i + 1 # n
      BY <2>1, <3>2
    <3> QED
      BY <3>1, <3>2
  <2>3. View(gs, t, i) = View(fs, s, i)
    BY <1>2, <2>2 DEF View
  <2> QED
    BY <2>1, <2>2, <2>3 DEF Contained
<1> QED
  BY <1>1, <1>2

(* A stream has begun over b, which it will leave behind.                   *)
LEMMA ContainedPush ==
    ASSUME NEW d, NEW fs, IsSequence(fs), NEW b, Contained(d, fs, b),
           NEW f, CallerOK(d, f), fs # <<>> => Before(f) = b, NEW t, InsideOK(d, f, t),
           f.kind = "smask" /\ fs # <<>> => AtMask(fs[Len(fs)])
    PROVE  Contained(d, Append(fs, f), t)
<1> DEFINE gs == Append(fs, f)
<1>1. PICK n \in Nat : Len(fs) = n
  BY SequenceFacts
<1>2. Len(gs) = n + 1 /\ gs[n + 1] = f /\ \A i \in 1 .. n : gs[i] = fs[i]
  BY <1>1, Pushing
<1> HIDE DEF gs
<1>3. ASSUME NEW i \in 1 .. n + 1
      PROVE  /\ CallerOK(d, gs[i])
             /\ InsideOK(d, gs[i], View(gs, t, i))
             /\ i < n + 1 /\ gs[i + 1].kind = "smask" => AtMask(gs[i])
  <2>1. CASE i = n + 1
    BY <1>2, <2>1 DEF View
  <2>2. CASE i = n
    <3>1. i \in 1 .. n /\ i # n + 1 /\ fs # <<>> /\ i = Len(fs)
      BY <1>1, <1>3, <2>2, SequenceFacts
    <3>2. gs[i] = fs[i] /\ gs[i + 1] = f
      BY <1>2, <2>2, <3>1
    <3>3. View(gs, t, i) = b /\ View(fs, b, i) = b
      BY <1>1, <1>2, <2>2, <3>1, <3>2 DEF View
    <3>4. f.kind = "smask" => AtMask(gs[i])
      BY <3>1, <3>2
    <3> QED
      BY <1>1, <3>1, <3>2, <3>3, <3>4 DEF Contained
  <2>3. CASE i \in 1 .. n /\ i # n
    <3>1. i + 1 \in 1 .. n /\ i # n + 1 /\ i < n
      BY <2>3
    <3>2. gs[i] = fs[i] /\ gs[i + 1] = fs[i + 1]
      BY <1>2, <2>3, <3>1
    <3>3. View(gs, t, i) = View(fs, b, i)
      BY <1>1, <1>2, <2>3, <3>1, <3>2 DEF View
    <3> QED
      BY <1>1, <2>3, <3>1, <3>2, <3>3 DEF Contained
  <2> QED
    BY <2>1, <2>2, <2>3
<1>4. Contained(d, gs, t)
  BY <1>2, <1>3 DEF Contained
<1> QED
  BY <1>4 DEF gs

(* A stream has ended over t, which is what it was to leave behind.         *)
LEMMA ContainedPop ==
    ASSUME NEW d, NEW fs, IsSequence(fs), NEW s, Contained(d, fs, s),
           Len(fs) > 0, NEW t,
           \A f : /\ CallerOK(d, f)
                  /\ InsideOK(d, f, Before(Last(fs)))
                  /\ Last(fs).kind = "smask" => AtMask(f)
                  => InsideOK(d, f, t)
    PROVE  Contained(d, Front(fs), t)
<1> DEFINE gs == Front(fs)
<1>1. PICK n \in Nat : Len(fs) = n + 1
  <2>1. Len(fs) - 1 \in Nat /\ Len(fs) = (Len(fs) - 1) + 1
    BY SequenceFacts
  <2> QED
    BY <2>1
<1>2. Len(gs) = n /\ Last(fs) = fs[n + 1] /\ \A i \in 1 .. n : gs[i] = fs[i]
  BY <1>1, Popping
<1> HIDE DEF gs
<1>3. ASSUME NEW i \in 1 .. n
      PROVE  /\ CallerOK(d, gs[i])
             /\ InsideOK(d, gs[i], View(gs, t, i))
             /\ i < n /\ gs[i + 1].kind = "smask" => AtMask(gs[i])
  <2>1. i \in 1 .. n + 1 /\ i < n + 1 /\ i # n + 1 /\ gs[i] = fs[i]
    BY <1>2
  <2>2. /\ CallerOK(d, fs[i])
        /\ InsideOK(d, fs[i], View(fs, s, i))
        /\ fs[i + 1].kind = "smask" => AtMask(fs[i])
    BY <1>1, <2>1 DEF Contained
  <2>3. View(fs, s, i) = Before(fs[i + 1])
    BY <1>1, <2>1 DEF View
  <2>4. CASE i = n
    BY <1>2, <2>1, <2>2, <2>3, <2>4 DEF View
  <2>5. CASE i # n
    <3>1. gs[i + 1] = fs[i + 1]
      BY <1>2, <2>5
    <3> QED
      BY <1>2, <2>1, <2>2, <2>3, <2>5, <3>1 DEF View
  <2> QED
    BY <2>4, <2>5
<1>4. Contained(d, gs, t)
  BY <1>2, <1>3 DEF Contained
<1> QED
  BY <1>4 DEF gs

-----------------------------------------------------------------------------
(* A document in pairs, a render that nothing has cut short: ...            *)
Live ==
    /\ ShapeInv
    /\ Paired(doc)
    /\ ~ cancelled
    /\ Parents(states, frames)
    /\ Sound(St)
    /\ Contained(doc, frames, St)

(* ... and what a step has to keep.                                         *)
Kept ==
    /\ Parents(states', frames')
    /\ Sound(Last(states'))
    /\ Contained(doc, frames', Last(states'))

(* The top of a stack pushed on.                                            *)
LEMMA LastPushed ==
    ASSUME NEW s, IsSequence(s), NEW e
    PROVE  Last(Append(s, e)) = e
<1> DEFINE t == Append(s, e)
<1>1. Len(s) \in Nat /\ IsSequence(t) /\ Len(t) = Len(s) + 1 /\ t[Len(s) + 1] = e
  BY SequenceFacts, Pushing
<1> HIDE DEF t
<1>2. Len(t) > 0
  BY <1>1
<1>3. Last(t) = t[Len(t)]
  BY <1>1, <1>2, Popping
<1> QED
  BY <1>1, <1>3 DEF t

(* The stacks of a live render.                                             *)
LEMMA LiveStacks ==
    ASSUME ShapeInv
    PROVE  /\ IsSequence(states) /\ Len(states) \in Nat \ {0} /\ Len(states) > 0
           /\ IsSequence(Front(states))
           /\ IsSequence(frames)
           /\ \A s : IsSequence(WithTop(s)) /\ Len(WithTop(s)) > 0 /\ Last(WithTop(s)) = s
<1>1. IsSequence(states) /\ IsSequence(frames) /\ Len(states) \in Nat \ {0}
  BY ShapeFacts DEF ShapeInv, Shape
<1>2. Len(states) > 0
  BY <1>1
<1>3. IsSequence(Front(states)) /\ Len(Front(states)) \in Nat
  BY <1>1, <1>2, Popping, SequenceFacts
<1>4. ASSUME NEW s PROVE IsSequence(WithTop(s)) /\ Len(WithTop(s)) > 0 /\ Last(WithTop(s)) = s
  <2> DEFINE f == Front(states)
  <2>1. IsSequence(f) /\ Len(f) \in Nat
    BY <1>3
  <2> HIDE DEF f
  <2>2. IsSequence(Append(f, s)) /\ Len(Append(f, s)) = Len(f) + 1 /\ Last(Append(f, s)) = s
    BY <2>1, Pushing, LastPushed
  <2>3. Len(Append(f, s)) > 0
    BY <2>1, <2>2
  <2> QED
    BY <2>2, <2>3 DEF WithTop, f
<1> QED
  BY <1>1, <1>2, <1>3, <1>4

(* The innermost frame of a live render.                                    *)
LEMMA LiveTop ==
    ASSUME Live, frames # <<>>
    PROVE  /\ Len(frames) \in Nat \ {0}
           /\ Top = frames[Len(frames)]
           /\ CallerOK(doc, Top)
           /\ InsideOK(doc, Top, St)
<1>1. Top = frames[Len(frames)] /\ Len(frames) \in Nat \ {0}
  BY Tops DEF Live
<1>2. Len(frames) \in 1 .. Len(frames)
  BY <1>1
<1> QED
  BY <1>1, <1>2 DEF Live, Contained, View

(* The frames when the innermost stream goes on over t.                     *)
LEMMA LiveAdvanced ==
    ASSUME Live, frames # <<>>, Running(Top), NEW t, InsideOK(doc, Next1(Top), t)
    PROVE  /\ IsSequence(Advanced) /\ Advanced # <<>>
           /\ Advanced[Len(Advanced)] = Next1(Top)
           /\ Contained(doc, Advanced, t)
           /\ \A ss : Parents(ss, frames) => Parents(ss, Advanced)
<1> DEFINE n == Len(frames)
           gs == Advanced
<1>1. n \in Nat \ {0} /\ Top = frames[n] /\ CallerOK(doc, Top) /\ IsSequence(frames)
  BY LiveTop, LiveStacks DEF Live
<1>2. Top.pc <= Len(Top.ops)
  BY DEF Running
<1>3. /\ CallerOK(doc, Next1(Top))
      /\ Next1(Top).kind = Top.kind /\ Next1(Top).caller = Top.caller
      /\ Before(Next1(Top)) = Before(Top)
  BY <1>1, <1>2, NextFrame
<1>4. /\ IsSequence(gs) /\ Len(gs) = n /\ gs[n] = Next1(Top)
      /\ \A i \in 1 .. n : i # n => gs[i] = frames[i]
  BY AdvancedShape DEF Live, Shape, Next1
<1> HIDE DEF gs
<1>5. gs # <<>>
  BY <1>1, <1>4, SequenceFacts
<1>6. Contained(doc, gs, t)
  BY <1>1, <1>3, <1>4, ContainedSet DEF Live
<1>7. \A i \in 1 .. n : gs[i].kind = frames[i].kind /\ gs[i].caller = frames[i].caller
  BY <1>1, <1>3, <1>4
<1>8. \A ss : Parents(ss, frames) => Parents(ss, gs)
  BY <1>4, <1>7, ParentsKept
<1> QED
  BY <1>4, <1>5, <1>6, <1>8 DEF gs

(* An operator that changes the RenderState only,                           *)
LEMMA LiveBecomes ==
    ASSUME Live, frames # <<>>, Running(Top), NEW s, Becomes(s), InsideOK(doc, Next1(Top), s)
    PROVE  Kept
<1>1. states' = WithTop(s) /\ frames' = Advanced
  BY DEF Becomes
<1>2. Last(states') = s
  BY <1>1, LiveStacks DEF Live
<1>3. Parents(WithTop(s), frames)
  <2>1. IsSequence(states) /\ Len(states) > 0 /\ IsSequence(frames)
    BY LiveStacks DEF Live
  <2> QED
    BY <2>1, ParentsReplace DEF Live, WithTop
<1>4. Parents(states', frames') /\ Contained(doc, frames', s)
  BY <1>1, <1>3, LiveAdvanced
<1>5. Sound(s)
  BY DEF InsideOK
<1> QED
  BY <1>2, <1>4, <1>5 DEF Kept

(* ... one that begins a stream on it, and will leave b,                    *)
LEMMA LiveBegins ==
    ASSUME Live, frames # <<>>, Running(Top), NEW b, InsideOK(doc, Next1(Top), b),
           NEW f, CallerOK(doc, f), f.kind \in {"form", "tile"}, Before(f) = b,
           NEW t, InsideOK(doc, f, t),
           states' = WithTop(t), frames' = Append(Advanced, f)
    PROVE  Kept
<1>1. Last(states') = t
  BY LiveStacks DEF Live
<1>2. Parents(WithTop(t), frames)
  <2>1. IsSequence(states) /\ Len(states) > 0 /\ IsSequence(frames)
    BY LiveStacks DEF Live
  <2> QED
    BY <2>1, ParentsReplace DEF Live, WithTop
<1>3. /\ IsSequence(Advanced) /\ Contained(doc, Advanced, b)
      /\ Parents(WithTop(t), Advanced)
  BY <1>2, LiveAdvanced
<1>4. Own(f) = 0 /\ f.kind # "smask"
  BY DEF Own
<1>5. Parents(states', frames')
  BY <1>3, <1>4, ParentsPush
<1>6. Contained(doc, frames', t)
  BY <1>3, <1>4, ContainedPush
<1>7. Sound(t)
  BY DEF InsideOK
<1> QED
  BY <1>1, <1>5, <1>6, <1>7 DEF Kept

(* ... and one that begins a stream on a RenderState of its own.            *)
LEMMA LiveBeginsOwn ==
    ASSUME Live, frames # <<>>, Running(Top), NEW b, InsideOK(doc, Next1(Top), b),
           NEW f, CallerOK(doc, f), f.kind \in {"group", "smask"}, f.outer = <<>>, f.caller = b,
           f.kind = "smask" => AtMask(Next1(Top)),
           NEW t, Sound(t), NEW ss, IsSequence(ss), Len(ss) > 0, Last(ss) = b, Parents(ss, frames),
           states' = Append(ss, t), frames' = Append(Advanced, f)
    PROVE  Kept
<1>1. Last(states') = t
  BY LastPushed
<1>2. /\ IsSequence(Advanced) /\ Advanced # <<>> /\ Advanced[Len(Advanced)] = Next1(Top)
      /\ Contained(doc, Advanced, b) /\ Parents(ss, Advanced)
  BY LiveAdvanced
<1>3. Own(f) = 1
  BY DEF Own
<1>4. Parents(states', frames')
  BY <1>2, <1>3, ParentsPushOwn
<1>5. InsideOK(doc, f, t) /\ Before(f) = b
  BY DEF InsideOK, Before
<1>6. Contained(doc, frames', t)
  BY <1>2, <1>5, ContainedPush
<1> QED
  BY <1>1, <1>4, <1>6 DEF Kept

-----------------------------------------------------------------------------
(* An operator of these names is dispatched.                                *)
LEMMA DueFacts ==
    ASSUME NEW operators, Due(operators)
    PROVE  /\ frames # <<>> /\ Running(Top) /\ Top.pc <= Len(Top.ops)
           /\ Top.ops[Top.pc].op \in operators
BY DEF Due, Running

(* One that leaves the levels alone.                                        *)
LEMMA InsideQuiet ==
    ASSUME Live, NEW operators, Due(operators), "q" \notin operators, "Q" \notin operators,
           NEW s, Sound(s), SameLevels(St, s), s.smask = St.smask \/ operators = {"gs"}
    PROVE  InsideOK(doc, Next1(Top), s)
<1>1. /\ frames # <<>> /\ Top.pc <= Len(Top.ops)
      /\ Top.ops[Top.pc].op \in operators
  BY DueFacts
<1>2. CallerOK(doc, Top) /\ InsideOK(doc, Top, St) /\ Paired(doc)
  BY <1>1, LiveTop DEF Live
<1>3. Top.ops[Top.pc].op \notin {"q", "Q"}
  BY <1>1
<1>4. s.smask = St.smask \/ Top.ops[Top.pc].op = "gs"
  BY <1>1
<1> QED
  BY <1>1, <1>2, <1>3, <1>4, InsideNext

(* Such an operator keeps what was left where it is.                        *)
LEMMA LiveQuiet ==
    ASSUME Live, NEW operators, Due(operators), "q" \notin operators, "Q" \notin operators,
           NEW s, Sound(s), SameLevels(St, s), s.smask = St.smask \/ operators = {"gs"},
           Becomes(s)
    PROVE  Kept
<1>1. frames # <<>> /\ Running(Top)
  BY DueFacts
<1>2. InsideOK(doc, Next1(Top), s)
  BY InsideQuiet
<1> QED
  BY <1>1, <1>2, LiveBecomes

(* The fields of a frame begun.                                             *)
LEMMA FrameBegun ==
    ASSUME doc \in Documents, NEW o \in DOMAIN doc.objects, NEW caller, StateOK(doc, caller),
           NEW kind, NEW nth, NEW operator, NEW outer
    PROVE  LET f == Frame(kind, o, caller, nth, operator, outer)
           IN /\ FrameOK(doc, f)
              /\ f.kind = kind /\ f.object = o /\ f.ops = doc.objects[o].ops /\ f.pc = 1
              /\ f.caller = caller /\ f.outer = outer /\ f.pc <= Len(f.ops) + 1
<1> DEFINE f == Frame(kind, o, caller, nth, operator, outer)
<1>1. FrameOK(doc, f)
  BY FramesOK
<1>2. /\ f.kind = kind /\ f.object = o /\ f.ops = doc.objects[o].ops /\ f.pc = 1
      /\ f.caller = caller /\ f.outer = outer
  BY DEF Frame
<1>3. Len(f.ops) \in Nat
  BY <1>1, SequenceFacts DEF FrameOK
<1>4. 1 <= Len(f.ops) + 1
  BY <1>3
<1> HIDE DEF f
<1> QED
  BY <1>1, <1>2, <1>4 DEF f

(* A form, a group or a soft mask begun by an operator.                     *)
LEMMA CallerBegun ==
    ASSUME doc \in Documents, NEW o \in DOMAIN doc.objects, NEW c, StateOK(doc, c), Sound(c),
           NEW kind \in {"form", "group", "smask"}, NEW nth, NEW operator
    PROVE  LET f == Frame(kind, o, c, nth, operator, <<>>)
           IN /\ CallerOK(doc, f)
              /\ f.kind = kind /\ f.caller = c /\ f.outer = <<>> /\ f.pc = 1
              /\ Before(f) = c
<1> DEFINE f == Frame(kind, o, c, nth, operator, <<>>)
<1>1. /\ FrameOK(doc, f)
      /\ f.kind = kind /\ f.object = o /\ f.ops = doc.objects[o].ops /\ f.pc = 1
      /\ f.caller = c /\ f.outer = <<>> /\ f.pc <= Len(f.ops) + 1
  <2>1. FrameOK(doc, f)
    BY FramesOK
  <2>2. /\ f.kind = kind /\ f.object = o /\ f.ops = doc.objects[o].ops /\ f.pc = 1
        /\ f.caller = c /\ f.outer = <<>>
    BY DEF Frame
  <2> HIDE DEF f
  <2>3. Len(f.ops) \in Nat
    BY <2>1, SequenceFacts DEF FrameOK
  <2>4. 1 <= Len(f.ops) + 1
    BY <2>3
  <2> QED
    BY <2>1, <2>2, <2>4
<1> HIDE DEF f
<1>2. CallerOK(doc, f)
  BY <1>1 DEF CallerOK
<1> QED
  BY <1>1, <1>2 DEF f, Before

(* The RenderState a form starts on,                                        *)
LEMMA FormInside ==
    ASSUME NEW d, NEW f, f.kind = "form", f.pc = 1, Sound(f.caller), NEW o
    PROVE  InsideOK(d, f, EnterForm(f.caller, o))
<1> DEFINE s == EnterForm(f.caller, o)
<1>1. /\ Sound(s) /\ s.depth = f.caller.depth + 1
      /\ Len(s.clipStack) = Len(f.caller.clipStack) + 1
      /\ Above(s, f.caller) /\ Holds(s, f.caller)
  BY FormEntered
<1> HIDE DEF s
<1>2. Level(f.ops, f.pc - 1) = 0
  BY LevelStart
<1>3. Len(f.caller.clipStack) \in Nat
  BY SequenceFacts DEF Sound
<1>4. Ground(f) = Len(f.caller.clipStack) + 1
  BY DEF Ground
<1>5. Len(s.clipStack) = Ground(f) + Level(f.ops, f.pc - 1)
  BY <1>1, <1>2, <1>3, <1>4
<1> QED
  BY <1>1, <1>5 DEF InsideOK, s

(* ... and the RenderState a tile starts on.                                *)
LEMMA TileInside ==
    ASSUME NEW d, NEW f, f.kind = "tile", f.pc = 1, Sound(f.caller), NEW o, NEW nth
    PROVE  InsideOK(d, f, EnterTile(f.caller, o, nth))
<1> DEFINE s == EnterTile(f.caller, o, nth)
<1>1. /\ Sound(s) /\ s.depth = f.caller.depth + 1
      /\ s.clipStack = f.caller.clipStack /\ s.smaskStack = f.caller.smaskStack
      /\ s.smask = f.caller.smask
  BY TileEntered
<1> HIDE DEF s
<1>2. Level(f.ops, f.pc - 1) = 0
  BY LevelStart
<1>3. Len(f.caller.clipStack) \in Nat /\ Len(f.caller.smaskStack) = Len(f.caller.clipStack)
  BY SequenceFacts DEF Sound
<1>4. Ground(f) = Len(f.caller.clipStack)
  <2>1. Ground(f) = Len(f.caller.clipStack) + 0
    BY DEF Ground
  <2> QED
    BY <1>3, <2>1
<1>5. Len(s.clipStack) = Ground(f) + Level(f.ops, f.pc - 1)
  BY <1>1, <1>2, <1>3, <1>4
<1>6. Above(s, f.caller) /\ MaskAt(s, Ground(f)) = f.caller.smask
  BY <1>1, <1>3, <1>4 DEF Above, MaskAt
<1> QED
  BY <1>1, <1>5, <1>6 DEF InsideOK, s

-----------------------------------------------------------------------------
(* Quiet operators.                                                         *)
LEMMA LiveStill ==
    ASSUME Live, NEW operators, Due(operators), "q" \notin operators, "Q" \notin operators,
           NEW s, Quiet(St, s), Becomes(s)
    PROVE  Kept
BY LiveQuiet DEF Quiet

(* A soft mask set on a sound RenderState.                                  *)
LEMMA MaskSet ==
    ASSUME NEW s, Sound(s), NEW v
    PROVE  LET t == [s EXCEPT !.smask = v]
           IN /\ Sound(t)
              /\ SameLevels(s, t)
              /\ t.gs = s.gs /\ t.clip = s.clip /\ t.blend = s.blend
              /\ t.res = s.res /\ t.base = s.base
BY DEF Sound, SameLevels, StateFields

(* The operators that stay in their stream keep what was left where it is.  *)
LEMMA LivePainting ==
    ASSUME Live,
           \/ ConstructPath \/ MarkClip \/ EndPath \/ Stroke \/ Fill \/ SkipPattern
           \/ Save \/ Restore \/ ConcatMatrix \/ SetFill \/ Show \/ SkipName
    PROVE  Kept
<1>1. Sound(St)
  BY DEF Live
<1>2. \A v : /\ Quiet(St, St)
             /\ Quiet(St, [St EXCEPT !.path = v])
             /\ Quiet(St, [St EXCEPT !.pending = v])
             /\ Quiet(St, [St EXCEPT !.gs.ctm = v])
             /\ Quiet(St, [St EXCEPT !.gs.fill = v])
  BY <1>1, QuietFields
<1>3. \A s, v : Sound(s) => /\ Quiet(s, Marked(s, v))
                           /\ Quiet(s, PaintPath(s, v))
                           /\ Quiet(s, Cleared(s))
                           /\ Quiet(s, ApplyPendingClip(s))
                           /\ Quiet(s, AfterFill(s, v))
  BY QuietSteps
<1>4. \A s, t, u : Quiet(s, t) /\ Quiet(t, u) => Quiet(s, u)
  BY QuietTwice
<1>5. \A s, t : Quiet(s, t) => Sound(t)
  BY DEF Quiet
<1>6. CASE ConstructPath
  <2>1. Due({"re"}) /\ Becomes([St EXCEPT !.path = Append(@, Arg)])
    BY <1>6 DEF ConstructPath
  <2> QED
    BY <2>1, <1>2, LiveStill
<1>7. CASE MarkClip
  <2>1. Due({"W"}) /\ Becomes([St EXCEPT !.pending = TRUE])
    BY <1>7 DEF MarkClip
  <2> QED
    BY <2>1, <1>2, LiveStill
<1>8. CASE EndPath
  <2> DEFINE s == Cleared(ApplyPendingClip(St))
  <2>1. Due({"n"}) /\ Becomes(s)
    BY <1>8 DEF EndPath
  <2>2. Quiet(St, s)
    BY <1>1, <1>3, <1>4, <1>5
  <2> HIDE DEF s
  <2> QED
    BY <2>1, <2>2, LiveStill
<1>9. CASE Stroke
  <2> DEFINE s == Cleared(PaintPath(ApplyPendingClip(St), "stroke"))
  <2>1. Due({"S"}) /\ Becomes(s)
    BY <1>9 DEF Stroke
  <2>2. Quiet(St, s)
    <3>1. Quiet(St, ApplyPendingClip(St))
      BY <1>1, <1>3
    <3>2. Quiet(St, PaintPath(ApplyPendingClip(St), "stroke"))
      BY <1>3, <1>4, <1>5, <3>1
    <3> QED
      BY <1>3, <1>4, <1>5, <3>2
  <2> HIDE DEF s
  <2> QED
    BY <2>1, <2>2, LiveStill
<1>10. CASE Fill
  <2> DEFINE u == ApplyPendingClip(St)
             w == PaintPath(u, u.gs.fill)
             s == AfterFill(w, Top.ops[Top.pc].op)
  <2>1. Due({"f", "B"}) /\ Becomes(s)
    BY <1>10 DEF Fill
  <2>2. Quiet(St, s)
    <3>1. Quiet(St, u)
      BY <1>1, <1>3
    <3>2. Quiet(St, w)
      BY <1>3, <1>4, <1>5, <3>1
    <3> HIDE DEF w
    <3> QED
      BY <1>3, <1>4, <1>5, <3>2
  <2> HIDE DEF s
  <2> QED
    BY <2>1, <2>2, LiveStill
<1>11. CASE SkipPattern
  <2> DEFINE s == AfterFill(ApplyPendingClip(St), Top.ops[Top.pc].op)
  <2>1. Due({"f", "B"}) /\ Becomes(s)
    BY <1>11 DEF SkipPattern
  <2>2. Quiet(St, s)
    BY <1>1, <1>3, <1>4, <1>5
  <2> HIDE DEF s
  <2> QED
    BY <2>1, <2>2, LiveStill
<1>12. CASE Save \/ Restore
  <2>1. /\ frames # <<>> /\ Running(Top) /\ Top.pc <= Len(Top.ops)
        /\ \/ Top.ops[Top.pc].op = "q" /\ Becomes(Saved(St))
           \/ Top.ops[Top.pc].op = "Q" /\ Becomes(Restored(St))
    BY <1>12 DEF Save, Restore, Due, Running
  <2>2. CallerOK(doc, Top) /\ InsideOK(doc, Top, St) /\ Paired(doc)
    BY <2>1, LiveTop DEF Live
  <2>3. CASE Top.ops[Top.pc].op = "q" /\ Becomes(Saved(St))
    BY <2>1, <2>2, <2>3, InsideSaved, LiveBecomes
  <2>4. CASE Top.ops[Top.pc].op = "Q" /\ Becomes(Restored(St))
    BY <2>1, <2>2, <2>4, InsideRestored, LiveBecomes
  <2> QED
    BY <2>1, <2>3, <2>4
<1>13. CASE ConcatMatrix
  <2>1. Due({"cm"}) /\ Becomes([St EXCEPT !.gs.ctm = Append(@, Transform(Arg, 0))])
    BY <1>13 DEF ConcatMatrix
  <2> QED
    BY <2>1, <1>2, LiveStill
<1>14. CASE SetFill
  <2>1. Due({"scn"}) /\ Becomes([St EXCEPT !.gs.fill = Arg])
    BY <1>14 DEF SetFill
  <2> QED
    BY <2>1, <1>2, LiveStill
<1>15. CASE Show
  <2>1. Due({"show", "sh"}) /\ Becomes(Marked(St, Arg))
    BY <1>15 DEF Show
  <2> QED
    BY <2>1, <1>1, <1>3, LiveStill
<1>16. CASE SkipName
  <2>1. Due({"Do", "gs"}) /\ Becomes(St)
    BY <1>16 DEF SkipName
  <2> QED
    BY <2>1, <1>2, LiveStill
<1> QED
  BY <1>6, <1>7, <1>8, <1>9, <1>10, <1>11, <1>12, <1>13, <1>14, <1>15, <1>16

(* gs, with or without a soft mask to draw.                                 *)
LEMMA LiveParameters ==
    ASSUME Live, SetGraphicsState \/ BeginSoftMask
    PROVE  Kept
<1>1. Sound(St) /\ StateOK(doc, St) /\ doc \in Documents
  BY Tops DEF Live, ShapeInv
<1>2. ASSUME NEW g PROVE Quiet(St, WithParameters(St, g))
  BY <1>1, QuietSteps
<1>3. CASE SetGraphicsState
  <2> DEFINE s == WithParameters(St, doc.objects[St.res[Arg]])
  <2>1. Due({"gs"}) /\ (Becomes(s) \/ Becomes([s EXCEPT !.smask = <<>>]))
    BY <1>3 DEF SetGraphicsState
  <2>2. Quiet(St, s)
    BY <1>2
  <2> HIDE DEF s
  <2>3. LET t == [s EXCEPT !.smask = <<>>] IN Sound(t) /\ SameLevels(St, t)
    BY <2>2, MaskSet DEF Quiet, SameLevels
  <2> QED
    BY <2>1, <2>2, <2>3, LiveQuiet DEF Quiet
<1>4. CASE BeginSoftMask
  <2> DEFINE o == doc.objects[St.res[Arg]].smask
             s == WithParameters(St, doc.objects[St.res[Arg]])
             child == ChildState(s, o, <<>>, {})
             f == Frame("smask", o, s, 0, "", <<>>)
  <2>1. /\ states' = Append(WithTop(s), child)
        /\ frames' = Append(Advanced, f)
        /\ Due({"gs"}) /\ o \in DOMAIN doc.objects
    BY <1>4 DEF BeginSoftMask
  <2>2. Quiet(St, s)
    BY <1>2
  <2>3. StateOK(doc, s)
    BY <1>1 DEF StateOK, WithParameters, Synced
  <2> HIDE DEF s, o
  <2>4. Sound(child) /\ Sound(s)
    BY <2>2, ChildSound DEF Quiet
  <2>5. CallerOK(doc, f) /\ f.kind = "smask" /\ f.caller = s /\ f.outer = <<>>
    <3>1. o \in DOMAIN doc.objects /\ doc \in Documents /\ StateOK(doc, s) /\ Sound(s)
      BY <1>1, <2>1, <2>3, <2>4
    <3> HIDE DEF f
    <3>2. \A nth, operator :
             LET g == Frame("smask", o, s, nth, operator, <<>>)
             IN /\ CallerOK(doc, g) /\ g.kind = "smask" /\ g.caller = s /\ g.outer = <<>>
      BY <3>1, CallerBegun
    <3> QED
      BY <3>2 DEF f
  <2> HIDE DEF child, f
  <2>6. /\ frames # <<>> /\ Running(Top) /\ Top.pc <= Len(Top.ops)
        /\ Top.ops[Top.pc].op = "gs"
    BY <2>1, DueFacts
  <2>7. AtMask(Next1(Top))
    BY <2>6, LiveTop, NextFrame
  <2>8. InsideOK(doc, Next1(Top), s)
    BY <2>1, <2>2, InsideQuiet DEF Quiet
  <2>9. /\ IsSequence(WithTop(s)) /\ Len(WithTop(s)) > 0 /\ Last(WithTop(s)) = s
        /\ IsSequence(states) /\ Len(states) > 0 /\ IsSequence(frames)
    BY LiveStacks DEF Live
  <2>10. Parents(WithTop(s), frames)
    BY <2>9, ParentsReplace DEF Live, WithTop
  <2> QED
    BY <2>1, <2>4, <2>5, <2>6, <2>7, <2>8, <2>9, <2>10, LiveBeginsOwn
<1> QED
  BY <1>3, <1>4

(* Do, on a form that cannot be decoded, on one that can, and on a group.   *)
LEMMA LiveObjects ==
    ASSUME Live, DoBrokenForm \/ DoForm \/ DoGroup
    PROVE  Kept
<1>1. Sound(St) /\ StateOK(doc, St) /\ doc \in Documents /\ ShapeInv
  BY Tops DEF Live, ShapeInv
<1> DEFINE o == St.res[Arg]
<1>2. Due({"Do"}) /\ o \in DOMAIN doc.objects
  BY <1>1, NamedObject DEF DoBrokenForm, DoForm, DoGroup
<1>3. frames # <<>> /\ Running(Top)
  BY <1>2, DueFacts
<1>4. InsideOK(doc, Next1(Top), St)
  BY <1>1, <1>2, InsideQuiet DEF SameLevels
<1>5. \A kind \in {"form", "group"} : \A nth, operator :
         LET f == Frame(kind, o, St, nth, operator, <<>>)
         IN /\ CallerOK(doc, f) /\ f.kind = kind /\ f.caller = St /\ f.outer = <<>>
            /\ f.pc = 1 /\ Before(f) = St
  <2> HIDE DEF o
  <2> QED
    BY <1>1, <1>2, CallerBegun
<1>6. CASE DoBrokenForm
  <2> DEFINE t == EnterForm(St, o)
             s == CleanupAfterForm(t, St)
  <2>1. Becomes(s)
    BY <1>6 DEF DoBrokenForm
  <2>2. /\ Sound(t) /\ t.depth = St.depth + 1
        /\ Len(t.clipStack) = Len(St.clipStack) + 1 /\ Above(t, St) /\ Holds(t, St)
    BY <1>1, FormEntered
  <2> HIDE DEF t
  <2>3. Restores(St, s) /\ s.smask = St.smask
    BY <1>1, <2>2, FormLeft
  <2> HIDE DEF s
  <2>4. Sound(s) /\ SameLevels(St, s)
    BY <1>1, <2>3, RestoredSound DEF Restores
  <2> QED
    BY <1>2, <2>1, <2>3, <2>4, LiveQuiet
<1>7. CASE DoForm
  <2> DEFINE f == Frame("form", o, St, 0, "", <<>>)
             t == EnterForm(St, o)
  <2>1. states' = WithTop(t) /\ frames' = Append(Advanced, f)
    BY <1>7 DEF DoForm
  <2>2. /\ CallerOK(doc, f) /\ f.kind = "form" /\ f.caller = St /\ f.pc = 1 /\ Before(f) = St
    BY <1>5
  <2> HIDE DEF f, o
  <2>3. InsideOK(doc, f, t)
    BY <1>1, <2>2, FormInside
  <2> HIDE DEF t
  <2> QED
    BY <1>3, <1>4, <2>1, <2>2, <2>3, LiveBegins
<1>8. CASE DoGroup
  <2> DEFINE f == Frame("group", o, St, 0, "", <<>>)
             child == ChildState(St, o, Backdrop(St, o), St.clip)
  <2>1. states' = Append(states, child) /\ frames' = Append(Advanced, f)
    BY <1>8 DEF DoGroup
  <2>2. /\ CallerOK(doc, f) /\ f.kind = "group" /\ f.caller = St /\ f.outer = <<>>
    BY <1>5
  <2> HIDE DEF f, o
  <2>3. Sound(child)
    BY <1>1, ChildSound
  <2> HIDE DEF child
  <2>4. IsSequence(states) /\ Len(states) > 0 /\ Last(states) = St /\ Parents(states, frames)
    BY <1>1, LiveStacks DEF Live, St
  <2> QED
    BY <1>3, <1>4, <2>1, <2>2, <2>3, <2>4, LiveBeginsOwn
<1> QED
  BY <1>6, <1>7, <1>8

(* A fill with a tiling pattern.                                            *)
LEMMA LivePattern ==
    ASSUME Live, FillPattern
    PROVE  Kept
<1>1. Sound(St) /\ StateOK(doc, St) /\ doc \in Documents /\ ShapeInv
  BY Tops DEF Live, ShapeInv
<1> DEFINE s == ApplyPendingClip(St)
           o == s.res[s.gs.fill]
           clipped == [s EXCEPT !.clip = @ \cup {Region(s.path, s.gs.ctm)}]
           f == Frame("tile", o, clipped, 1, Top.ops[Top.pc].op, <<s>>)
           t == EnterTile(clipped, o, 1)
<1>2. /\ states' = WithTop(t) /\ frames' = Append(Advanced, f)
      /\ Due({"f", "B"}) /\ CanTile(St)
  BY DEF FillPattern
<1>3. Quiet(St, s)
  BY <1>1, QuietSteps
<1>4. s.res = St.res /\ s.gs = St.gs
  BY <1>1 DEF StateOK, ApplyPendingClip, Sound, StateFields
<1>5. o \in DOMAIN doc.objects /\ doc.objects[o].kind = "tiling"
  BY <1>1, <1>2, <1>4 DEF CanTile, StateOK, NamesObjects
<1> HIDE DEF s
<1>6. Sound(s) /\ DOMAIN s = StateFields
  BY <1>3 DEF Quiet, Sound
<1>7. /\ Quiet(s, clipped)
      /\ clipped.gs = s.gs /\ clipped.res = s.res /\ clipped.base = s.base
  <2>1. \A v : Quiet(s, [s EXCEPT !.clip = v])
    BY <1>6, QuietFields
  <2>2. \A v : LET u == [s EXCEPT !.clip = v]
               IN u.gs = s.gs /\ u.res = s.res /\ u.base = s.base
    BY <1>6 DEF StateFields
  <2> QED
    BY <2>1, <2>2
<1>8. StateOK(doc, clipped)
  BY <1>1, <1>4, <1>6, <1>7 DEF StateOK, Quiet, Sound, StateFields
<1> HIDE DEF o, clipped
<1>9. /\ FrameOK(doc, f) /\ f.kind = "tile" /\ f.object = o /\ f.ops = doc.objects[o].ops
      /\ f.pc = 1 /\ f.caller = clipped /\ f.outer = <<s>> /\ f.pc <= Len(f.ops) + 1
  BY <1>1, <1>5, <1>8, FrameBegun
<1>10. <<s>> # <<>> /\ <<s>>[1] = s
  OBVIOUS
<1> HIDE DEF f
<1>11. CallerOK(doc, f) /\ Before(f) = s
  <2>1. f.outer # <<>> /\ f.outer[1] = s
    BY <1>9, <1>10
  <2>2. Sound(clipped) /\ SameLevels(s, clipped) /\ clipped.smask = s.smask
    BY <1>7 DEF Quiet
  <2> QED
    BY <1>5, <1>6, <1>7, <1>9, <2>1, <2>2 DEF CallerOK, Before
<1>12. InsideOK(doc, f, t)
  BY <1>7, <1>9, TileInside DEF Quiet
<1> HIDE DEF t
<1>13. InsideOK(doc, Next1(Top), s)
  BY <1>2, <1>3, InsideQuiet DEF Quiet
<1>14. frames # <<>> /\ Running(Top)
  BY <1>2, DueFacts
<1> QED
  BY <1>2, <1>9, <1>11, <1>12, <1>13, <1>14, LiveBegins

(* Every operator does.                                                     *)
LEMMA LiveOperator ==
    ASSUME Live, Operator
    PROVE  Kept
BY LivePainting, LiveParameters, LiveObjects, LivePattern DEF Operator

-----------------------------------------------------------------------------
(* What an operator that ran a stream of this kind may leave behind of the  *)
(* RenderState b.                                                           *)
Leaves(b, kind, t) ==
    /\ Restores(b, t)
    /\ \/ kind = "smask"
       \/ kind = "tile" /\ MaskStays(doc)
       \/ t.smask = b.smask

(* What has to be left behind is sound.                                     *)
LEMMA BeforeSound ==
    ASSUME NEW d, NEW f, CallerOK(d, f), f.kind # "page"
    PROVE  Sound(Before(f))
BY DEF CallerOK, Before

(* The innermost stream ends and leaves t behind, on the RenderState of its *)
(* caller.                                                                  *)
LEMMA LiveLeaves ==
    ASSUME Live, frames # <<>>, Top.kind # "page", NEW t, Leaves(Before(Top), Top.kind, t),
           states' = Append(IF Own(Top) = 1 THEN Front(Front(states)) ELSE Front(states), t),
           frames' = Front(frames)
    PROVE  Kept
<1>1. /\ IsSequence(states) /\ Len(states) \in Nat \ {0} /\ Len(states) > 0
      /\ IsSequence(frames) /\ IsSequence(Front(states))
  BY LiveStacks DEF Live
<1>2. /\ CallerOK(doc, Top) /\ Len(frames) > 0 /\ Top = Last(frames) /\ Paired(doc)
      /\ Parents(states, frames) /\ Contained(doc, frames, St)
  <2>1. Len(frames) \in Nat \ {0} /\ CallerOK(doc, Top)
    BY LiveTop
  <2> QED
    BY <2>1 DEF Live, Top
<1>3. Sound(t) /\ SameLevels(Before(Top), t)
  BY <1>2, BeforeSound, RestoredSound DEF Leaves, Restores
<1>4. Contained(doc, frames', t)
  <2>1. ASSUME NEW f, CallerOK(doc, f), InsideOK(doc, f, Before(Top)),
               Top.kind = "smask" => AtMask(f)
        PROVE  InsideOK(doc, f, t)
    <3>1. CASE Top.kind = "smask"
      BY <1>2, <1>3, <2>1, <3>1, MaskMoves
    <3>2. CASE Top.kind # "smask"
      <4>1. t.smask = Before(Top).smask \/ MaskStays(doc)
        BY <3>2 DEF Leaves
      <4> QED
        BY <1>3, <2>1, <4>1, InsideKept
    <3> QED
      BY <3>1, <3>2
  <2>2. Contained(doc, Front(frames), t)
    BY <1>1, <1>2, <2>1, ContainedPop
  <2> QED
    BY <2>2
<1>5. IsSequence(Front(frames))
  BY <1>1, <1>2, Popping
<1>6. CASE Own(Top) = 1
  <2> DEFINE ss == Front(states)
  <2>1. IsSequence(ss) /\ Len(ss) = Len(states) - 1
        /\ \A i \in 1 .. Len(states) - 1 : ss[i] = states[i]
    BY <1>1, Popping
  <2> HIDE DEF ss
  <2>2. Len(ss) = Len(states) - Own(Last(frames)) /\ \A i \in 1 .. Len(ss) : ss[i] = states[i]
    BY <1>2, <1>6, <2>1
  <2>3. Parents(ss, Front(frames)) /\ Len(ss) > 0
    BY <1>1, <1>2, <1>6, <2>1, <2>2, ParentsPop
  <2>4. Parents(Append(Front(ss), t), Front(frames))
    BY <1>5, <2>1, <2>3, ParentsReplace
  <2>5. IsSequence(Front(ss))
    BY <2>1, <2>3, Popping
  <2>6. states' = Append(Front(ss), t)
    BY <1>6 DEF ss
  <2>7. Last(states') = t
    BY <2>5, <2>6, LastPushed
  <2> QED
    BY <1>3, <1>4, <2>4, <2>6, <2>7 DEF Kept
<1>7. CASE Own(Top) # 1
  <2>1. Own(Last(frames)) = 0
    BY <1>2, <1>7 DEF Own
  <2>2. Len(states) = Len(states) - Own(Last(frames))
    BY <1>1, <2>1
  <2>3. Parents(states, Front(frames))
    BY <1>1, <1>2, <2>2, ParentsPop
  <2>4. Parents(Append(Front(states), t), Front(frames))
    BY <1>1, <1>5, <2>3, ParentsReplace
  <2>5. states' = Append(Front(states), t)
    BY <1>7
  <2>6. Last(states') = t
    BY <1>1, <2>5, LastPushed
  <2> QED
    BY <1>3, <1>4, <2>4, <2>5, <2>6 DEF Kept
<1> QED
  BY <1>6, <1>7

(* Below the RenderState of a group or a soft mask is its caller's.         *)
LEMMA CallerBelow ==
    ASSUME Live, frames # <<>>, Own(Top) = 1
    PROVE  Last(Front(states)) = Top.caller
<1>1. /\ IsSequence(states) /\ Len(states) \in Nat \ {0} /\ Len(states) > 0
      /\ IsSequence(frames)
  BY LiveStacks DEF Live
<1>2. Len(frames) > 0 /\ Top = Last(frames) /\ Parents(states, frames)
  <2>1. Len(frames) \in Nat \ {0}
    BY LiveTop
  <2> QED
    BY <2>1 DEF Live, Top
<1> DEFINE ss == Front(states)
<1>3. IsSequence(ss) /\ Len(ss) = Len(states) - 1
      /\ \A i \in 1 .. Len(states) - 1 : ss[i] = states[i]
  BY <1>1, Popping
<1> HIDE DEF ss
<1>4. Len(ss) = Len(states) - Own(Last(frames)) /\ \A i \in 1 .. Len(ss) : ss[i] = states[i]
  BY <1>2, <1>3
<1>5. Last(ss) = Top.caller
  BY <1>1, <1>2, <1>3, <1>4, ParentsPop
<1> QED
  BY <1>5 DEF ss

(* The stack under a RenderState and its caller's.                          *)
LEMMA TwiceBelow ==
    ASSUME Live, frames # <<>>, Own(Top) = 1, NEW t,
           states' = Append(Front(Front(states)), t)
    PROVE  Last(states') = t
<1>1. /\ IsSequence(states) /\ Len(states) \in Nat \ {0} /\ Len(states) > 0
      /\ IsSequence(frames)
  BY LiveStacks DEF Live
<1>2. Len(frames) > 0 /\ Top = Last(frames) /\ Fits(frames, Len(states))
  <2>1. Len(frames) \in Nat \ {0}
    BY LiveTop
  <2> QED
    BY <2>1 DEF Live, Top, ShapeInv, Shape
<1>3. Len(states) - 1 \in Nat \ {0}
  BY <1>1, <1>2, FitsPop
<1> DEFINE ss == Front(states)
<1>4. IsSequence(ss) /\ Len(ss) = Len(states) - 1
  BY <1>1, Popping
<1> HIDE DEF ss
<1>5. Len(ss) > 0
  BY <1>3, <1>4
<1>6. IsSequence(Front(ss))
  BY <1>4, <1>5, Popping
<1>7. states' = Append(Front(ss), t)
  BY DEF ss
<1> QED
  BY <1>6, <1>7, LastPushed

(* At its end a stream in pairs is back at its ground level.                *)
LEMMA EndFacts ==
    ASSUME Live, NEW kind, Ended(kind), kind # "page"
    PROVE  /\ frames # <<>> /\ Top.kind = kind
           /\ CallerOK(doc, Top) /\ Sound(Top.caller) /\ Sound(St)
           /\ InsideOK(doc, Top, St)
           /\ kind \in {"form", "tile"} =>
                /\ St.depth = Top.caller.depth + 1
                /\ Len(St.clipStack) = Ground(Top)
                /\ Above(St, Top.caller)
<1>1. frames # <<>> /\ Top.kind = kind /\ ~ Running(Top)
  BY DEF Ended
<1>2. CallerOK(doc, Top) /\ InsideOK(doc, Top, St) /\ Paired(doc) /\ Sound(St)
  BY <1>1, LiveTop DEF Live
<1>3. /\ Len(Top.ops) \in Nat /\ Top.pc \in Nat \ {0} /\ Ground(Top) \in Nat
      /\ Level(Top.ops, Len(Top.ops)) = 0
  BY <1>1, <1>2, Grounded
<1>4. Top.pc - 1 = Len(Top.ops)
  <2>1. Top.pc <= Len(Top.ops) + 1 /\ ~ (Top.pc <= Len(Top.ops))
    BY <1>1, <1>2 DEF CallerOK, Running
  <2> QED
    BY <1>3, <2>1
<1>5. Level(Top.ops, Top.pc - 1) = 0
  BY <1>3, <1>4
<1>6. Sound(Top.caller)
  BY <1>1, <1>2 DEF CallerOK
<1>7. ASSUME kind \in {"form", "tile"}
      PROVE  /\ St.depth = Top.caller.depth + 1
             /\ Len(St.clipStack) = Ground(Top)
             /\ Above(St, Top.caller)
  <2>1. /\ St.depth = Top.caller.depth + 1
        /\ Len(St.clipStack) = Ground(Top) + Level(Top.ops, Top.pc - 1)
        /\ Above(St, Top.caller)
    BY <1>1, <1>2, <1>7 DEF InsideOK
  <2> QED
    BY <1>3, <1>5, <2>1
<1> QED
  BY <1>1, <1>2, <1>6, <1>7

(* The end of the appearance of an annotation.                              *)
LEMMA OuterRestored ==
    ASSUME NEW s, CallerOK(doc, Top), Top.kind # "page",
           Restores(Top.caller, s), s.smask = Top.caller.smask
    PROVE  Restores(Before(Top), Outer(s)) /\ Outer(s).smask = Before(Top).smask
<1>1. CASE Top.outer = <<>>
  BY <1>1 DEF Outer, Before
<1>2. CASE Top.outer # <<>>
  <2> DEFINE before == Top.outer[1]
  <2>1. /\ Sound(before) /\ SameLevels(before, Top.caller) /\ Sound(Top.caller)
        /\ Top.caller.res = before.res /\ Top.caller.base = before.base
    BY <1>2 DEF CallerOK
  <2>2. Outer(s) = LeaveAnnotation(s, before) /\ Before(Top) = before
    BY <1>2 DEF Outer, Before
  <2> HIDE DEF before
  <2>3. /\ Sound(s) /\ SameLevels(before, s) /\ s.res = before.res /\ s.base = before.base
    BY <2>1, RestoredSound DEF Restores, SameLevels
  <2>4. /\ Restores(before, LeaveAnnotation(s, before))
        /\ LeaveAnnotation(s, before).smask = before.smask
    BY <2>1, <2>3, AnnotationLeft
  <2> QED
    BY <2>2, <2>4
<1> QED
  BY <1>1, <1>2

(* A form ends.                                                             *)
LEMMA FormEnds ==
    ASSUME Live, EndForm
    PROVE  /\ Kept
           /\ Leaves(Before(Top), Top.kind, Last(states'))
<1> DEFINE u == CleanupAfterForm(St, Top.caller)
           t == Outer(u)
<1>1. Ended("form") /\ states' = WithTop(t) /\ frames' = Front(frames)
  BY DEF EndForm
<1>2. /\ frames # <<>> /\ Top.kind = "form" /\ CallerOK(doc, Top)
      /\ Sound(Top.caller) /\ Sound(St) /\ InsideOK(doc, Top, St)
      /\ St.depth = Top.caller.depth + 1 /\ Len(St.clipStack) = Ground(Top)
      /\ Above(St, Top.caller)
  BY <1>1, EndFacts
<1>3. Len(St.clipStack) = Len(Top.caller.clipStack) + 1 /\ Holds(St, Top.caller)
  BY <1>2 DEF Ground, InsideOK
<1>4. Restores(Top.caller, u) /\ u.smask = Top.caller.smask
  BY <1>2, <1>3, FormLeft
<1> HIDE DEF u
<1>5. Restores(Before(Top), t) /\ t.smask = Before(Top).smask
  BY <1>2, <1>4, OuterRestored
<1> HIDE DEF t
<1>6. Leaves(Before(Top), Top.kind, t)
  BY <1>5 DEF Leaves
<1>7. Own(Top) # 1
  BY <1>2 DEF Own
<1>8. Kept
  <2>1. Top.kind # "page"
    BY <1>2
  <2>2. states' = Append(IF Own(Top) = 1 THEN Front(Front(states)) ELSE Front(states), t)
    BY <1>1, <1>7 DEF WithTop
  <2> QED
    BY <1>1, <1>2, <1>6, <2>1, <2>2, LiveLeaves
<1>9. Last(states') = t
  BY <1>1, LiveStacks DEF Live
<1> QED
  BY <1>6, <1>8, <1>9

(* A group ends.                                                            *)
LEMMA GroupEnds ==
    ASSUME Live, EndGroup
    PROVE  /\ Kept
           /\ Leaves(Before(Top), Top.kind, Last(states'))
<1> DEFINE u == Composited(Top.caller, Top.object, St)
           t == Outer(u)
<1>1. /\ Ended("group") /\ frames' = Front(frames)
      /\ states' = Append(Front(Front(states)),
                          Outer(Composited(Last(Front(states)), Top.object, St)))
  BY DEF EndGroup
<1>2. /\ frames # <<>> /\ Top.kind = "group" /\ CallerOK(doc, Top) /\ Sound(Top.caller)
  BY <1>1, EndFacts
<1>3. Own(Top) = 1
  BY <1>2 DEF Own
<1>4. states' = Append(Front(Front(states)), t)
  BY <1>1, <1>2, <1>3, CallerBelow
<1>5. Restores(Top.caller, u) /\ u.smask = Top.caller.smask
  BY <1>2, CompositedBack
<1> HIDE DEF u
<1>6. Restores(Before(Top), t) /\ t.smask = Before(Top).smask
  BY <1>2, <1>5, OuterRestored
<1> HIDE DEF t
<1>7. Leaves(Before(Top), Top.kind, t)
  BY <1>6 DEF Leaves
<1>8. Kept
  <2>1. Top.kind # "page"
    BY <1>2
  <2>2. states' = Append(IF Own(Top) = 1 THEN Front(Front(states)) ELSE Front(states), t)
    BY <1>3, <1>4
  <2> QED
    BY <1>1, <1>2, <1>7, <2>1, <2>2, LiveLeaves
<1>9. Last(states') = t
  BY <1>2, <1>3, <1>4, TwiceBelow
<1> QED
  BY <1>7, <1>8, <1>9

(* A soft mask is drawn.                                                    *)
LEMMA MaskEnds ==
    ASSUME Live, EndSoftMask
    PROVE  /\ Kept
           /\ Leaves(Before(Top), Top.kind, Last(states'))
<1> DEFINE t == [Top.caller EXCEPT !.smask = <<St.marks>>]
<1>1. /\ Ended("smask") /\ frames' = Front(frames)
      /\ states' = Append(Front(Front(states)),
                          [Last(Front(states)) EXCEPT !.smask = <<St.marks>>])
  BY DEF EndSoftMask
<1>2. /\ frames # <<>> /\ Top.kind = "smask" /\ CallerOK(doc, Top) /\ Sound(Top.caller)
  BY <1>1, EndFacts
<1>3. Own(Top) = 1
  BY <1>2 DEF Own
<1>4. states' = Append(Front(Front(states)), t)
  BY <1>1, <1>2, <1>3, CallerBelow
<1>5. Before(Top) = Top.caller
  BY <1>2 DEF CallerOK, Before
<1>6. Leaves(Before(Top), Top.kind, t)
  <2>1. /\ Sound(t) /\ SameLevels(Top.caller, t)
        /\ t.gs = Top.caller.gs /\ t.clip = Top.caller.clip /\ t.blend = Top.caller.blend
        /\ t.res = Top.caller.res /\ t.base = Top.caller.base
    BY <1>2, MaskSet
  <2> HIDE DEF t
  <2> QED
    BY <1>2, <1>5, <2>1 DEF Leaves, Restores, Sound
<1> HIDE DEF t
<1>7. Kept
  <2>1. Top.kind # "page"
    BY <1>2
  <2>2. states' = Append(IF Own(Top) = 1 THEN Front(Front(states)) ELSE Front(states), t)
    BY <1>3, <1>4
  <2> QED
    BY <1>1, <1>2, <1>6, <2>1, <2>2, LiveLeaves
<1>8. Last(states') = t
  BY <1>2, <1>3, <1>4, TwiceBelow
<1> QED
  BY <1>6, <1>7, <1>8

(* What f and B do after the tiles restores no less.                        *)
LEMMA FillRestores ==
    ASSUME NEW b, NEW u, Restores(b, u), NEW operator
    PROVE  /\ Restores(b, AfterFill(u, operator))
           /\ AfterFill(u, operator).smask = u.smask
<1>1. \A w, v : Restores(b, w) => /\ Restores(b, [w EXCEPT !.marks = v])
                                  /\ [w EXCEPT !.marks = v].smask = w.smask
                                  /\ Restores(b, [w EXCEPT !.path = v])
                                  /\ [w EXCEPT !.path = v].smask = w.smask
  BY DEF Restores, SameLevels, StateFields
<1>2. \A paint : Restores(b, PaintPath(u, paint)) /\ PaintPath(u, paint).smask = u.smask
  BY <1>1 DEF PaintPath
<1>3. \A w : Restores(b, w) => Restores(b, Cleared(w)) /\ Cleared(w).smask = w.smask
  BY <1>1 DEF Cleared
<1>4. PICK w : w \in {u, PaintPath(u, "stroke")} /\ AfterFill(u, operator) = Cleared(w)
  BY DEF AfterFill
<1> QED
  BY <1>2, <1>3, <1>4

(* The RenderState after a tile.                                            *)
LEMMA TileEnds ==
    ASSUME Live, Ended("tile")
    PROVE  /\ frames # <<>> /\ Top.kind = "tile" /\ CallerOK(doc, Top)
           /\ Sound(Top.caller) /\ Sound(St)
           /\ Restores(Top.caller, LeaveTile(St, Top.caller))
           /\ ~ MaskStays(doc) => LeaveTile(St, Top.caller).smask = Top.caller.smask
<1>1. /\ frames # <<>> /\ Top.kind = "tile" /\ CallerOK(doc, Top)
      /\ Sound(Top.caller) /\ Sound(St) /\ InsideOK(doc, Top, St)
      /\ St.depth = Top.caller.depth + 1
      /\ Len(St.clipStack) = Ground(Top) /\ Above(St, Top.caller)
  BY EndFacts
<1>2. Ground(Top) = Len(Top.caller.clipStack)
  <2>1. Ground(Top) = Len(Top.caller.clipStack) + 0
    BY <1>1 DEF Ground
  <2>2. Len(Top.caller.clipStack) \in Nat
    BY <1>1, SequenceFacts DEF Sound
  <2> QED
    BY <2>1, <2>2
<1>3. /\ Restores(Top.caller, LeaveTile(St, Top.caller))
      /\ LeaveTile(St, Top.caller).smask = St.smask
  BY <1>1, <1>2, TileLeft
<1>4. Len(St.smaskStack) = Ground(Top)
  BY <1>1 DEF Sound
<1>5. ~ MaskStays(doc) => St.smask = Top.caller.smask
  BY <1>1, <1>4 DEF InsideOK, MaskAt
<1> QED
  BY <1>1, <1>3, <1>5

(* The last tile is painted.                                                *)
LEMMA TilesEnd ==
    ASSUME Live, EndTiles
    PROVE  /\ Kept
           /\ Leaves(Before(Top), Top.kind, Last(states'))
<1> DEFINE s == LeaveTile(St, Top.caller)
           b == Top.outer[1]
           u == [s EXCEPT !.clip = b.clip]
           t == AfterFill(u, Top.operator)
<1>1. Ended("tile") /\ states' = WithTop(t) /\ frames' = Front(frames)
  BY DEF EndTiles
<1>2. /\ frames # <<>> /\ Top.kind = "tile" /\ CallerOK(doc, Top) /\ Sound(Top.caller)
      /\ Restores(Top.caller, s)
      /\ ~ MaskStays(doc) => s.smask = Top.caller.smask
  BY <1>1, TileEnds
<1>3. /\ Sound(b) /\ SameLevels(b, Top.caller)
      /\ Top.caller.gs = b.gs /\ Top.caller.res = b.res /\ Top.caller.base = b.base
      /\ ~ MaskStays(doc) => Top.caller.smask = b.smask
      /\ Before(Top) = b
  BY <1>2 DEF CallerOK, Before
<1>4. Top.caller.blend = b.blend
  BY <1>2, <1>3 DEF Sound
<1> HIDE DEF s, b
<1>5. Restores(b, u) /\ u.smask = s.smask
  BY <1>2, <1>3, <1>4 DEF Restores, SameLevels, StateFields
<1> HIDE DEF u
<1>6. Restores(b, t) /\ t.smask = u.smask
  BY <1>5, FillRestores
<1> HIDE DEF t
<1>7. Leaves(Before(Top), Top.kind, t)
  BY <1>2, <1>3, <1>5, <1>6 DEF Leaves
<1>8. Own(Top) # 1
  BY <1>2 DEF Own
<1>9. Kept
  <2>1. Top.kind # "page"
    BY <1>2
  <2>2. states' = Append(IF Own(Top) = 1 THEN Front(Front(states)) ELSE Front(states), t)
    BY <1>1, <1>8 DEF WithTop
  <2> QED
    BY <1>1, <1>2, <1>7, <2>1, <2>2, LiveLeaves
<1>10. Last(states') = t
  BY <1>1, LiveStacks DEF Live
<1> QED
  BY <1>7, <1>9, <1>10

(* One frame in the place of another.                                       *)
LEMMA FrameReplaced ==
    ASSUME NEW fs, IsSequence(fs), Len(fs) > 0, NEW g
    PROVE  LET gs == Append(Front(fs), g)
           IN /\ Len(gs) = Len(fs)
              /\ gs[Len(fs)] = g
              /\ \A i \in 1 .. Len(fs) : i # Len(fs) => gs[i] = fs[i]
<1> DEFINE f == Front(fs)
           gs == Append(f, g)
<1>1. IsSequence(f) /\ Len(f) = Len(fs) - 1 /\ Len(fs) \in Nat
      /\ \A i \in 1 .. Len(fs) - 1 : f[i] = fs[i]
  BY Popping, SequenceFacts
<1> HIDE DEF f
<1>2. /\ Len(gs) = Len(f) + 1 /\ gs[Len(f) + 1] = g
      /\ \A i \in 1 .. Len(f) : gs[i] = f[i]
  BY <1>1, Pushing
<1> HIDE DEF gs
<1>3. Len(gs) = Len(fs) /\ gs[Len(fs)] = g
  BY <1>1, <1>2
<1>4. \A i \in 1 .. Len(fs) : i # Len(fs) => gs[i] = fs[i]
  BY <1>1, <1>2
<1> QED
  BY <1>3, <1>4 DEF gs, f

(* The next tile is begun.                                                  *)
LEMMA TileFollows ==
    ASSUME Live, NextTile
    PROVE  Kept
<1> DEFINE n == Len(frames)
           s == LeaveTile(St, Top.caller)
           t == EnterTile(s, Top.object, Top.nth + 1)
           g == [Top EXCEPT !.pc = 1, !.nth = @ + 1, !.caller = s]
<1>1. Ended("tile") /\ states' = WithTop(t) /\ frames' = Append(Front(frames), g)
  BY DEF NextTile
<1>2. /\ frames # <<>> /\ Top.kind = "tile" /\ CallerOK(doc, Top) /\ Sound(Top.caller)
      /\ Restores(Top.caller, s)
      /\ ~ MaskStays(doc) => s.smask = Top.caller.smask
  BY <1>1, TileEnds
<1>3. /\ n \in Nat \ {0} /\ n > 0 /\ Top = frames[n] /\ IsSequence(frames)
      /\ IsSequence(states) /\ Len(states) > 0
      /\ StateOK(doc, St) /\ FrameOK(doc, Top)
      /\ Contained(doc, frames, St) /\ Parents(states, frames)
  <2>1. n \in Nat \ {0} /\ Top = frames[n]
    BY <1>2, LiveTop
  <2>2. n > 0
    BY <2>1
  <2> QED
    BY <1>2, <2>1, <2>2, LiveStacks, Tops DEF Live
<1>4. StateOK(doc, s)
  BY <1>3, LeftTile DEF FrameOK
<1> HIDE DEF s
<1>5. Sound(s)
  BY <1>2, RestoredSound
<1>6. /\ DOMAIN g = FrameFields /\ g.pc = 1 /\ g.kind = "tile" /\ g.object = Top.object
      /\ g.ops = Top.ops /\ g.outer = Top.outer /\ g.caller = s
  BY <1>2, <1>3 DEF FrameOK, FrameFields
<1> HIDE DEF g
<1>7. CallerOK(doc, g)
  <2>1. FrameOK(doc, g)
    BY <1>2, <1>3, <1>4, <1>6 DEF FrameOK
  <2>2. g.pc <= Len(g.ops) + 1
    <3>1. Len(g.ops) \in Nat
      BY <2>1, SequenceFacts DEF FrameOK
    <3> QED
      BY <1>6, <3>1
  <2>3. /\ g.object \in DOMAIN doc.objects /\ g.ops = doc.objects[g.object].ops
        /\ doc.objects[g.object].kind = "tiling" /\ g.outer # <<>>
        /\ Sound(g.outer[1]) /\ SameLevels(g.outer[1], Top.caller)
        /\ Top.caller.res = g.outer[1].res /\ Top.caller.base = g.outer[1].base
        /\ Top.caller.gs = g.outer[1].gs
        /\ ~ MaskStays(doc) => Top.caller.smask = g.outer[1].smask
    BY <1>2, <1>6 DEF CallerOK
  <2>4. /\ SameLevels(g.outer[1], s) /\ s.gs = g.outer[1].gs
        /\ s.res = g.outer[1].res /\ s.base = g.outer[1].base
        /\ ~ MaskStays(doc) => s.smask = g.outer[1].smask
    BY <1>2, <2>3 DEF Restores, SameLevels
  <2>5. /\ SameLevels(g.outer[1], g.caller)
        /\ g.caller.res = g.outer[1].res /\ g.caller.base = g.outer[1].base
        /\ g.caller.gs = g.outer[1].gs
        /\ ~ MaskStays(doc) => g.caller.smask = g.outer[1].smask
        /\ Sound(g.caller) /\ g.kind = "tile"
    BY <1>5, <1>6, <2>4
  <2> QED
    BY <1>5, <1>6, <2>1, <2>2, <2>3, <2>5 DEF CallerOK
<1>8. InsideOK(doc, g, t)
  <2>1. \A o, nth : InsideOK(doc, g, EnterTile(s, o, nth))
    BY <1>5, <1>6, TileInside
  <2> QED
    BY <2>1
<1> HIDE DEF t
<1>9. /\ Len(frames') = n /\ frames'[n] = g
      /\ \A i \in 1 .. n : i # n => frames'[i] = frames[i]
  BY <1>1, <1>3, FrameReplaced
<1>10. Before(g) = Before(Top)
  BY <1>2, <1>6 DEF Before, CallerOK
<1>11. Contained(doc, frames', t)
  <2>1. /\ frames'[n].kind = frames[n].kind /\ Before(frames'[n]) = Before(frames[n])
        /\ CallerOK(doc, frames'[n]) /\ InsideOK(doc, frames'[n], t)
    BY <1>2, <1>3, <1>6, <1>7, <1>8, <1>9, <1>10
  <2> HIDE DEF n
  <2>2. Len(frames) = n
    BY DEF n
  <2>3. \A gs : Len(gs) = n /\ (\A i \in 1 .. n : i # n => gs[i] = frames[i])
                /\ gs[n].kind = frames[n].kind /\ Before(gs[n]) = Before(frames[n])
                /\ CallerOK(doc, gs[n]) /\ InsideOK(doc, gs[n], t)
                => Contained(doc, gs, t)
    BY <1>3, <2>2, ContainedSet
  <2> QED
    BY <1>9, <2>1, <2>3
<1>12. Parents(WithTop(t), frames)
  BY <1>3, ParentsReplace DEF WithTop
<1>13. Parents(states', frames')
  <2>1. \A i \in 1 .. n : /\ frames'[i].kind = frames[i].kind
                          /\ Own(frames[i]) = 1 => frames'[i].caller = frames[i].caller
    BY <1>2, <1>3, <1>6, <1>9 DEF Own
  <2> QED
    BY <1>1, <1>9, <1>12, <2>1, ParentsKept
<1>14. Last(states') = t
  BY <1>1, LiveStacks DEF Live
<1> QED
  BY <1>5, <1>8, <1>11, <1>13, <1>14 DEF Kept, InsideOK

(* The content of the page ends.                                            *)
LEMMA PageEnds ==
    ASSUME Live, EndPage
    PROVE  Kept
<1>1. Ended("page") /\ states' = states /\ frames' = <<>>
  BY DEF EndPage
<1>2. frames # <<>> /\ Top.kind = "page"
  BY <1>1 DEF Ended
<1>3. /\ Len(frames) \in Nat \ {0} /\ Top = frames[Len(frames)] /\ Top = Last(frames)
      /\ IsSequence(frames) /\ IsSequence(states) /\ Parents(states, frames)
      /\ Len(states) \in Nat \ {0}
  BY <1>2, LiveTop, LiveStacks DEF Live, Top
<1>4. Len(frames) = 1
  <2>1. Len(frames) \in 1 .. Len(frames) /\ frames[Len(frames)].kind = "page"
    BY <1>2, <1>3
  <2> QED
    BY <2>1 DEF Live, ShapeInv, Shape
<1>5. Front(frames) = <<>>
  <2>1. Len(frames) > 0 /\ Len(frames) - 1 = 0
    BY <1>4
  <2>2. IsSequence(Front(frames)) /\ Len(Front(frames)) = Len(frames) - 1
    BY <1>3, <2>1, Popping
  <2>3. Len(Front(frames)) = 0
    BY <2>1, <2>2
  <2> QED
    BY <2>2, <2>3, SequenceFacts
<1>6. Own(Last(frames)) = 0
  BY <1>2, <1>3 DEF Own
<1>7. Len(states) = Len(states) - Own(Last(frames)) /\ Len(frames) > 0
  BY <1>3, <1>6
<1>8. Parents(states, Front(frames))
  BY <1>3, <1>7, ParentsPop
<1>9. Contained(doc, <<>>, Last(states'))
  BY DEF Contained
<1>10. Sound(Last(states'))
  BY <1>1 DEF Live, St
<1> QED
  BY <1>1, <1>5, <1>8, <1>9, <1>10 DEF Kept

-----------------------------------------------------------------------------
(* A call stack of one frame.                                               *)
LEMMA OneFrame ==
    ASSUME NEW f, CallerOK(doc, f), NEW t, InsideOK(doc, f, t)
    PROVE  /\ Contained(doc, <<f>>, t)
           /\ Append(<<>>, f) = <<f>>
           /\ IsSequence(<<>>)
<1>1. <<>> \in Seq({}) /\ Len(<<>>) = 0 /\ Append(<<>>, f) = <<f>>
  OBVIOUS
<1>2. IsSequence(<<>>)
  BY <1>1 DEF IsSequence
<1>3. Contained(doc, <<>>, t)
  BY DEF Contained
<1>4. Contained(doc, Append(<<>>, f), t)
  BY <1>2, <1>3, ContainedPush
<1> QED
  BY <1>1, <1>2, <1>4

(* Between annotations nothing runs.                                        *)
LEMMA LiveIdle ==
    ASSUME Live, frames = <<>>, frames' = <<>>, NEW t, Sound(t), states' = WithTop(t)
    PROVE  Kept
<1>1. IsSequence(states) /\ Len(states) > 0 /\ IsSequence(frames)
      /\ Last(states') = t
  BY LiveStacks DEF Live
<1>2. Parents(states', <<>>)
  BY <1>1, ParentsReplace DEF Live, WithTop
<1>3. Contained(doc, <<>>, t)
  BY DEF Contained
<1> QED
  BY <1>1, <1>2, <1>3 DEF Kept

(* An annotation that is not drawn.                                         *)
LEMMA AnnotationSkipped ==
    ASSUME Live, SkipAnnotation
    PROVE  Kept
<1>1. Sound(St)
  BY DEF Live
<1>2. frames = <<>> /\ frames' = frames
  BY DEF SkipAnnotation, BetweenAnnotations
<1>3. Sound(LeaveAnnotation(EnterAnnotation(St), St))
  <2> DEFINE s == EnterAnnotation(St)
  <2>1. Sound(s) /\ SameLevels(St, s) /\ s.res = St.res /\ s.base = St.base
    BY <1>1, AnnotationEntered
  <2> HIDE DEF s
  <2>2. Restores(St, LeaveAnnotation(s, St))
    BY <1>1, <2>1, AnnotationLeft
  <2>3. Sound(LeaveAnnotation(s, St))
    BY <1>1, <2>2, RestoredSound
  <2> QED
    BY <2>3 DEF s
<1>4. PICK t : t \in {St, LeaveAnnotation(EnterAnnotation(St), St)} /\ states' = WithTop(t)
  BY DEF SkipAnnotation
<1>5. Sound(t)
  BY <1>1, <1>3, <1>4
<1> QED
  BY <1>2, <1>4, <1>5, LiveIdle

(* The frame of an appearance.                                              *)
LEMMA AppearanceBegun ==
    ASSUME doc \in Documents, NEW o \in DOMAIN doc.objects, NEW b, Sound(b), NEW s,
           StateOK(doc, s), Sound(s), SameLevels(b, s), s.res = b.res, s.base = b.base,
           NEW kind \in {"form", "group"}, NEW nth, NEW operator
    PROVE  LET f == Frame(kind, o, s, nth, operator, <<b>>)
           IN /\ CallerOK(doc, f)
              /\ f.kind = kind /\ f.caller = s /\ f.pc = 1 /\ Before(f) = b
<1> DEFINE f == Frame(kind, o, s, nth, operator, <<b>>)
<1>1. FrameOK(doc, f)
  BY FramesOK
<1>2. /\ f.kind = kind /\ f.object = o /\ f.ops = doc.objects[o].ops /\ f.pc = 1
      /\ f.caller = s /\ f.outer = <<b>>
  BY DEF Frame
<1> HIDE DEF f
<1>3. Len(f.ops) \in Nat
  BY <1>1, SequenceFacts DEF FrameOK
<1>4. 1 <= Len(f.ops) + 1
  BY <1>3
<1>5. f.outer # <<>> /\ f.outer[1] = b
  BY <1>2
<1>6. CallerOK(doc, f)
  BY <1>1, <1>2, <1>4, <1>5 DEF CallerOK
<1> QED
  BY <1>2, <1>5, <1>6 DEF f, Before

(* An annotation is drawn.                                                  *)
LEMMA AnnotationDrawn ==
    ASSUME Live, DrawAnnotation
    PROVE  Kept
<1> DEFINE o == doc.annots[annot]
           kind == doc.objects[o].kind
           s == EnterAnnotation(St)
           f == Frame(kind, o, s, 0, "", <<St>>)
<1>1. Sound(St) /\ StateOK(doc, St) /\ doc \in Documents /\ ShapeInv
  BY Tops DEF Live, ShapeInv
<1>2. /\ frames = <<>> /\ frames' = <<f>>
      /\ states' = IF kind = "group"
                   THEN Append(WithTop(s), ChildState(s, o, Backdrop(s, o), s.clip))
                   ELSE WithTop(EnterForm(s, o))
      /\ annot > 0 /\ annot <= Len(doc.annots)
  BY DEF DrawAnnotation, BetweenAnnotations, MoreAnnotations
<1>3. o \in DOMAIN doc.objects /\ kind \in {"form", "group"}
  <2>1. annot \in Nat /\ 0 < annot
    BY <1>1, <1>2 DEF ShapeInv
  <2> QED
    BY <1>1, <1>2, <2>1, DocumentFacts
<1>4. Sound(s) /\ SameLevels(St, s) /\ s.res = St.res /\ s.base = St.base
  BY <1>1, AnnotationEntered
<1>5. StateOK(doc, s)
  BY <1>1, StepsKept, StateKept
<1> HIDE DEF o, s, kind
<1>6. CallerOK(doc, f) /\ f.kind = kind /\ f.caller = s /\ f.pc = 1
  <2>1. \A nth, operator :
           LET g == Frame(kind, o, s, nth, operator, <<St>>)
           IN CallerOK(doc, g) /\ g.kind = kind /\ g.caller = s /\ g.pc = 1
    BY <1>1, <1>3, <1>4, <1>5, AppearanceBegun
  <2> QED
    BY <2>1
<1> HIDE DEF f
<1>7. /\ IsSequence(states) /\ Len(states) > 0 /\ IsSequence(frames)
      /\ Parents(states, <<>>)
      /\ \A t : IsSequence(WithTop(t)) /\ Len(WithTop(t)) > 0 /\ Last(WithTop(t)) = t
  BY <1>2, LiveStacks DEF Live
<1>8. \A t : Parents(WithTop(t), <<>>)
  BY <1>2, <1>7, ParentsReplace DEF WithTop
<1>9. CASE kind = "group"
  <2> DEFINE child == ChildState(s, o, Backdrop(s, o), s.clip)
  <2>1. states' = Append(WithTop(s), child)
    BY <1>2, <1>9
  <2>2. Sound(child)
    BY <1>4, ChildSound
  <2> HIDE DEF child
  <2>3. Own(f) = 1 /\ InsideOK(doc, f, child)
    BY <1>6, <1>9, <2>2 DEF Own, InsideOK
  <2>4. Contained(doc, <<f>>, child) /\ Append(<<>>, f) = <<f>> /\ IsSequence(<<>>)
    BY <1>6, <2>3, OneFrame
  <2>5. Last(WithTop(s)) = f.caller /\ IsSequence(WithTop(s)) /\ Len(WithTop(s)) > 0
    BY <1>6, <1>7
  <2>6. Parents(Append(WithTop(s), child), Append(<<>>, f))
    BY <1>8, <2>3, <2>4, <2>5, ParentsPushOwn
  <2>7. Last(states') = child
    BY <2>1, <2>5, LastPushed
  <2> QED
    BY <1>2, <2>1, <2>2, <2>4, <2>6, <2>7 DEF Kept
<1>10. CASE kind = "form"
  <2> DEFINE t == EnterForm(s, o)
  <2>1. states' = WithTop(t)
    <3>1. kind # "group"
      BY <1>10
    <3> QED
      BY <1>2, <3>1
  <2>2. InsideOK(doc, f, t)
    <3>1. \A n : InsideOK(doc, f, EnterForm(s, n))
      BY <1>4, <1>6, <1>10, FormInside
    <3> QED
      BY <3>1
  <2> HIDE DEF t
  <2>3. Own(f) = 0 /\ Sound(t)
    BY <1>6, <1>10, <2>2 DEF Own, InsideOK
  <2>4. Contained(doc, <<f>>, t) /\ Append(<<>>, f) = <<f>> /\ IsSequence(<<>>)
    BY <1>6, <2>2, OneFrame
  <2>5. Parents(WithTop(t), Append(<<>>, f))
    BY <1>8, <2>3, <2>4, ParentsPush
  <2>6. Last(states') = t
    BY <1>7, <2>1
  <2> QED
    BY <1>2, <2>1, <2>3, <2>4, <2>5, <2>6 DEF Kept
<1> QED
  BY <1>3, <1>9, <1>10

-----------------------------------------------------------------------------
(* The inductive invariant: in a document in pairs, until the render is cut *)
(* short.                                                                   *)
NestInv ==
    /\ ShapeInv
    /\ Paired(doc) /\ ~ cancelled =>
          /\ Parents(states, frames)
          /\ Sound(St)
          /\ Contained(doc, frames, St)

(* It holds of a page that has not begun.                                   *)
LEMMA NestInit == Init => NestInv
<1> SUFFICES ASSUME Init PROVE NestInv
  OBVIOUS
<1>1. ShapeInv
  BY ShapeInit
<1> DEFINE s == FreshState(doc.res)
           f == [kind |-> "page", object |-> "page", ops |-> doc.ops, pc |-> 1,
                 caller |-> s, nth |-> 0, operator |-> "", outer |-> <<>>]
<1>2. states = <<s>> /\ frames = <<f>>
  BY DEF Init
<1>3. Sound(s)
  BY FreshSound
<1> HIDE DEF s
<1>4. FrameOK(doc, f) /\ f.kind = "page" /\ f.pc = 1 /\ IsSequence(f.ops)
  <2>1. f.kind = "page" /\ f.pc = 1
    OBVIOUS
  <2> HIDE DEF f
  <2>2. FrameOK(doc, frames[1])
    <3>1. 1 \in 1 .. Len(frames)
      BY <1>2
    <3> QED
      BY <1>1, <3>1 DEF ShapeInv, Shape
  <2>3. FrameOK(doc, f)
    BY <1>2, <2>2
  <2> QED
    BY <2>1, <2>3 DEF FrameOK
<1> HIDE DEF f
<1>5. CallerOK(doc, f)
  <2>1. Len(f.ops) \in Nat
    BY <1>4, SequenceFacts
  <2>2. 1 <= Len(f.ops) + 1
    BY <2>1
  <2> QED
    BY <1>4, <2>2 DEF CallerOK
<1>6. InsideOK(doc, f, s)
  BY <1>3, <1>4 DEF InsideOK
<1>7. Contained(doc, <<f>>, s) /\ Append(<<>>, f) = <<f>> /\ IsSequence(<<>>)
  BY <1>5, <1>6, OneFrame
<1>8. Len(<<s>>) = 1 /\ <<s>>[1] = s /\ <<s>> \in Seq({s})
  OBVIOUS
<1>9. Last(<<s>>) = s
  BY <1>8 DEF Last
<1>10. Parents(<<s>>, <<>>)
  <2> DEFINE level == [i \in 0 .. 0 |-> 1]
  <2>1. level \in [0 .. 0 -> Nat \ {0}] /\ level[0] = 1
    OBVIOUS
  <2> HIDE DEF level
  <2>2. Len(<<>>) = 0 /\ \A i \in 0 .. 0 : i = 0
    OBVIOUS
  <2>3. Levels(<<>>, 1, level)
    BY <2>1, <2>2 DEF Levels
  <2> QED
    BY <1>8, <2>2, <2>3 DEF Parents
<1>11. Parents(<<s>>, <<f>>)
  <2>1. Own(f) = 0
    BY <1>4 DEF Own
  <2>2. Parents(<<s>>, Append(<<>>, f))
    BY <1>7, <1>10, <2>1, ParentsPush
  <2> QED
    BY <1>7, <2>2
<1>12. St = s
  BY <1>2, <1>9 DEF St
<1> QED
  BY <1>1, <1>2, <1>3, <1>7, <1>11, <1>12 DEF NestInv

(* Every step of a render that is not cut short keeps what was left.        *)
LEMMA LiveStep ==
    ASSUME Live, Work
    PROVE  Kept
<1>1. CASE Operator
  BY <1>1, LiveOperator
<1>2. CASE EndOfStream
  <2>1. ~ StopAtPoll
    BY DEF StopAtPoll, Live
  <2> QED
    BY <1>2, <2>1, FormEnds, GroupEnds, MaskEnds, TileFollows, TilesEnd, PageEnds
    DEF EndOfStream
<1>3. CASE SkipAnnotation \/ DrawAnnotation
  BY <1>3, AnnotationSkipped, AnnotationDrawn
<1>4. CASE Finish
  <2>1. states' = states /\ frames' = frames
    BY <1>4 DEF Finish
  <2> QED
    BY <2>1 DEF Kept, Live, St
<1> QED
  BY <1>1, <1>2, <1>3, <1>4 DEF Work, Annotation

(* Every step keeps the inductive invariant.                                *)
LEMMA NestStep ==
    ASSUME NestInv, ShapeInv', [Next]_vars
    PROVE  NestInv'
<1>1. CASE Work
  <2>1. doc' = doc /\ cancelled' = cancelled
    BY <1>1 DEF Work, Operator, EndOfStream, Annotation, Becomes,
       ConstructPath, MarkClip, EndPath, Stroke, Fill, SkipPattern, FillPattern, Save,
       Restore, ConcatMatrix, SetFill, Show, SetGraphicsState, BeginSoftMask, SkipName,
       DoBrokenForm, DoForm, DoGroup, StopAtPoll, EndForm, EndGroup, EndSoftMask,
       NextTile, EndTiles, EndPage, SkipAnnotation, DrawAnnotation, Finish
  <2>2. ASSUME Paired(doc), ~ cancelled
        PROVE  Kept
    <3>1. Live
      BY <2>2 DEF NestInv, Live
    <3> QED
      BY <1>1, <3>1, LiveStep
  <2>3. Paired(doc)' /\ (~ cancelled)' =>
          /\ Parents(states, frames)'
          /\ Sound(St)'
          /\ Contained(doc, frames, St)'
    BY <2>1, <2>2 DEF Kept, St
  <2> QED
    BY <2>3 DEF NestInv
<1>2. CASE Cancel
  BY <1>2 DEF Cancel, NestInv
<1>3. CASE UNCHANGED vars
  BY <1>3 DEF vars, NestInv, St
<1> QED
  BY <1>1, <1>2, <1>3 DEF Next, Returned

(* What the property asks of a step that ends a stream.                     *)
LEMMA LeavesSurroundings ==
    ASSUME NEW b, NEW kind, NEW t, Leaves(b, kind, t)
    PROVE  Surroundings(t, kind) = Surroundings(b, kind)
<1>1. MasksMayStay <=> MaskStays(doc)
  BY DEF MasksMayStay, MaskStays
<1>2. /\ t.gs = b.gs /\ t.clip = b.clip /\ t.blend = b.blend
      /\ t.clipStack = b.clipStack /\ t.smaskStack = b.smaskStack
      /\ t.depth = b.depth /\ t.res = b.res /\ t.base = b.base
  BY DEF Leaves, Restores, SameLevels
<1>3. CASE kind = "smask" \/ (kind = "tile" /\ MasksMayStay)
  BY <1>2, <1>3 DEF Surroundings
<1>4. CASE ~ (kind = "smask" \/ (kind = "tile" /\ MasksMayStay))
  <2>1. t.smask = b.smask
    BY <1>1, <1>4 DEF Leaves
  <2> QED
    BY <1>2, <1>4, <2>1 DEF Surroundings
<1> QED
  BY <1>3, <1>4

(* A step that takes a frame away.                                          *)
LEMMA EndsStream ==
    ASSUME Live, [Next]_vars, Len(frames') < Len(frames), Top.kind # "page"
    PROVE  Leaves(Before(Top), Top.kind, Last(states'))
<1>1. IsSequence(frames) /\ Len(frames) \in Nat
  BY SequenceFacts, LiveStacks DEF Live
<1>2. frames' # frames
  BY <1>1
<1>3. frames # <<>>
  <2>1. CASE frames = <<>>
    <3>1. Len(frames) = 0
      BY <1>1, <2>1, SequenceFacts
    <3>2. frames' = frames \/ \E f : frames' = <<f>>
      BY <2>1 DEF Next, vars, Work, Operator, EndOfStream, Annotation, Due, StopAtPoll, Ended,
         ConstructPath, MarkClip, EndPath, Stroke, Fill, SkipPattern, FillPattern, Save,
         Restore, ConcatMatrix, SetFill, Show, SetGraphicsState, BeginSoftMask, SkipName,
         DoBrokenForm, DoForm, DoGroup, EndForm, EndGroup, EndSoftMask,
         NextTile, EndTiles, EndPage, SkipAnnotation, DrawAnnotation, Finish, Cancel, Returned
    <3>3. \A f : Len(<<f>>) = 1
      OBVIOUS
    <3> QED
      BY <1>1, <1>2, <3>1, <3>2, <3>3
  <2> QED
    BY <2>1
<1>4. CASE Operator
  <2>1. OperatorEffect
    BY <1>4, OperatorStep DEF Live
  <2>2. Len(Advanced) = Len(frames) /\ IsSequence(Advanced)
    BY <1>3, AdvancedShape DEF Live, Shape
  <2>3. \A f : Len(Append(Advanced, f)) = Len(frames) + 1
    BY <2>2, Pushing
  <2>4. Len(frames') = Len(frames) \/ Len(frames') = Len(frames) + 1
    BY <2>1, <2>2, <2>3 DEF OperatorEffect
  <2> QED
    BY <1>1, <2>4
<1>5. CASE EndForm \/ EndGroup \/ EndSoftMask \/ EndTiles
  BY <1>5, FormEnds, GroupEnds, MaskEnds, TilesEnd
<1>6. CASE NextTile
  <2>1. IsSequence(frames) /\ Len(frames) > 0
    BY <1>1, <1>3, SequenceFacts
  <2>2. \A g : Len(Append(Front(frames), g)) = Len(frames)
    BY <2>1, FrameReplaced
  <2> QED
    BY <1>1, <1>6, <2>2 DEF NextTile
<1>7. CASE EndPage
  BY <1>7 DEF EndPage, Ended
<1>8. CASE StopAtPoll
  BY <1>8 DEF StopAtPoll, Live
<1>9. CASE Annotation \/ Cancel \/ Returned \/ UNCHANGED vars
  BY <1>2, <1>3, <1>9
  DEF Annotation, SkipAnnotation, DrawAnnotation, Finish, BetweenAnnotations, Cancel,
      Returned, vars
<1> QED
  BY <1>4, <1>5, <1>6, <1>7, <1>8, <1>9 DEF Next, Work, EndOfStream

(* A form, group, soft mask, tile or annotation leaves the graphics state,  *)
(* clip, soft mask, saved levels and resources of its surroundings as they  *)
(* were, in every document whose streams save and restore in pairs, unless  *)
(* the render is cut short: execute_form, execute_transparency_group,       *)
(* render_soft_mask, paint_tiling_pattern_fill and the annotation loop put  *)
(* back what they have changed, whatever the streams in between have done.  *)
THEOREM StreamsAreContained == Spec => NestedStreamsAreContained
<1>1. Init => IInv /\ NestInv
  BY ShapeInit, PromptInit, NestInit DEF IInv
<1>2. IInv /\ NestInv /\ [Next]_vars => IInv' /\ NestInv' /\ ShapeInv'
  BY PromptStep, NestStep DEF IInv
<1>3. ASSUME NestInv, ShapeInv', [Next]_vars
      PROVE  [ \/ ~ WellNested
               \/ cancelled
               \/ Len(frames') >= Len(frames)
               \/ Top.kind = "page"
               \/ LET before == IF Top.outer # <<>> THEN Top.outer[1] ELSE Top.caller
                      after == Last(states')
                  IN Surroundings(after, Top.kind) = Surroundings(before, Top.kind) ]_vars
  <2> SUFFICES ASSUME WellNested, ~ cancelled, ~ (Len(frames') >= Len(frames)),
                      Top.kind # "page"
               PROVE  Surroundings(Last(states'), Top.kind) =
                         Surroundings(IF Top.outer # <<>> THEN Top.outer[1] ELSE Top.caller,
                                      Top.kind)
    OBVIOUS
  <2>1. Live
    BY <1>3 DEF NestInv, Live, WellNested, Paired
  <2>2. CASE Len(frames') < Len(frames)
    <3>1. Leaves(Before(Top), Top.kind, Last(states'))
      BY <1>3, <2>1, <2>2, EndsStream
    <3>2. Before(Top) = IF Top.outer # <<>> THEN Top.outer[1] ELSE Top.caller
      BY DEF Before
    <3> QED
      BY <3>1, <3>2, LeavesSurroundings
  <2>3. Len(frames) \in Nat /\ Len(frames') \in Nat
    BY <1>3, SequenceFacts DEF ShapeInv, Shape, NestInv
  <2> QED
    BY <2>2, <2>3
<1>4. NestInv /\ ShapeInv' /\ [Next]_vars =>
         [ \/ ~ WellNested
           \/ cancelled
           \/ Len(frames') >= Len(frames)
           \/ Top.kind = "page"
           \/ LET before == IF Top.outer # <<>> THEN Top.outer[1] ELSE Top.caller
                  after == Last(states')
              IN Surroundings(after, Top.kind) = Surroundings(before, Top.kind) ]_vars
  BY <1>3
<1> QED
  BY <1>1, <1>2, <1>4, PTL DEF Spec, NestedStreamsAreContained
==============================================================================
