----------------------------- MODULE CopyClosure -----------------------------
(***************************************************************************)
(* Merge, split and page extraction: `build_merged_internal` of            *)
(* crates/engine/src/writer.rs with its DocCopier and `copy_closure`.  For *)
(* each source document the objects its selected pages need are found by a *)
(* worklist and copied under fresh numbers; pages, /Info, the page tree    *)
(* and the catalog are numbered around them.                               *)
(*                                                                         *)
(* One step is one turn of one of the loops.  An object is its outgoing    *)
(* references (those collect_references finds: all but a stream's          *)
(* /Length), in the order it finds them.  Documents are values of `input`. *)
(***************************************************************************)
EXTENDS Integers, Sequences, FiniteSets, Functions

CONSTANTS
    Objs,        \* object numbers that occur in a source document
    Links,       \* the reference graphs to consider: functions from Objs
    Conditions,  \* the object conditions to consider: functions from Objs
    Selections,  \* the page selections to consider, each a sequence of pages
    Inputs,      \* number of source documents
    Null,        \* the null object
    MaxClosure   \* MAX_CLOSURE_OBJECTS

\* "plain": get_object(n, 0) yields it.  "regenerated": it exists, but with a
\* generation other than 0.  "missing": it does not exist, or cannot be parsed.
Condition == {"plain", "regenerated", "missing"}

\* A selected page: its leaf object, and the references of its /Contents and of
\* its resolved /Resources.
Page == [leaf : Objs, contents : Seq(Objs), resources : Seq(Objs)]

ASSUME CopyAssumption ==
    /\ Objs \subseteq Nat
    /\ Links \subseteq [Objs -> Seq(Objs)]
    /\ Conditions \subseteq [Objs -> Condition]
    /\ Selections \subseteq Seq(Page)
    /\ Inputs \in Nat \ {0}
    /\ Null \notin Objs
    /\ MaxClosure \in Nat

Docs == 1..Inputs

VARIABLES
    input,        \* input[d]: source document d (never changes)
    pc,           \* which loop is running
    doc,          \* the document at work
    page,         \* the page of the selection at work
    part,         \* its root list at work: "contents" or "resources"
    pending,      \* references the innermost loop has yet to look at
    cur,          \* the object whose references are being looked at
    stack,        \* the worklist: source numbers still to be copied
    remap,        \* remap[o]: the new number of source object o, 0 for none
    copied,       \* new number -> source object copied under it, or Null
    next_number,  \* the next new number
    out           \* the output objects: number, source and references

vars == <<input, pc, doc, page, part, pending, cur, stack, remap, copied, next_number, out>>

Source == [links : Links, cond : Conditions, pages : Selections, info : BOOLEAN]

TypeOK ==
    /\ input \in [Docs -> Source]
    /\ pc \in {"page", "roots", "pop", "refs", "leaves", "emit", "finish", "done", "error"}
    /\ doc \in 1..(Inputs + 1)
    /\ page \in Nat \ {0}
    /\ part \in {"contents", "resources"}
    /\ pending \in Seq(Objs)
    /\ cur \in Objs \cup {Null}
    /\ stack \in Seq(Objs)
    /\ remap \in [Objs -> Nat]
    /\ copied \in [DOMAIN copied -> Objs \cup {Null}]
    /\ next_number \in Nat
    /\ \A o \in Objs : remap[o] < next_number

\* Objects 1 and 2 are kept for the catalog and the root of the page tree.
catalog_number == 1
pages_number == 2

Init ==
    /\ input \in [Docs -> Source]
    /\ pc = "page"
    /\ doc = 1
    /\ page = 1
    /\ part = "contents"
    /\ pending = <<>>
    /\ cur = Null
    /\ stack = <<>>
    /\ remap = [o \in Objs |-> 0]
    /\ copied = <<>>
    /\ next_number = 3
    /\ out = {}

Here == input[doc]
Pages == Here.pages

-----------------------------------------------------------------------------
\* `assign` of an object that has no number yet.
Assign(o) ==
    /\ remap' = [remap EXCEPT ![o] = next_number]
    /\ next_number' = next_number + 1

Seen(o) == remap[o] # 0
Copied(o) == remap[o] \in DOMAIN copied

\* Begin the closure of the contents, then of the resources, of the next page.
\* The leaf itself is read with generation 0 and must be there.
StartContents ==
    /\ pc = "page" /\ part = "contents" /\ page <= Len(Pages)
    /\ IF Here.cond[Pages[page].leaf] = "plain"
       THEN pending' = Pages[page].contents /\ pc' = "roots"
       ELSE pc' = "error" /\ UNCHANGED pending
    /\ UNCHANGED <<input, doc, page, part, cur, stack, remap, copied, next_number, out>>

StartResources ==
    /\ pc = "page" /\ part = "resources"
    /\ pending' = Pages[page].resources
    /\ pc' = "roots"
    /\ UNCHANGED <<input, doc, page, part, cur, stack, remap, copied, next_number, out>>

\* `for &(number, _gen) in roots`: every root is pushed, whatever its generation.
Root ==
    /\ pc = "roots" /\ pending # <<>>
    /\ LET o == Head(pending)
       IN  /\ IF Seen(o) THEN UNCHANGED <<remap, next_number>> ELSE Assign(o)
           /\ stack' = Append(stack, o)
    /\ pending' = Tail(pending)
    /\ UNCHANGED <<input, pc, doc, page, part, cur, copied, out>>

RootsDone ==
    /\ pc = "roots" /\ pending = <<>>
    /\ pc' = "pop"
    /\ UNCHANGED <<input, doc, page, part, pending, cur, stack, remap, copied, next_number, out>>

Top == stack[Len(stack)]
Popped == SubSeq(stack, 1, Len(stack) - 1)

Skip ==
    /\ pc = "pop" /\ stack # <<>> /\ Copied(Top)
    /\ stack' = Popped
    /\ UNCHANGED <<input, pc, doc, page, part, pending, cur, remap, copied, next_number, out>>

\* The map with object (or null) o stored under number n.
Stored(n, o) == [m \in DOMAIN copied \cup {n} |-> IF m = n THEN o ELSE copied[m]]

\* Faulty variant: an object that cannot be read ends the walk.
CopyMissingBreaks ==
    /\ pc = "pop" /\ stack # <<>> /\ ~Copied(Top)
    /\ Here.cond[Top] # "plain"
    /\ copied' = Stored(remap[Top], Null)
    /\ stack' = <<>>
    /\ UNCHANGED <<input, pc, doc, page, part, pending, cur, remap, next_number, out>>

\* get_object(old_number, 0) fails: null is recorded in its place.
CopyMissing ==
    /\ pc = "pop" /\ stack # <<>> /\ ~Copied(Top)
    /\ Here.cond[Top] # "plain"
    /\ copied' = Stored(remap[Top], Null)
    /\ stack' = Popped
    /\ UNCHANGED <<input, pc, doc, page, part, pending, cur, remap, next_number, out>>

\* The object is read; the cap is tested before its references are looked at.
Read ==
    /\ pc = "pop" /\ stack # <<>> /\ ~Copied(Top)
    /\ Here.cond[Top] = "plain"
    /\ IF Cardinality(DOMAIN copied) >= MaxClosure
       THEN pc' = "error" /\ UNCHANGED <<pending, cur>>
       ELSE pc' = "refs" /\ pending' = Here.links[Top] /\ cur' = Top
    /\ stack' = Popped
    /\ UNCHANGED <<input, doc, page, part, remap, copied, next_number, out>>

\* `for r in refs`: number and enqueue what is new, enqueue again what is numbered
\* and not copied.
Discover ==
    /\ pc = "refs" /\ pending # <<>>
    /\ LET r == Head(pending)
       IN  \/ ~Seen(r) /\ Assign(r) /\ stack' = Append(stack, r)
           \/ Seen(r) /\ ~Copied(r) /\ stack' = Append(stack, r) /\ UNCHANGED <<remap, next_number>>
           \/ Seen(r) /\ Copied(r) /\ UNCHANGED <<stack, remap, next_number>>
    /\ pending' = Tail(pending)
    /\ UNCHANGED <<input, pc, doc, page, part, cur, copied, out>>

\* Faulty variant: the copy is recorded under its old number.
CopyUnderOldNumber ==
    /\ pc = "refs" /\ pending = <<>>
    /\ copied' = Stored(cur, cur)
    /\ cur' = Null
    /\ pc' = "pop"
    /\ UNCHANGED <<input, doc, page, part, pending, stack, remap, next_number, out>>

Copy ==
    /\ pc = "refs" /\ pending = <<>>
    /\ copied' = Stored(remap[cur], cur)
    /\ cur' = Null
    /\ pc' = "pop"
    /\ UNCHANGED <<input, doc, page, part, pending, stack, remap, next_number, out>>

\* The worklist is empty: go on with the resources, or with the next page.
ClosureDone ==
    /\ pc = "pop" /\ stack = <<>>
    /\ pc' = "page"
    /\ IF part = "contents" THEN part' = "resources" /\ UNCHANGED page
       ELSE part' = "contents" /\ page' = page + 1
    /\ UNCHANGED <<input, doc, pending, cur, stack, remap, copied, next_number, out>>

\* Every page has its closure; now the leaves are numbered.
PagesDone ==
    /\ pc = "page" /\ part = "contents" /\ page > Len(Pages)
    /\ pc' = "leaves"
    /\ page' = 1
    /\ UNCHANGED <<input, doc, part, pending, cur, stack, remap, copied, next_number, out>>

\* rewrite_references: what is not in the map becomes null, here number 0.
Rewritten(refs) == {remap[refs[i]] : i \in DOMAIN refs}

\* Faulty variant: the leaf takes a number that is not counted.
LeafUncounted ==
    /\ pc = "leaves" /\ page <= Len(Pages)
    /\ out' = out \cup {[number |-> next_number, from |-> <<doc, "leaf", page>>,
                         refs |-> {pages_number} \cup Rewritten(Pages[page].contents)
                                      \cup Rewritten(Pages[page].resources)]}
    /\ page' = page + 1
    /\ UNCHANGED <<input, pc, doc, part, pending, cur, stack, remap, copied, next_number>>

Leaf ==
    /\ pc = "leaves" /\ page <= Len(Pages)
    /\ out' = out \cup {[number |-> next_number, from |-> <<doc, "leaf", page>>,
                         refs |-> {pages_number} \cup Rewritten(Pages[page].contents)
                                      \cup Rewritten(Pages[page].resources)]}
    /\ next_number' = next_number + 1
    /\ page' = page + 1
    /\ UNCHANGED <<input, pc, doc, part, pending, cur, stack, remap, copied>>

LeavesDone ==
    /\ pc = "leaves" /\ page > Len(Pages)
    /\ pc' = "emit"
    /\ UNCHANGED <<input, doc, page, part, pending, cur, stack, remap, copied, next_number, out>>

\* The copies go out under their new numbers, after them the /Info of the first
\* document if it has a readable one; the next document gets a copier of its own.
Emit ==
    /\ pc = "emit"
    /\ LET copies == {[number |-> n, from |-> <<doc, "copy", copied[n]>>,
                       refs |-> IF copied[n] = Null THEN {}
                                ELSE Rewritten(Here.links[copied[n]])] : n \in DOMAIN copied}
           hasInfo == doc = 1 /\ Here.info
           info == [number |-> next_number, from |-> <<doc, "info", 0>>, refs |-> {}]
       IN  /\ out' = out \cup copies \cup (IF hasInfo THEN {info} ELSE {})
           /\ next_number' = IF hasInfo THEN next_number + 1 ELSE next_number
    /\ doc' = doc + 1
    /\ pc' = IF doc = Inputs THEN "finish" ELSE "page"
    /\ page' = 1
    /\ remap' = [o \in Objs |-> 0]
    /\ copied' = <<>>
    /\ UNCHANGED <<input, part, pending, cur, stack>>

\* The root of the page tree, with every leaf in /Kids, and the catalog.
Finish ==
    /\ pc = "finish"
    /\ out' = out \cup {[number |-> pages_number, from |-> <<0, "pages", 0>>,
                         refs |-> {r.number : r \in {x \in out : x.from[2] = "leaf"}}],
                        [number |-> catalog_number, from |-> <<0, "catalog", 0>>,
                         refs |-> {pages_number}]}
    /\ pc' = "done"
    /\ UNCHANGED <<input, doc, page, part, pending, cur, stack, remap, copied, next_number>>

Next ==
    \/ StartContents \/ StartResources \/ Root \/ RootsDone
    \/ Skip \/ CopyMissing \/ Read \/ Discover \/ Copy \/ ClosureDone
    \/ PagesDone \/ Leaf \/ LeavesDone \/ Emit \/ Finish

Spec == Init /\ [][Next]_vars

-----------------------------------------------------------------------------
\* "Assigned-but-not-yet-copied numbers are exactly the ones still on the stack",
\* or the object at work.  An object that falls off the worklist would be
\* referred to and never written.
OnStack ==
    pc # "error" => \A o \in Objs : Seen(o) /\ ~Copied(o) =>
        (\E i \in DOMAIN stack : stack[i] = o) \/ (pc = "refs" /\ cur = o)

\* No source object is copied under two numbers, and none shares its number:
\* two pages that share a font share the copy.
CopiedOnce ==
    /\ \A o, p \in Objs : Seen(o) /\ remap[o] = remap[p] => o = p
    /\ \A n \in DOMAIN copied : copied[n] # Null => remap[copied[n]] = n

Roots == UNION {Range(Pages[i].contents) \cup Range(Pages[i].resources) : i \in DOMAIN Pages}

\* The references a set of source objects is closed under; what cannot be read
\* has none.
ClosedUnder(S) ==
    \A o \in S : Here.cond[o] = "plain" => Range(Here.links[o]) \subseteq S

\* When a document's pages have been walked, what was copied is exactly the
\* closure of their roots: closed, and contained in every closed set that holds
\* the roots.  Cycles, diamonds and shared resources change nothing.
ClosureExact ==
    pc \in {"leaves", "emit"} =>
        LET numbered == {o \in Objs : Seen(o)}
        IN  /\ \A o \in numbered : Copied(o)
            /\ Roots \subseteq numbered /\ ClosedUnder(numbered)
            /\ \A S \in SUBSET Objs : Roots \subseteq S /\ ClosedUnder(S) => numbered \subseteq S

Numbers == {r.number : r \in out}

\* The output file refers only to objects it has: no reference is dangling, and
\* none was turned into null on the way.
NoDangling == pc = "done" => \A r \in out : r.refs \subseteq Numbers

\* Every number up to the last one is written, and by one object only, across
\* all the source documents.
NumbersExact ==
    pc = "done" =>
        /\ Numbers = 1..(next_number - 1)
        /\ \A r, s \in out : r.number = s.number => r = s

\* Fairness: the loops run.
FairSpec == Spec /\ WF_vars(Next)

\* Cycle-safe: whatever the references, the merge ends.
Terminates == <>(pc \in {"done", "error"})

\* The output file is whole: its references and its numbering.
OutputExact == NoDangling /\ NumbersExact
=============================================================================
