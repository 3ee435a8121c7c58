------------------------------ MODULE PageTree ------------------------------
(***************************************************************************)
(* The page tree of a document (crates/engine/src/document.rs) and the     *)
(* rotation written to it (structural.rs), as functions of a document that *)
(* does not change.  A document is a record                                *)
(*   entry     its cross-reference: free, plain, or packed in an object    *)
(*             stream at an index (reader.rs, XrefEntry)                   *)
(*   obj       the object each number names                                *)
(*   table     the numbers each object stream lists, in order              *)
(*   length    the number of a stream's indirect /Length, or NoNumber      *)
(*   encrypted whether strings and streams are enciphered                  *)
(* PagesOf is what the traversal must give, stated over paths of the tree  *)
(* and not over the traversal's own state.                                 *)
(***************************************************************************)
EXTENDS Integers, Sequences, FiniteSets, FiniteSetsExt, SequencesExt, TLC

CONSTANTS
    Numbers,    \* object numbers
    Root,       \* the number /Root names
    NoNumber,   \* no number
    Bad,        \* an attribute whose value does not parse
    Error       \* Err(_)

ASSUME NumbersAssumption ==
    /\ IsFiniteSet(Numbers)
    /\ Root \in Numbers
    /\ NoNumber \notin Numbers

-----------------------------------------------------------------------------
(* Objects                                                                  *)

IsNode(o) == o.kind = "dict" /\ o.hasKids
IsLeaf(o) == o.kind = "dict" /\ ~o.hasKids

(* The objects an object stream holds, by number, each with its index: a     *)
(* number listed twice keeps its last entry.                                 *)
ParsedStream(doc, s) ==
    [n \in Range(doc.table[s]) |->
        LET at == Max({i \in DOMAIN doc.table[s] : doc.table[s][i] = n})
        IN  [index |-> at - 1, obj |-> doc.obj[n]]]

(* apply_inherited_attrs: a dictionary's own attributes hide the inherited.  *)
Overlay(attrs, inherited) == attrs @@ inherited

AttrOr(attrs, key, default) == IF key \in DOMAIN attrs THEN attrs[key] ELSE default

(* normalize_rotate: anything but whole quarters is no rotation.             *)
NormalizeRotate(angle) ==
    LET turn == angle % 360 IN IF turn \in {0, 90, 180, 270} THEN turn ELSE 0

DefaultMediaBox == "Letter"

(* build_page_from_dict: the crop box defaults to the page's media box.      *)
BuildPage(num, attrs, contents, cipher) ==
    LET media == AttrOr(attrs, "MediaBox", DefaultMediaBox)
    IN  [object |-> num,
         contents |-> contents,
         media  |-> media,
         crop   |-> AttrOr(attrs, "CropBox", media),
         rotate |-> NormalizeRotate(AttrOr(attrs, "Rotate", 0)),
         cipher |-> cipher]

-----------------------------------------------------------------------------
(* What reading the document must give                                      *)

(* An object is readable when its entry leads to it: a plain object whose    *)
(* indirect length is a readable integer, or a packed one that its readable  *)
(* object stream lists at the entry's index.                                 *)
ReadableFrom(doc, known) ==
    {n \in Numbers :
        \/ /\ doc.entry[n].kind = "plain"
           /\ \/ doc.length[n] = NoNumber
              \/ doc.length[n] \in known /\ doc.obj[doc.length[n]].kind = "int"
        \/ /\ doc.entry[n].kind = "packed"
           /\ LET s == doc.entry[n].stream
              IN  /\ s \in known
                  /\ doc.obj[s].kind = "objstm"
                  /\ n \in DOMAIN ParsedStream(doc, s)
                  /\ ParsedStream(doc, s)[n].index = doc.entry[n].index}

(* Repeated, once for each number, the set grows to all that are readable.   *)
Repeat(Op(_), base) ==
    LET round[k \in 0..Cardinality(Numbers)] == IF k = 0 THEN base ELSE Op(round[k - 1])
    IN  round[Cardinality(Numbers)]

Readable(doc) == Repeat(LAMBDA known : ReadableFrom(doc, known), {})

(* The object each number leads to through references: Error when it leads   *)
(* to nothing or back to itself.                                             *)
Targets(doc) ==
    LET readable == Readable(doc)
        Follow(m) == IF m \in readable /\ doc.obj[m].kind = "ref" THEN doc.obj[m].to ELSE m
        Hop(at) == [n \in Numbers |-> Follow(at[n])]
        last == Repeat(Hop, [n \in Numbers |-> n])
    IN  [n \in Numbers |->
            IF last[n] \in readable /\ doc.obj[last[n]].kind # "ref"
            THEN doc.obj[last[n]] ELSE Error]

(* The paths from the tree's root that pass no number twice: where each      *)
(* ends, the kid positions it takes and the attributes it accumulates.       *)
PathsOf(object, top) ==
    LET Sound(n) == object[n] # Error /\ object[n].kind = "dict"
        Own(n)   == IF Sound(n) THEN object[n].attrs ELSE << >>
        Kids(p)  == IF Sound(p.end) THEN object[p.end].kids ELSE <<>>
        Take(p, i) == [end   |-> Kids(p)[i],
                       via   |-> p.via \cup {Kids(p)[i]},
                       turns |-> Append(p.turns, i),
                       attrs |-> Overlay(Own(Kids(p)[i]), p.attrs)]
        Longer(paths) == paths \cup UNION {
            {Take(p, i) : i \in {j \in DOMAIN Kids(p) : Kids(p)[j] \notin p.via}} : p \in paths}
    IN  Repeat(Longer, {[end |-> top, via |-> {top}, turns |-> <<>>, attrs |-> Own(top)]})

(* Document order: the order of the kid positions taken.                     *)
Earlier(p, q) ==
    \/ IsStrictPrefix(p.turns, q.turns)
    \/ \E i \in DOMAIN p.turns \cap DOMAIN q.turns :
          /\ SubSeq(p.turns, 1, i - 1) = SubSeq(q.turns, 1, i - 1)
          /\ p.turns[i] < q.turns[i]

(* The pages: the leaves in document order, each at the first path that      *)
(* reaches it, or Error when anything in the tree cannot be read.            *)
PagesOf(doc) ==
    LET object  == Targets(doc)
        catalog == object[Root]
        paths   == PathsOf(object, catalog.pages)
        firsts  == {p \in paths : \A q \in paths : q.end = p.end => ~Earlier(q, p)}
        leaves  == {p \in firsts : IsLeaf(object[p.end])}
        inOrder == SetToSortSeq(leaves, Earlier)
        Unsound(p) == \/ object[p.end] = Error
                      \/ object[p.end].kind # "dict"
                      \/ \E k \in DOMAIN p.attrs : p.attrs[k] = Bad
    IN  IF \/ catalog = Error
           \/ catalog.kind # "catalog"
           \/ \E p \in firsts : Unsound(p)
        THEN Error
        ELSE [i \in DOMAIN inOrder |->
                BuildPage(inOrder[i].end, inOrder[i].attrs, object[inOrder[i].end].contents, "clear")]

(* The content of a page: its content streams that can be read, in order.    *)
ContentOf(doc, page) ==
    SelectSeq(page.contents, LAMBDA n : n \in Readable(doc) /\ doc.obj[n].kind = "stream")

-----------------------------------------------------------------------------
(* Rotation                                                                 *)

(* The pages rotate_pages is asked for that exist; none named means all.     *)
Selected(asked, total) == IF asked = {} THEN 1..total ELSE asked \cap 1..total

NewAngle(mode, degrees, current) ==
    NormalizeRotate(IF mode = "absolute" THEN degrees ELSE current + degrees)

\* Faulty variant: the offset is from the page's own angle, not the inherited one.
RotatedFromOwn(doc, pages, asked, mode, degrees) ==
    LET targets == Selected(asked, Len(pages))
        Wanted(n) == {NewAngle(mode, degrees, AttrOr(doc.obj[n].attrs, "Rotate", 0)) :
                         i \in {j \in targets : pages[j].object = n}}
    IN  IF targets = {} THEN Error
        ELSE [doc EXCEPT !.obj = [n \in Numbers |->
                IF @[n].kind = "dict" /\ @[n].type = "Page" /\ Wanted(n) # {}
                THEN [@[n] EXCEPT !.attrs = ("Rotate" :> Max(Wanted(n))) @@ @]
                ELSE @[n]]]

(* rotate_pages: the document written, in which each selected page's own     *)
(* dictionary has the new angle; only dictionaries typed /Page are touched.  *)
(* Error when no selected page exists.                                       *)
Rotated(doc, pages, asked, mode, degrees) ==
    LET targets == Selected(asked, Len(pages))
        Wanted(n) == {NewAngle(mode, degrees, pages[i].rotate) :
                         i \in {j \in targets : pages[j].object = n}}
    IN  IF targets = {} THEN Error
        ELSE [doc EXCEPT !.obj = [n \in Numbers |->
                IF Wanted(n) # {} /\ @[n].kind = "dict" /\ @[n].type = "Page"
                THEN [@[n] EXCEPT !.attrs = ("Rotate" :> Max(Wanted(n))) @@ @]
                ELSE @[n]]]
=============================================================================
