--------------------------- MODULE Linearization ---------------------------
(***************************************************************************)
(* Linearization of a document for viewing page by page over a network     *)
(* (write_document_linearized in crates/engine/src/writer.rs).  Objects    *)
(* are grouped by the pages that need them and numbered group by group,    *)
(* copied with the attributes each page inherits, and laid out; a hint     *)
(* table then says where the objects of each page are.  The sizes of the   *)
(* front cross-reference and of the hint table depend on the offsets they  *)
(* hold: the layout is repeated with more room until both fit.             *)
(*                                                                         *)
(* An object is its type, the objects each of its keys refers to, and the  *)
(* one box that stands for /MediaBox, /CropBox and /Rotate.  Dictionaries  *)
(* in a dictionary belong to its keys.  Every generation is 0.             *)
(***************************************************************************)
EXTENDS Integers, Sequences, FiniteSets, SequencesExt

CONSTANTS
  Documents,      \* the documents considered, see MCLinearization
  Size,           \* the length of an object, by its number in the document
  FrontReserve, HintReserve,  \* 256 and 128 in the code
  Slack,          \* 64 in the code
  StreamLengths,  \* the lengths a compressed stream may come to
  MaxTurns,       \* 30 in the code
  NoBox

ASSUME LinearizationAssumption ==
  /\ FrontReserve \in Nat /\ HintReserve \in Nat /\ Slack \in Nat
  /\ StreamLengths \subseteq Nat \ {0} /\ MaxTurns \in Nat \ {0}

VARIABLES
  doc,      \* the document: root, info (0 for none), the objects by number,
            \* and what get_pages returns, with the inherited attributes
  pc,       \* the place in write_document_linearized, or how it ended
  plan,     \* source_plan
  objects,  \* the objects copied, under their new numbers
  layout,   \* LinearizedObjectLayout
  reserved, turn,  \* LinearizedBuildState and the turn of the loop
  file      \* the output
vars == <<doc, pc, plan, objects, layout, reserved, turn, file>>

-----------------------------------------------------------------------------
\* Objects and references

KeysOf(o) == DOMAIN o.refs
Over(o, keys) == UNION {o.refs[k] : k \in keys}
collect_references(o) == Over(o, KeysOf(o))

\* A page does not need what is around it, nor a node of the tree its kids.
collect_page_local_references(o) ==
  Over(o, KeysOf(o) \ (CASE o.type = "Page"  -> {"Parent", "Resources", "Thumb"}
                         [] o.type = "Pages" -> {"Parent", "Kids"}
                         [] OTHER            -> {}))

\* original_object_map: what can be read, without cross-reference streams.
ObjectMap == {n \in DOMAIN doc.obj : doc.obj[n].type \notin {"unreadable", "XRef"}}

\* Everything that can be reached from roots; next gives what is referred to.
Reach(roots, next) ==
  LET within[i \in 0 .. Cardinality(DOMAIN next)] ==
        IF i = 0 THEN roots \cap DOMAIN next
        ELSE LET before == within[i - 1]
             IN  before \cup (UNION {next[n] : n \in before} \cap DOMAIN next)
  IN  within[Cardinality(DOMAIN next)]

\* dependency_closure_for_linearization: other pages are not entered.
PageClosure(page) ==
  LET entered == {n \in ObjectMap : doc.obj[n].type = "Page" => n = page.num}
  IN  Reach({page.num} \cup collect_page_local_references(doc.obj[page.num])
              \cup page.resources \cup page.contents,
            [n \in entered |-> collect_page_local_references(doc.obj[n])])

Ascending(S) == SetToSortSeq(S, <)

\* build_opening_source_objects: what a viewer needs before any page.
OpeningKeys == {"AcroForm"}         \* ViewerPreferences and Threads are alike
Opening ==
  LET entered == {n \in ObjectMap : doc.obj[n].type # "Page"}
      root == doc.obj[doc.root]
      needed == Reach(Over(root, KeysOf(root) \cap OpeningKeys),
                      [n \in entered |-> collect_references(doc.obj[n])])
  IN  <<doc.root>> \o Ascending(needed \ {doc.root})

ordered_group_with_first(first, group) ==
  (IF first \in group THEN <<first>> ELSE <<>>) \o Ascending(group \ {first})

-----------------------------------------------------------------------------
\* build_linearization_source_plan

Pages == DOMAIN doc.pages
Closures == [k \in Pages |-> PageClosure(doc.pages[k])]

\* object_pages: the pages that need an object.
UsersIn(closures, n) == {k \in Pages : n \in closures[k]}

\* The objects of page k alone.
OwnedBy(k, closures, opening) ==
  {doc.pages[k].num} \cup {n \in closures[k] : UsersIn(closures, n) = {k} /\ n \notin opening}

FirstGroup(closures, opening) ==
  ordered_group_with_first(doc.pages[1].num, closures[1] \ opening)

SharedObjects(closures, opening, first) ==
  Ascending({n \in UNION {closures[k] : k \in Pages} :
               Cardinality(UsersIn(closures, n)) > 1 /\ n \notin first \cup opening})

\* The number of a sequence's elements, each in the place it first stands.
Numbered(s) ==
  LET first[n \in ToSet(s)] == CHOOSE i \in DOMAIN s : s[i] = n /\ \A j \in 1 .. i - 1 : s[j] # n
  IN  [n \in ToSet(s) |-> Cardinality({m \in ToSet(s) : first[m] <= first[n]})]

SourcePlan ==
  LET closures == Closures
      opening == Opening
      first == FirstGroup(closures, ToSet(opening))
      shared == SharedObjects(closures, ToSet(opening), ToSet(first))
      shared_index == [n \in ToSet(first) |-> CHOOSE i \in DOMAIN first : first[i] = n]
        @@ [n \in ToSet(shared) |-> Len(first) + (CHOOSE i \in DOMAIN shared : shared[i] = n)]
      group == [k \in Pages |-> IF k = 1 THEN first
                  ELSE ordered_group_with_first(doc.pages[k].num,
                                                OwnedBy(k, closures, ToSet(opening)))]
      identifiers == [k \in Pages |-> IF k = 1 THEN {}
                        ELSE {shared_index[n] : n \in
                                {m \in closures[k] \cap DOMAIN shared_index :
                                   /\ Cardinality(UsersIn(closures, m)) > 1
                                   /\ m \notin ToSet(opening)}}]
      groups == FlattenSeq(group)
      assigned == ToSet(groups) \cup ToSet(shared) \cup ToSet(opening)
  IN  [opening |-> opening, group |-> group, shared |-> shared,
       identifiers |-> identifiers,
       remap |-> Numbered(groups \o shared \o Ascending(ObjectMap \ assigned) \o opening)]

-----------------------------------------------------------------------------
\* Copying

Drop(o, keys) == [o EXCEPT !.refs = [k \in DOMAIN @ \ keys |-> @[k]]]
DroppedFromCatalog == {"Outlines"}  \* with six other keys no page depends on
DroppedFromNodes == {"MediaBox", "Resources"}

\* Faulty variant: the nodes give up their attributes and the pages get none.
NormalizedNodes(n, o) ==
  CASE o.type = "Catalog" -> Drop(o, DroppedFromCatalog)
    [] o.type = "Pages"   -> [Drop(o, DroppedFromNodes) EXCEPT !.box = NoBox]
    [] OTHER -> o

\* normalize_pages: what a page inherits becomes its own, so that no page needs
\* the tree above it.
Normalized(n, o) ==
  LET at == {k \in Pages : doc.pages[k].num = n}
  IN  CASE o.type = "Catalog" -> Drop(o, DroppedFromCatalog)
        [] o.type = "Pages"   -> [Drop(o, DroppedFromNodes) EXCEPT !.box = NoBox]
        [] o.type = "Page" /\ at # {} ->
             LET page == doc.pages[CHOOSE k \in at : TRUE]
                 own == Drop(o, DroppedFromNodes)
             IN  [own EXCEPT !.box = page.box,
                             !.refs = [k \in {"Resources"} |-> page.resources] @@ @]
        [] OTHER -> o

\* rewrite_document_objects_with_remap; a reference to nothing becomes null.
\* `of' remembers where an object comes from.
Rewritten ==
  [new \in {plan.remap[n] : n \in ObjectMap} |->
    LET n == CHOOSE m \in ObjectMap : plan.remap[m] = new
        o == Normalized(n, doc.obj[n])
    IN  [of |-> n, type |-> o.type, box |-> o.box,
         refs |-> [k \in DOMAIN o.refs |-> {plan.remap[m] : m \in o.refs[k] \cap ObjectMap}]]]

\* retain_reachable_linearized_objects
Retained(objs) ==
  LET kept == Reach({plan.remap[n] : n \in {doc.root, doc.info} \cap ObjectMap},
                    [n \in DOMAIN objs |-> collect_references(objs[n])])
  IN  [n \in kept |-> objs[n]]

Renumbered(s) == [i \in DOMAIN s |-> plan.remap[s[i]]]
Opened == ToSet(Renumbered(plan.opening))
Grouped(k) == ToSet(Renumbered(plan.group[k]))

\* ensure_layout_object, for every object the plan has a place for.
PlanIsCopied ==
  Opened \cup UNION {Grouped(k) : k \in Pages} \cup ToSet(Renumbered(plan.shared))
    \subseteq DOMAIN objects

\* LinearizedObjectLayout: an object stands in the first place that wants it,
\* but for the shared ones.
NewLayout ==
  LET taken(k) == Opened \cup UNION {Grouped(l) : l \in 1 .. k - 1}
      assigned == taken(Len(plan.group) + 1) \cup ToSet(Renumbered(plan.shared))
  IN  [opening |-> Renumbered(plan.opening),
       group |-> [k \in Pages |->
         SelectSeq(Renumbered(plan.group[k]), LAMBDA n : n \notin taken(k))],
       shared |-> Renumbered(plan.shared),
       leftovers |-> Ascending(DOMAIN objects \ assigned)]

-----------------------------------------------------------------------------
\* Layout.  An offset is the sum of the lengths before it.

HeaderLen == 1
DictionaryLen == 2    \* every number in it is padded to the same width
MainLen == 1
StartXrefLen == 1
FrontXrefOffset == HeaderLen + DictionaryLen

object_len(n) == Size[objects[n].of]
Sum(s) == FoldLeft(LAMBDA a, b : a + b, 0, s)
TotalLen(s) == Sum([i \in DOMAIN s |-> object_len(s[i])])

\* The offsets of objects that stand one after the other from pos on.
OffsetsFrom(pos, s) == [i \in DOMAIN s |-> pos + TotalLen(SubSeq(s, 1, i - 1))]

\* compute_linearized_positions, from the space kept for the two streams.
Positions ==
  LET opening_at == FrontXrefOffset + reserved.front
      hint_at == opening_at + TotalLen(layout.opening)
      group_len == [k \in Pages |-> TotalLen(layout.group[k])]
      group_at == [k \in Pages |-> hint_at + reserved.hint + Sum(SubSeq(group_len, 1, k - 1))]
      shared_at == hint_at + reserved.hint + Sum(group_len)
      leftovers_at == shared_at + TotalLen(layout.shared)
  IN  [opening |-> OffsetsFrom(opening_at, layout.opening),
       hint |-> hint_at,
       group |-> [k \in Pages |-> OffsetsFrom(group_at[k], layout.group[k])],
       page_lengths |-> group_len,
       first_page_end |-> group_at[1] + group_len[1],
       shared |-> OffsetsFrom(shared_at, layout.shared),
       leftovers |-> OffsetsFrom(leftovers_at, layout.leftovers),
       main |-> leftovers_at + TotalLen(layout.leftovers)]

\* front_xref_entries, but for those of the file's own structures: each offset with the number of its object.
Entries(at) ==
  LET listed(s, offsets) == {<<s[i], offsets[i]>> : i \in DOMAIN s}
  IN  listed(layout.opening, at.opening) \cup listed(layout.shared, at.shared)
        \cup listed(layout.leftovers, at.leftovers)
        \cup UNION {listed(layout.group[k], at.group[k]) : k \in Pages}

\* Faulty variant: the offset in the file.
FirstSharedOffsetRaw(at) == IF layout.shared = <<>> THEN 0 ELSE at.shared[1]

\* Offsets in the hint tables are given as if the hint stream was not there.
FirstSharedOffset(at) ==
  LET hint_len == IF layout.group[1] # <<>> THEN at.group[1][1] - at.hint ELSE 0
  IN  IF layout.shared = <<>> THEN 0 ELSE at.shared[1] - hint_len

\* build_hint_stream_data.  The tables hold differences to a minimum in as many
\* bits as the largest needs, so what is written is what is read.
HintTables(at) ==
  LET until(s, offsets, i, end) == (IF i < Len(s) THEN offsets[i + 1] ELSE end) - offsets[i]
      shared_end == IF layout.leftovers # <<>> THEN at.leftovers[1] ELSE at.main
  IN  [location |-> at.hint,
       counts |-> [k \in Pages |-> Len(plan.group[k])],
       lengths |-> at.page_lengths,
       identifiers |-> plan.identifiers,
       nshared_first_page |-> Len(plan.group[1]),
       first_shared_object |-> IF layout.shared = <<>> THEN 0 ELSE layout.shared[1],
       first_shared_offset |-> FirstSharedOffset(at),
       shared_lengths |->
         [i \in DOMAIN layout.group[1] |->
            until(layout.group[1], at.group[1], i, at.first_page_end)]
         \o [i \in DOMAIN layout.shared |->
               until(layout.shared, at.shared, i, shared_end)]]

Part(what, len) == [what |-> what, len |-> len]
ObjectParts(s) == [i \in DOMAIN s |-> Part(<<"object", s[i]>>, object_len(s[i]))]

\* assemble_linearized_output: streams shorter than their space are padded.
Assembled(front, hint) ==
  <<Part(<<"header">>, HeaderLen), Part(<<"dictionary">>, DictionaryLen),
    Part(<<"front">>, front), Part(<<"padding">>, reserved.front - front)>>
  \o ObjectParts(layout.opening)
  \o <<Part(<<"hint">>, hint), Part(<<"padding">>, reserved.hint - hint)>>
  \o FlattenSeq([k \in Pages |-> ObjectParts(layout.group[k])])
  \o ObjectParts(layout.shared) \o ObjectParts(layout.leftovers)
  \o <<Part(<<"main">>, MainLen), Part(<<"startxref">>, StartXrefLen)>>

\* The linearization dictionary; with an empty first group there is no first object.
Parameters(at) ==
  [file_length |-> at.main + MainLen + StartXrefLen,
   hint_offset |-> at.hint, hint_length |-> reserved.hint,
   first_page_object |-> Renumbered(plan.group[1])[1],
   first_page_end |-> at.first_page_end, main_xref_offset |-> at.main]

-----------------------------------------------------------------------------
\* write_document_linearized

NoPlan == [remap |-> <<>>]
NoFile == [parts |-> <<>>]

Init ==
  /\ doc \in Documents
  /\ pc = "open"
  /\ plan = NoPlan /\ objects = <<>> /\ layout = <<>> /\ file = NoFile
  /\ reserved = [front |-> FrontReserve, hint |-> HintReserve] /\ turn = 1

\* ensure_linearization_supported
Refusable == doc.pages = <<>> \/ \E k \in Pages : "Thumb" \in KeysOf(doc.obj[doc.pages[k].num])

Refuse ==
  /\ pc = "open" /\ Refusable
  /\ pc' = "refused"
  /\ UNCHANGED <<doc, plan, objects, layout, reserved, turn, file>>

Plan ==
  /\ pc = "open" /\ ~Refusable
  /\ plan' = SourcePlan
  /\ pc' = "copy"
  /\ UNCHANGED <<doc, objects, layout, reserved, turn, file>>

Copy ==
  /\ pc = "copy"
  /\ objects' = Retained(Rewritten)
  /\ pc' = "place"
  /\ UNCHANGED <<doc, plan, layout, reserved, turn, file>>

Place ==
  /\ pc = "place" /\ PlanIsCopied
  /\ layout' = NewLayout
  /\ pc' = "turn"
  /\ UNCHANGED <<doc, plan, objects, reserved, turn, file>>

PlaceFails ==
  /\ pc = "place" /\ ~PlanIsCopied
  /\ pc' = "not copied"
  /\ UNCHANGED <<doc, plan, objects, layout, reserved, turn, file>>

\* One turn of the loop: the two streams come to some length; if they fit, the
\* file is written, else there will be more room.
Fits(front, hint) == front <= reserved.front /\ hint <= reserved.hint

Write(front, hint) ==
  /\ pc = "turn" /\ Fits(front, hint)
  /\ file' = [parts |-> Assembled(front, hint), entries |-> Entries(Positions),
              tables |-> HintTables(Positions), parameters |-> Parameters(Positions)]
  /\ pc' = "written"
  /\ UNCHANGED <<doc, plan, objects, layout, reserved, turn>>

Higher(a, b) == IF a > b THEN a ELSE b
\* The room a turn needed, with slack for what the next one moves.
Grown(front, hint) ==
  [front |-> Higher(reserved.front, front + Slack), hint |-> Higher(reserved.hint, hint + Slack)]

Grow(front, hint) ==
  /\ pc = "turn" /\ ~Fits(front, hint)
  /\ reserved' = Grown(front, hint)
  /\ pc' = IF turn < MaxTurns THEN "turn" ELSE "unstable"
  /\ turn' = turn + 1
  /\ UNCHANGED <<doc, plan, objects, layout, file>>

Next ==
  \/ Refuse \/ Plan \/ Copy \/ Place \/ PlaceFails
  \/ \E front, hint \in StreamLengths : Write(front, hint) \/ Grow(front, hint)

Spec == Init /\ [][Next]_vars

-----------------------------------------------------------------------------
\* What a viewer finds in the file

PartAt(i) == Sum([j \in 1 .. i - 1 |-> file.parts[j].len])
Standing == {i \in DOMAIN file.parts : Len(file.parts[i].what) = 2}
NumberAt(i) == file.parts[i].what[2]

\* The objects that stand wholly in a range of the file.
Within(start, len) ==
  {NumberAt(i) : i \in {j \in Standing : /\ start <= PartAt(j)
                                         /\ PartAt(j) + file.parts[j].len <= start + len}}

\* Where the hint tables say that page k, and the shared object i, are.
PageAt(k) ==
  file.tables.location + file.parameters.hint_length + Sum(SubSeq(file.tables.lengths, 1, k - 1))
SharedAt(i) ==
  LET lengths == file.tables.shared_lengths
      n == file.tables.nshared_first_page
  IN  IF i <= n THEN PageAt(1) + Sum(SubSeq(lengths, 1, i - 1))
      ELSE file.tables.first_shared_offset + file.parameters.hint_length
             + Sum(SubSeq(lengths, n + 1, i - 1))

\* What a page shows, of some objects: neither the tree nor another page.
Shown(objs, page, keys, more) ==
  LET entered == {n \in DOMAIN objs :
        objs[n].type \notin {"Pages", "unreadable", "XRef"} /\ (objs[n].type = "Page" => n = page)}
  IN  Reach({page} \cup more,
            [n \in entered |-> IF n = page THEN more \cup Over(objs[n], KeysOf(objs[n]) \ keys)
                               ELSE collect_references(objs[n])])
PageObject(k) == plan.remap[doc.pages[k].num]
Needs(k) == Shown(objects, PageObject(k), {"Parent"}, {})

-----------------------------------------------------------------------------
\* Properties

\* Two peculiarities a document may have that linearization does not serve: a
\* leaf without a /Type, and a page whose box is an object of its own.
Untyped == \E k \in Pages : doc.obj[doc.pages[k].num].type # "Page"
OwnBox == \E k \in Pages : "MediaBox" \in KeysOf(doc.obj[doc.pages[k].num])

\* Every object copied stands in the file once, at the offset of its entry; the
\* hint table, the main cross-reference and the end are where the parameters say.
EntriesAreTrue ==
  /\ \A n \in DOMAIN objects : Cardinality({i \in Standing : NumberAt(i) = n}) = 1
  /\ file.entries = {<<NumberAt(i), PartAt(i)>> : i \in Standing}
  /\ \E i \in DOMAIN file.parts :
       file.parts[i].what = <<"hint">> /\ PartAt(i) = file.parameters.hint_offset
  /\ \E i \in DOMAIN file.parts :
       file.parts[i].what = <<"main">> /\ PartAt(i) = file.parameters.main_xref_offset
  /\ PartAt(Len(file.parts) + 1) = file.parameters.file_length

\* Following the hint tables a viewer fetches for each page exactly what the page
\* shows, but for what is sent before any page; its own dictionary comes first.
HintsAreExact ==
  \A k \in Pages :
    LET own == Within(PageAt(k), file.tables.lengths[k])
        shared == UNION {Within(SharedAt(i), file.tables.shared_lengths[i]) :
                           i \in file.tables.identifiers[k]}
    IN  /\ own \cup shared = Needs(k) \ Opened
        /\ Cardinality(own) = file.tables.counts[k]
        /\ <<PageObject(k), PageAt(k)>> \in file.entries
        /\ layout.shared # <<>> =>
             <<file.tables.first_shared_object,
               SharedAt(file.tables.nshared_first_page + 1)>> \in file.entries
        /\ k = 1 => /\ file.parameters.first_page_object = PageObject(1)
                    /\ Opened \cup Needs(1) \subseteq Within(0, file.parameters.first_page_end)

\* The offsets of a linearized file are those of the file that holds them, though
\* tables, padding and objects all move each other (compute_linearized_positions,
\* build_hint_stream_data and assemble_linearized_output together).
LocationsAreTrue == pc = "written" /\ ~Untyped /\ ~OwnBox => EntriesAreTrue /\ HintsAreExact

\* What is linearized is the document: each page shows the same objects with the
\* attributes it had, inherited ones included, and what belongs to no page but is
\* opened first is there.  No other document is refused, and the loop settles.
PagesAreKept ==
  /\ pc = "written" /\ ~Untyped =>
       \A k \in Pages :
         LET page == doc.pages[k]
         IN  /\ {objects[n].of : n \in Needs(k)} =
                  Shown(doc.obj, page.num, {"Parent", "Resources", "MediaBox"}, page.resources)
             /\ objects[PageObject(k)].box = page.box
             /\ objects[PageObject(k)].of = page.num
  /\ pc = "not copied" => Untyped \/ OwnBox
  /\ pc # "unstable"
=============================================================================
