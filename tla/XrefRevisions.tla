---------------------------- MODULE XrefRevisions ----------------------------
(***************************************************************************)
(* The life of a PDF file: `PdfReader::from_bytes` walks its chain of      *)
(* cross-reference sections (crates/engine/src/reader.rs), `PdfEditor`     *)
(* queues edits and saves them (editing.rs) by appending a revision or by  *)
(* rewriting the file (writer.rs), and other programs revise the file too. *)
(*                                                                         *)
(* A file is a sequence of items, and an offset is a position in it: an    *)
(* indirect object, an object stream with its members, or a section of the *)
(* cross-reference (a table, or a stream that is an object as well).  An   *)
(* object is its version, the number of edits it has seen, or Stream.      *)
(* The position of an object inside its object stream is left out.         *)
(***************************************************************************)
EXTENDS Integers, Sequences, FiniteSets, FiniteSetsExt, Functions

CONSTANTS
    Stream,      \* the value of an overlay's content stream
    Nothing,     \* no value
    Closed,      \* no open reader (for the refinement)
    Writers,     \* what other programs may do to the file
    MaxNumber,   \* bound on object numbers
    MaxVersion,  \* bound on the edits of one object
    MaxItems     \* bound on the length of the file

\* The generation that writers give to a free entry that hides an object.
Top == 65535
Numbers == 1..MaxNumber
Ids == Numbers \X {0, 1, Top}
Value == 0..MaxVersion \cup {Stream}
Offsets == 0..MaxItems      \* 0 is an offset where nothing is found

ASSUME RevisionAssumption ==
    /\ Writers \subseteq {"change", "add", "pack", "hybrid", "cycle", "damage", "free"}
    /\ MaxNumber \in Nat /\ MaxVersion \in Nat /\ MaxItems \in Nat
    /\ MaxNumber >= 4 /\ MaxItems >= 3      \* room for the first document
    /\ {Stream, Nothing, Closed} \cap Int = {}
    /\ Stream # Nothing /\ Closed \notin [Ids -> Int \cup {Stream, Nothing}]

VARIABLES
    file,     \* the bytes on disk
    doc,      \* what they mean: always Meaning(file), for the properties only
    base,     \* the bytes the reader was opened on (PdfReader::data)
    mode,     \* "closed", "walking", "open" or "failed"
    next,     \* the section to read next, 0 for none
    visited,  \* the sections read
    xref,     \* the merged table: id -> entry
    size,     \* /Size of the first trailer read, 0 for none
    forms,    \* ids with a form value queued
    edits     \* page ids with an overlay queued

readerVars == <<base, mode, next, visited, xref, size>>
disk == <<file, doc>>
vars == <<file, doc, readerVars, forms, edits>>

Plain(offset) == [type |-> "plain", to |-> offset]
Packed(num) == [type |-> "packed", to |-> num]
Free == [type |-> "free", to |-> 0]

Object(num, gen, v) == [kind |-> "object", num |-> num, gen |-> gen, value |-> v]
Bundle(num, f) == [kind |-> "bundle", num |-> num, gen |-> 0, value |-> f]
\* A table has num 0: it is not an object.
Section(num, es, prev, stm, sz) ==
    [kind |-> "section", num |-> num, gen |-> 0, entries |-> es,
     prev |-> prev, stm |-> stm, size |-> sz]

At(f, offset) == IF offset \in DOMAIN f THEN f[offset] ELSE Section(0, <<>>, 0, 0, 0)

\* f, and g where f is silent: HashMap::entry(..).or_insert(..).
OrInsert(f, g) == [id \in DOMAIN f \cup DOMAIN g |-> IF id \in DOMAIN f THEN f[id] ELSE g[id]]

-----------------------------------------------------------------------------
(***************************************************************************)
(* What a file means, said without the reader: the newest revision counts. *)
(***************************************************************************)

\* A section with the entries of the /XRefStm section it names.
EntriesOf(f, p) == OrInsert(f[p].entries, IF f[p].stm = 0 THEN <<>> ELSE f[f[p].stm].entries)

Sections(f) == {p \in DOMAIN f : f[p].kind = "section"}
StartXref(f) == Max(Sections(f))
Revisions(f) == Sections(f) \ {f[p].stm : p \in Sections(f)}

Settled(f, num) == {p \in Revisions(f) : \E id \in DOMAIN EntriesOf(f, p) : id[1] = num}

\* The newest revision that speaks of an object's number says the id is in use.
Live(f, id) ==
    /\ Settled(f, id[1]) # {}
    /\ LET es == EntriesOf(f, Max(Settled(f, id[1])))
       IN  id \in DOMAIN es /\ es[id] # Free

\* The versions of an object, by place.
Written(f, id) ==
    {p \in DOMAIN f : \/ <<f[p].num, f[p].gen>> = id
                      \/ f[p].kind = "bundle" /\ id[2] = 0 /\ id[1] \in DOMAIN f[p].value}

Version(f, id) ==
    LET item == f[Max(Written(f, id))]
    IN  IF item.kind = "object" THEN item.value
        ELSE IF item.kind = "bundle" /\ item.num # id[1] THEN item.value[id[1]]
        ELSE Nothing

Meaning(f) == [id \in Ids |-> IF Live(f, id) THEN Version(f, id) ELSE Nothing]

LastSize(f) == f[StartXref(f)].size

-----------------------------------------------------------------------------
(***************************************************************************)
(* Reading                                                                 *)
(***************************************************************************)

HeaderMatches(f, offset, id) == <<At(f, offset).num, At(f, offset).gen>> = id

\* scan_indirect_object_headers keeps the last place of each id.
Scanned(f, id) == {p \in DOMAIN f : HeaderMatches(f, p, id)}

Repaired(id) ==
    IF /\ xref[id].type = "plain" /\ ~HeaderMatches(base, xref[id].to, id)
       /\ Scanned(base, id) # {}
    THEN Plain(Max(Scanned(base, id))) ELSE xref[id]

\* get_object: the item an id stands for, {} when it is missing.
Direct(id) ==
    {base[p] : p \in {q \in DOMAIN base : /\ id \in DOMAIN xref
                                          /\ xref[id] = Plain(q)
                                          /\ HeaderMatches(base, q, id)}}

InBundle(id) ==
    IF id \in DOMAIN xref /\ xref[id].type = "packed"
    THEN {b \in Direct(<<xref[id].to, 0>>) : b.kind = "bundle" /\ id[1] \in DOMAIN b.value}
    ELSE {}

Get(id) ==
    Direct(id) \cup {Object(id[1], id[2], b.value[id[1]]) : b \in InBundle(id)}

object_ids == {id \in DOMAIN xref : xref[id] # Free}

\* The version of an object that is one, for an editor that reads it.
Shown(id) == IF \E o \in Get(id) : o.kind = "object"
             THEN (CHOOSE o \in Get(id) : TRUE).value ELSE Nothing

Open ==
    /\ mode = "closed"
    /\ mode' = "walking"
    /\ base' = file
    /\ next' = StartXref(file)
    /\ UNCHANGED <<disk, visited, xref, size, forms, edits>>

\* Faulty variant: nothing is marked as visited.
MarkNothing(marked) == marked

Mark(marked) == marked \cup {next}

\* One turn of read_xref_chain.  An /XRefStm section is not marked as visited.
ReadSection ==
    /\ mode = "walking" /\ next # 0 /\ next \notin visited
    /\ visited' = Mark(visited)
    /\ LET s == base[next]
           hidden == IF s.stm \notin visited' \cup {0, next} THEN base[s.stm].entries ELSE <<>>
       IN  /\ xref' = OrInsert(OrInsert(xref, s.entries), hidden)
           /\ size' = IF size = 0 THEN s.size ELSE size
           /\ next' = s.prev
    /\ UNCHANGED <<disk, base, mode, forms, edits>>

FindCycle ==
    /\ mode = "walking" /\ next \in visited
    /\ mode' = "failed"
    /\ UNCHANGED <<disk, base, next, visited, xref, size, forms, edits>>

\* The chain has ended: repair_uncompressed_xref_offsets, and the document is open.
Repair ==
    /\ mode = "walking" /\ next = 0
    /\ xref' = [id \in DOMAIN xref |-> Repaired(id)]
    /\ mode' = "open"
    /\ UNCHANGED <<disk, base, next, visited, size, forms, edits>>

\* The editor is dropped, and its reader with it.
Close ==
    /\ mode \in {"open", "failed"}
    /\ mode' = "closed"
    /\ base' = <<>> /\ next' = 0 /\ visited' = {} /\ xref' = <<>> /\ size' = 0
    /\ forms' = {} /\ edits' = {}
    /\ UNCHANGED disk

-----------------------------------------------------------------------------
(***************************************************************************)
(* Editing                                                                 *)
(***************************************************************************)

Queued(id) == (IF id \in forms THEN 1 ELSE 0) + (IF id \in edits THEN 1 ELSE 0)
Editable(id) == Shown(id) \in Int /\ Shown(id) + Queued(id) < MaxVersion

\* set_form_text and its like: the object's value changes when the edits are saved.
FillForm(id) ==
    /\ mode = "open" /\ Editable(id)
    /\ forms' = forms \cup {id}
    /\ UNCHANGED <<disk, readerVars, edits>>

\* draw_text, stamps, annotations: the page changes and gets a content stream.
EditPage(id) ==
    /\ mode = "open" /\ Editable(id)
    /\ edits' = edits \cup {id}
    /\ UNCHANGED <<disk, readerVars, forms>>

next_free_object_number == Max({id[1] : id \in object_ids} \cup {size - 1}) + 1

\* Faulty variant: the object as the file has it, whatever the change set holds.
current_object_of_file(changes, id) == Shown(id)

current_object(changes, id) == IF id \in DOMAIN changes THEN changes[id] ELSE Shown(id)

\* build_changes: form values first, then the pages, each with a new stream.
build_changes ==
    LET filled == [id \in forms |-> Shown(id) + 1]
        paged == [id \in edits |-> current_object(filled, id) + 1]
        fresh == next_free_object_number
        streams == [id \in {<<fresh + k, 0>> : k \in 0..(Cardinality(edits) - 1)} |-> Stream]
    IN  OrInsert(OrInsert(streams, paged), filled)

Before(a, b) == a[1] < b[1] \/ (a[1] = b[1] /\ a[2] < b[2])

Sorted(S) == [k \in 1..Cardinality(S) |->
                CHOOSE id \in S : Cardinality({a \in S : Before(a, id)}) = k - 1]

\* Append objects `objs` in the order `ids`, and a table that lists them.
Appended(f, ids, objs, sz) ==
    f \o [k \in 1..Len(ids) |-> Object(ids[k][1], ids[k][2], objs[ids[k]])]
      \o <<Section(0, [id \in DOMAIN objs |->
                         Plain(Len(f) + CHOOSE k \in 1..Len(ids) : ids[k] = id)],
                   StartXref(f), 0, sz)>>

\* Faulty variant: /Size covers the new objects only.
SizeOfChanges(changes) == Max({id[1] + 1 : id \in DOMAIN changes})

\* incremental_trailer_dict.
NewSize(changes) == Max({size} \cup {id[1] + 1 : id \in DOMAIN changes})

\* write_incremental_update; without changes the file stays byte for byte.
Incremental(f, changes) ==
    IF DOMAIN changes = {} THEN f
    ELSE Appended(f, Sorted(DOMAIN changes), changes, NewSize(changes))

\* write_full_rewrite gives up on other generations and on unreadable objects.
Rewritable(changes) ==
    /\ \A id \in object_ids : id[2] = 0 /\ Get(id) # {}
    /\ \A id \in DOMAIN changes : id[2] = 0

\* write_full_rewrite: every listed object but xref streams, old object streams
\* among them, as it was read or as it was changed, and the new ones.
Collected(changes) ==
    LET old == [id \in object_ids |-> CHOOSE o \in Get(id) : TRUE]
        kept == [id \in {i \in object_ids : old[i].kind # "section"} |-> old[id]]
    IN  OrInsert([id \in DOMAIN changes |-> Object(id[1], 0, changes[id])], kept)

\* write_modern: the streams one by one, the rest in an object stream of their
\* own, then an xref stream; both get numbers above all others.
FullRewrite(objects) ==
    LET packable == {id \in DOMAIN objects : /\ objects[id].kind = "object"
                                             /\ objects[id].value # Stream}
        direct == Sorted(DOMAIN objects \ packable)
        packNum == Max({id[1] : id \in DOMAIN objects}) + 1
        members == [n \in {id[1] : id \in packable} |-> objects[<<n, 0>>].value]
        body == [k \in 1..Len(direct) |-> objects[direct[k]]]
                \o (IF packable = {} THEN <<>> ELSE <<Bundle(packNum, members)>>)
        xrefNum == IF packable = {} THEN packNum ELSE packNum + 1
        at == [id \in {<<body[k].num, 0>> : k \in 1..Len(body)} |->
                 Plain(CHOOSE k \in 1..Len(body) : body[k].num = id[1])]
        packed == [id \in packable |-> Packed(packNum)]
        own == [id \in {<<xrefNum, 0>>} |-> Plain(Len(body) + 1)]
    IN  Append(body, Section(xrefNum, OrInsert(OrInsert(at, packed), own), 0, 0, xrefNum + 1))

\* The bytes are written over the file; the editor keeps its edits.
Save ==
    /\ mode = "open"
    /\ \/ file' = Incremental(base, build_changes)
       \/ Rewritable(build_changes) /\ file' = FullRewrite(Collected(build_changes))
    /\ Len(file') <= MaxItems /\ file'[Len(file')].size <= MaxNumber + 1
    /\ doc' = Meaning(file')
    /\ UNCHANGED <<readerVars, forms, edits>>

-----------------------------------------------------------------------------
(***************************************************************************)
(* The other programs that write the file                                  *)
(***************************************************************************)

\* One object as a table's revision, and as an object stream's.
Changed(f, id, v, sz) == Appended(f, <<id>>, [i \in {id} |-> v], sz)
PackedAt(f, id, v) == Append(f, Bundle(LastSize(f), [n \in {id[1]} |-> v]))
Located(num, offset) == [id \in {<<num, 0>>} |-> Plain(offset)]

\* The revisions of other programs.  A hybrid one hides the object from readers
\* of tables; a freed one gets a free entry with the next generation; damage
\* shifts the bytes, and only sections that are tables are found again (by
\* nearby_classic_xref_offset).
RevisedBy(w, f, id, v) ==
    LET sz == LastSize(f)
        es == [i \in {id} |-> Packed(sz)]
        own == OrInsert(Located(sz, Len(f) + 1), Located(sz + 1, Len(f) + 2))
    IN  CASE w = "change" -> Changed(f, id, v + 1, sz)
          [] w = "add" -> Changed(f, <<sz, 0>>, 0, sz + 1)
          [] w = "cycle" ->
                LET g == Changed(f, id, v + 1, sz)
                IN  [g EXCEPT ![Len(g)] = [@ EXCEPT !.prev = Len(g)]]
          [] w = "pack" ->
                Append(PackedAt(f, id, v + 1),
                       Section(sz + 1, OrInsert(es, own), StartXref(f), 0, sz + 2))
          [] w = "hybrid" ->
                PackedAt(f, id, v + 1)
                \o <<Section(sz + 1, es, 0, 0, sz + 2),
                     Section(0, OrInsert([i \in {<<id[1], Top>>} |-> Free], own),
                             StartXref(f), Len(f) + 2, sz + 2)>>
          [] w = "free" ->
                Append(f, Section(0, [i \in {<<id[1], id[2] + 1>>} |-> Free],
                                  StartXref(f), 0, sz))
          [] w = "damage" ->
                [p \in DOMAIN f |->
                   IF f[p].kind # "section" THEN f[p]
                   ELSE [f[p] EXCEPT !.entries =
                           [i \in DOMAIN @ |-> IF @[i].type = "plain" THEN Plain(0) ELSE @[i]]]]

OnlyTables(f) == \A p \in DOMAIN f : f[p].kind = "section" => f[p].num = 0 /\ f[p].stm = 0

\* An open reader works on bytes of its own, and a save writes over whatever was
\* written meanwhile: other programs are let in between sessions only.
Revise ==
    /\ mode = "closed"
    /\ \E w \in Writers, id \in Ids :
          /\ doc[id] \in 0..(MaxVersion - 1) /\ id[2] = 0
          /\ w = "damage" => OnlyTables(file)
          /\ file' = RevisedBy(w, file, id, doc[id])
          /\ Len(file') <= MaxItems /\ LastSize(file') <= MaxNumber + 1
    /\ doc' = Meaning(file')
    /\ UNCHANGED <<readerVars, forms, edits>>

-----------------------------------------------------------------------------
\* A document of two objects, as a table or as an object stream.
Fresh ==
    {<<Object(1, 0, 0), Object(2, 0, 0),
       Section(0, OrInsert(Located(1, 1), Located(2, 2)), 0, 0, 3)>>,
     <<Bundle(3, [n \in {1, 2} |-> 0]),
       Section(4, OrInsert([id \in {<<1, 0>>, <<2, 0>>} |-> Packed(3)],
                           OrInsert(Located(3, 1), Located(4, 2))), 0, 0, 5)>>}

Init ==
    /\ file \in Fresh /\ doc = Meaning(file)
    /\ base = <<>> /\ mode = "closed"
    /\ next = 0 /\ visited = {} /\ xref = <<>> /\ size = 0
    /\ forms = {} /\ edits = {}

Walk == ReadSection \/ FindCycle \/ Repair

Next ==
    \/ Open \/ Walk \/ Close \/ Save \/ Revise
    \/ \E id \in object_ids : FillForm(id) \/ EditPage(id)

Spec == Init /\ [][Next]_vars

\* open_bytes runs its loop to the end.
FairSpec == Spec /\ WF_vars(Walk)

-----------------------------------------------------------------------------
(***************************************************************************)
(* Properties                                                              *)
(***************************************************************************)

Entry == {Plain(o) : o \in Offsets} \cup {Packed(n) : n \in Numbers} \cup {Free}

TypeOK ==
    /\ mode \in {"closed", "walking", "open", "failed"}
    /\ next \in Offsets
    /\ visited \subseteq DOMAIN base
    /\ DOMAIN xref \subseteq Ids
    /\ Range(xref) \subseteq Entry
    /\ size \in 0..(MaxNumber + 1)
    /\ forms \cup edits \subseteq object_ids
    /\ \A f \in {file, base} : \A p \in DOMAIN f :
          f[p].kind = "section" => /\ DOMAIN f[p].entries \subseteq Ids
                                   /\ Range(f[p].entries) \subseteq Entry

\* However a file was revised, by whom and how often, an open reader shows
\* each object as it was last written, and a save writes what was opened with
\* every queued edit applied once, and nothing over an object it did not edit
\* (read_xref_chain, repair_uncompressed_xref_offsets, build_changes and the
\* two writers together).
Document == INSTANCE PdfRevisions WITH
    view <- IF mode = "open" THEN [id \in Ids |-> Shown(id)] ELSE Closed
ImplementsRevisions == Document!Spec

\* /Size of the newest section exceeds every object number of a file, and the
\* editor's new numbers were never used in it, not even by an object that a later
\* revision replaced or hid: no old reference can reach a new object.
NumbersAreFresh ==
    LET Below(f, limit) ==
            \A p \in DOMAIN f :
                /\ f[p].num < limit
                /\ f[p].kind = "bundle" => \A n \in DOMAIN f[p].value : n < limit
    IN  /\ TypeOK
        /\ Below(file, LastSize(file))
        /\ mode = "open" => Below(base, next_free_object_number)

\* Every walk over the chain comes to an end, and gives up only on a chain that
\* really runs in a circle: hybrid sections, revisions over damaged ones and
\* rewritten files do not look cyclic.
WalkSettles ==
    mode = "walking" ~>
        \/ mode = "open"
        \/ mode = "failed" /\ \E p \in Revisions(base) : base[p].prev >= p
===============================================================================
