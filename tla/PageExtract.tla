---------------------------- MODULE PageExtract ----------------------------
(***************************************************************************)
(* Text extraction over pages in parallel (crates/engine/src/text/         *)
(* extractor.rs): rayon workers share one parsed document, and every page  *)
(* is found by walking the page tree (document.rs) through PdfReader's     *)
(* get_object, whose object streams are parsed once and kept in a cache    *)
(* behind a lock (reader.rs).                                              *)
(*                                                                         *)
(* A worker's get_object calls form a stack of frames, because reading an  *)
(* object stream reads objects again: its own number and its indirect      *)
(* /Length.  A frame is at                                                 *)
(*   entry    looking its number up in the cross-reference                 *)
(*   length   waiting for the indirect /Length    whole   having it        *)
(*   look     asking the cache, read lock         parse   awaiting the     *)
(*                                                        stream object    *)
(*   parsed   wanting the write lock              store   holding it       *)
(*   read     taking the object from the cache, read lock                  *)
(***************************************************************************)
EXTENDS PageTree, StreamCache

CONSTANTS
    Request,        \* the page numbers asked for, in order
    Documents,      \* the documents considered
    Rotations,      \* the rotations asked for: <<pages, mode, degrees>>
    Pending

ASSUME ExtractAssumption == Request \in Seq(Nat)

VARIABLES
    doc,        \* the document, which extraction only reads
    worker,     \* what each worker is doing
    total,      \* page_count, Pending until the caller knows it
    out,        \* page_strings: one slot per requested page
    rotated,    \* the document rotate_pages wrote, Pending before it ran
    serial      \* history: the pages of the document, Error if it has none to give

vars == <<doc, cache, writer, worker, total, out, rotated, serial>>

Count == 0      \* the job that counts the pages; job i > 0 is Request[i]

Idle == [job |-> -1, walks |-> 0, stack |-> <<>>, seen |-> {}, at |-> "none",
         todo |-> <<>>, visited |-> {}, pages |-> <<>>, content |-> <<>>]

Init ==
    /\ doc \in Documents
    /\ cache = << >>
    /\ writer = Nobody
    /\ worker = [w \in Workers |-> Idle]
    /\ total = Pending
    /\ out = [i \in DOMAIN Request |-> Pending]
    /\ rotated = Pending
    /\ serial = PagesOf(doc)

-----------------------------------------------------------------------------
(* Worker records                                                           *)

Frame(n) == [num |-> n, at |-> "entry"]
Top(w) == Last(worker[w].stack)
StreamOf(n) == doc.entry[n].stream

(* get_and_resolve: read the object and follow it while it is a reference.   *)
GetAndResolve(r, n) == [r EXCEPT !.stack = <<Frame(n)>>, !.seen = {n}]

(* get_pages begins with the catalog.                                        *)
StartWalk(r) ==
    GetAndResolve([r EXCEPT !.at = "catalog", !.todo = <<>>, !.visited = {}, !.pages = <<>>],
                  Root)

At(r, place) == [r EXCEPT !.stack[Len(r.stack)].at = place]
Call(r, place, n) == [At(r, place) EXCEPT !.stack = Append(@, Frame(n))]

(* The content streams still to read, the head being read now.               *)
NextContent(r) ==
    LET left == Tail(r.todo) IN
    [r EXCEPT !.todo = left, !.stack = IF left = <<>> THEN <<>> ELSE <<Frame(Head(left))>>]

(* An error leaves every frame and the walk: each call is followed by `?`.   *)
(* Only a content stream that cannot be read is skipped.                     *)
Failed(r) ==
    IF r.at = "content" THEN NextContent(r)
    ELSE [r EXCEPT !.at = "failed", !.stack = <<>>, !.todo = <<>>]

(* The next kid not yet visited is marked and read; with none left the walk  *)
(* is over.                                                                  *)
NextKid(r) ==
    LET left == SelectSeq(r.todo, LAMBDA k : k.num \notin r.visited) IN
    IF left = <<>> THEN [r EXCEPT !.at = "walked", !.stack = <<>>, !.todo = <<>>]
    ELSE GetAndResolve([r EXCEPT !.at = "node", !.todo = left,
                                 !.visited = @ \cup {Head(left).num}], Head(left).num)

\* Faulty variant: a leaf's own attributes stay for the kids after it.
WalkNodeNoClone(r, o) ==
    LET attrs == Overlay(o.attrs, Head(r.todo).attrs) IN
    IF o.kind # "dict" \/ (\E k \in DOMAIN attrs : attrs[k] = Bad) THEN Failed(r)
    ELSE IF o.hasKids
    THEN NextKid([r EXCEPT !.todo =
            [i \in DOMAIN o.kids |-> [num |-> o.kids[i], attrs |-> attrs]] \o Tail(@)])
    ELSE NextKid([r EXCEPT !.todo = [i \in DOMAIN Tail(@) |-> [Tail(@)[i] EXCEPT !.attrs = attrs]],
            !.pages = Append(@, BuildPage(Head(r.todo).num, attrs, o.contents, o.cipher))])

(* walk_page_tree on the object read for the head of todo.                   *)
WalkNode(r, o) ==
    LET attrs == Overlay(o.attrs, Head(r.todo).attrs) IN
    IF o.kind # "dict" \/ (\E k \in DOMAIN attrs : attrs[k] = Bad) THEN Failed(r)
    ELSE IF o.hasKids
    THEN NextKid([r EXCEPT !.todo =
            [i \in DOMAIN o.kids |-> [num |-> o.kids[i], attrs |-> attrs]] \o Tail(@)])
    ELSE NextKid([r EXCEPT !.todo = Tail(@),
            !.pages = Append(@, BuildPage(Head(r.todo).num, attrs, o.contents, o.cipher))])

(* get_pages on the catalog: its /Pages is the first node.                   *)
EnterTree(r, o) ==
    IF o.kind # "catalog" THEN Failed(r)
    ELSE NextKid([r EXCEPT !.todo = <<[num |-> o.pages, attrs |-> << >>]>>])

(* get_page_content_bytes on an object read: only streams have bytes to add. *)
AddContent(r, o) ==
    NextContent(IF o.kind = "stream" /\ o.cipher = "clear"
                THEN [r EXCEPT !.content = Append(@, Head(r.todo))] ELSE r)

(* The innermost get_object returns o to whoever called it.                  *)
Return(r, o) ==
    LET callers == Front(r.stack)
        back    == [r EXCEPT !.stack = callers]
    IN  CASE callers # <<>> /\ Last(callers).at = "length" ->
                IF o.kind = "int" THEN At(back, "whole") ELSE Failed(r)
          [] callers # <<>> /\ Last(callers).at = "parse" ->
                IF o.kind = "objstm" /\ o.cipher = "clear" THEN At(back, "parsed") ELSE Failed(r)
          [] callers = <<>> /\ r.at = "content" -> AddContent(r, o)
          [] callers = <<>> /\ r.at # "content" /\ o.kind = "ref" ->
                IF o.to \in r.seen THEN Failed(r)
                ELSE [r EXCEPT !.stack = <<Frame(o.to)>>, !.seen = @ \cup {o.to}]
          [] callers = <<>> /\ o.kind # "ref" /\ r.at = "catalog" -> EnterTree(r, o)
          [] OTHER -> WalkNode(r, o)

(* decrypt_object: deciphering what is already clear garbles it.             *)
Decrypt(o) ==
    IF ~doc.encrypted THEN o
    ELSE [o EXCEPT !.cipher = IF @ = "enciphered" THEN "clear" ELSE "garbled"]

(* A plain object as the file holds it, and one inside the decoded bytes of  *)
(* its object stream, whose bytes were deciphered as a whole.                *)
InFile(n) == [doc.obj[n] EXCEPT !.cipher = IF doc.encrypted THEN "enciphered" ELSE "clear"]

-----------------------------------------------------------------------------
(* get_object                                                               *)

Running(w) == worker[w].stack # <<>>

(* The cross-reference lookup of the innermost call.  A plain stream with an *)
(* indirect length reads that first; a free entry is a missing object.       *)
LookUp(w) ==
    /\ Running(w) /\ Top(w).at = "entry"
    /\ LET r == worker[w]
           n == Top(w).num
       IN  worker' = [worker EXCEPT ![w] =
              CASE doc.entry[n].kind = "free"   -> Failed(r)
                [] doc.entry[n].kind = "packed" -> At(r, "look")
                [] doc.entry[n].kind = "plain" /\ doc.length[n] # NoNumber ->
                      Call(r, "length", doc.length[n])
                [] OTHER ->
                      Return(r, Decrypt(InFile(n)))]
    /\ UNCHANGED <<doc, cache, writer, total, out, rotated, serial>>

(* The plain stream's bytes are read now that its length is known.           *)
ReadWhole(w) ==
    /\ Running(w) /\ Top(w).at = "whole"
    /\ worker' = [worker EXCEPT ![w] = Return(@, Decrypt(InFile(Top(w).num)))]
    /\ UNCHANGED <<doc, cache, writer, total, out, rotated, serial>>

(* ensure_object_stream_cached asks under the read lock and lets go of it    *)
(* before parsing, which calls get_object again.                             *)
AskCache(w) ==
    /\ Running(w) /\ Top(w).at = "look"
    /\ Unlocked
    /\ worker' = [worker EXCEPT ![w] =
          IF StreamOf(Top(w).num) \in DOMAIN cache THEN At(@, "read")
          ELSE Call(@, "parse", StreamOf(Top(w).num))]
    /\ UNCHANGED <<doc, cache, writer, total, out, rotated, serial>>

(* The stream is parsed; the write lock is taken only now.                   *)
LockCache(w) ==
    /\ Running(w) /\ Top(w).at = "parsed"
    /\ Acquire(w)
    /\ worker' = [worker EXCEPT ![w] = At(@, "store")]
    /\ UNCHANGED <<doc, cache, total, out, rotated, serial>>

\* Faulty variant: the new stream replaces the others.
StoreParsedAlone(w) ==
    /\ Running(w) /\ Top(w).at = "store"
    /\ writer = w
    /\ LET s == StreamOf(Top(w).num) IN cache' = s :> ParsedStream(doc, s)
    /\ writer' = Nobody
    /\ worker' = [worker EXCEPT ![w] = At(@, "read")]
    /\ UNCHANGED <<doc, total, out, rotated, serial>>

StoreParsed(w) ==
    /\ Running(w) /\ Top(w).at = "store"
    /\ LET s == StreamOf(Top(w).num) IN Store(w, s, ParsedStream(doc, s))
    /\ worker' = [worker EXCEPT ![w] = At(@, "read")]
    /\ UNCHANGED <<doc, total, out, rotated, serial>>

\* Faulty variant: a number that is not found is looked up again.
ReadPackedAgain(w) ==
    /\ Running(w) /\ Top(w).at = "read"
    /\ Unlocked
    /\ LET n == Top(w).num
           s == StreamOf(n)
       IN  worker' = [worker EXCEPT ![w] =
              IF s \in DOMAIN cache /\ n \in DOMAIN cache[s]
                                    /\ cache[s][n].index = doc.entry[n].index
              THEN Return(@, cache[s][n].obj) ELSE At(@, "look")]
    /\ UNCHANGED <<doc, cache, writer, total, out, rotated, serial>>

(* The object is taken from the cache, not deciphered again; a number the    *)
(* stream does not list, or lists at another index, is a missing object.     *)
ReadPacked(w) ==
    /\ Running(w) /\ Top(w).at = "read"
    /\ Unlocked
    /\ LET n == Top(w).num
           s == StreamOf(n)
       IN  worker' = [worker EXCEPT ![w] =
              IF s \in DOMAIN cache /\ n \in DOMAIN cache[s]
                                    /\ cache[s][n].index = doc.entry[n].index
              THEN Return(@, cache[s][n].obj) ELSE Failed(@)]
    /\ UNCHANGED <<doc, cache, writer, total, out, rotated, serial>>

-----------------------------------------------------------------------------
(* Pages                                                                    *)

(* extract counts the pages before it hands any out.                         *)
StartCount(w) ==
    /\ total = Pending
    /\ \A v \in Workers : worker[v] = Idle
    /\ worker' = [worker EXCEPT ![w] = StartWalk([Idle EXCEPT !.job = Count, !.walks = 1])]
    /\ UNCHANGED <<doc, cache, writer, total, out, rotated, serial>>

(* A worker takes any requested page that nobody has; one out of range is    *)
(* skipped without reading.                                                  *)
TakePage(w) ==
    /\ total \in Nat
    /\ worker[w] = Idle
    /\ \E i \in DOMAIN Request :
          /\ out[i] = Pending
          /\ \A v \in Workers : worker[v].job # i
          /\ IF Request[i] \in 1..total
             THEN /\ worker' = [worker EXCEPT ![w] =
                        StartWalk([Idle EXCEPT !.job = i, !.walks = 4])]
                  /\ UNCHANGED out
             ELSE /\ out' = [out EXCEPT ![i] = Error]
                  /\ UNCHANGED worker
    /\ UNCHANGED <<doc, cache, writer, total, rotated, serial>>

(* A walk has ended.  A page's extraction walks the tree four times: to      *)
(* validate the number, for the content, and both again for the resources.   *)
(* The count's error is the caller's; a page's is that page's alone.         *)
EndWalk(w) ==
    LET r == worker[w]
        number == Request[r.job]
        finish(result) ==
            /\ worker' = [worker EXCEPT ![w] = Idle]
            /\ total' = IF r.job = Count THEN result ELSE total
            /\ out' = IF r.job = Count THEN out ELSE [out EXCEPT ![r.job] = result]
        go(next) == worker' = [worker EXCEPT ![w] = next] /\ UNCHANGED <<total, out>>
    IN  /\ r.job >= Count /\ r.stack = <<>>
        /\ CASE r.at = "failed" -> finish(Error)
             [] r.at = "walked" /\ r.job = Count -> finish(Len(r.pages))
             [] r.at = "walked" /\ r.job > 0 /\ number > Len(r.pages) -> finish(Error)
             [] r.at = "walked" /\ r.job > 0 /\ number <= Len(r.pages) /\ r.walks = 3
                                /\ r.pages[number].contents # <<>> ->
                    go([r EXCEPT !.at = "content", !.todo = r.pages[number].contents,
                                 !.stack = <<Frame(r.pages[number].contents[1])>>])
             [] r.at = "walked" /\ r.job > 0 /\ number <= Len(r.pages) /\ r.walks = 1 ->
                    finish([page |-> r.pages[number], content |-> r.content])
             [] OTHER -> go(StartWalk([r EXCEPT !.walks = @ - 1]))
        /\ UNCHANGED <<doc, cache, writer, rotated, serial>>

Extracted == total = Error \/ (total \in Nat /\ \A i \in DOMAIN out : out[i] # Pending)

(* Afterwards the document is rotated; get_page gives rotate_pages each      *)
(* page's inherited angle.                                                   *)
RotatePages ==
    /\ Extracted /\ total \in Nat
    /\ rotated = Pending
    /\ \E a \in Rotations :
          rotated' = [by |-> a, doc |-> Rotated(doc, serial, a[1], a[2], a[3])]
    /\ UNCHANGED <<doc, cache, writer, worker, total, out, serial>>

Done ==
    /\ Extracted /\ (total = Error \/ rotated # Pending)
    /\ UNCHANGED vars

WorkerStep(w) ==
    \/ LookUp(w) \/ ReadWhole(w) \/ AskCache(w) \/ LockCache(w) \/ StoreParsed(w)
    \/ ReadPacked(w) \/ StartCount(w) \/ TakePage(w) \/ EndWalk(w)

Next == (\E w \in Workers : WorkerStep(w)) \/ RotatePages \/ Done

Spec == Init /\ [][Next]_vars

(* A thread that can run runs: the scheduler is fair to each.                *)
FairSpec == Spec /\ \A w \in Workers : WF_vars(WorkerStep(w))

-----------------------------------------------------------------------------
(* Properties                                                               *)

Places == {"entry", "length", "whole", "look", "parse", "parsed", "store", "read"}

(* Every worker has a stack of calls at known places, and every slot a page  *)
(* turned by whole quarters, an error or nothing yet.  The write lock is held *)
(* only to store what is already parsed, never while objects are read.       *)
TypeOK ==
    /\ DOMAIN cache \subseteq Numbers
    /\ writer \in Workers \cup {Nobody}
    /\ \A w \in Workers :
          /\ worker[w].job \in -1..Len(Request)
          /\ \A i \in DOMAIN worker[w].stack :
                worker[w].stack[i].num \in Numbers /\ worker[w].stack[i].at \in Places
    /\ total \in Nat \cup {Pending, Error}
    /\ DOMAIN out = DOMAIN Request
    /\ \A i \in DOMAIN out :
          out[i] \notin {Pending, Error} => out[i].page.rotate \in {0, 90, 180, 270}
    /\ \A w \in Workers : writer = w => Running(w) /\ Top(w).at = "store"

(* Extraction over any number of threads gives what one reading of the tree  *)
(* gives: the count, and in each slot the page of that number in document    *)
(* order, with the attributes of its nearest ancestors, each page once, its  *)
(* text deciphered once; a slot is empty only for a page out of range or a   *)
(* tree that cannot be read (extractor.rs: byte-identical to serial).        *)
AgreesWithTree ==
    LET pages == serial IN
    /\ TypeOK
    /\ total # Pending => total = IF pages = Error THEN Error ELSE Len(pages)
    /\ \A i \in DOMAIN Request :
          out[i] # Pending =>
              out[i] = IF pages # Error /\ Request[i] \in DOMAIN pages
                       THEN [page    |-> pages[Request[i]],
                             content |-> ContentOf(doc, pages[Request[i]])]
                       ELSE Error

(* Workers never wait for each other for ever: every page is extracted even  *)
(* when parsing one object stream has to read another.                       *)
Finishes == <>Extracted

(* After a rotation every page is read back at the angle it was asked for,   *)
(* offset from the angle it inherited; the pages not asked for, and every    *)
(* box, are as before (structural.rs: correct wherever it was inherited).    *)
RotationIsEffective ==
    rotated # Pending =>
        LET before  == serial
            targets == Selected(rotated.by[1], Len(before))
            Typed(i) == doc.obj[before[i].object].kind = "dict"
                        /\ doc.obj[before[i].object].type = "Page"
        IN  IF targets = {} THEN rotated.doc = Error
            ELSE PagesOf(rotated.doc) =
                    [i \in DOMAIN before |->
                        IF i \in targets /\ Typed(i)
                        THEN [before[i] EXCEPT !.rotate =
                                 NewAngle(rotated.by[2], rotated.by[3], @)]
                        ELSE before[i]]
=============================================================================
