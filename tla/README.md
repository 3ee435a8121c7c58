# Verification of oxide-parser

TLA+ models of the stateful parts of oxide-parser, model-checked with TLC, and
proofs about them checked with TLAPS. Paths such as `jobs/worker.rs` are below
`crates/server/src`, `writer.rs` and the like below `crates/engine/src`.
`PROJECT.json` lists, in a form a program can read, the components, the runs, the
mutants that show each property can fail, the source lines behind each definition,
the hazards and the theorems.

- [1. The system and its parts](#1-the-system-and-its-parts)
- [2. The models](#2-the-models)
- [3. What the runs check](#3-what-the-runs-check)
- [4. What is proved](#4-what-is-proved)
- [5. Where code and words differ](#5-where-code-and-words-differ)
- [6. What is not modelled](#6-what-is-not-modelled)
- [7. Plan](#7-plan)

## 1. The system and its parts

oxide-parser reads, renders, extracts from, edits, signs and writes PDF files. It is
a Rust workspace: the engine (`crates/engine`), an HTTP server (`crates/server`), a
command line, and C, WebAssembly and Python bindings.

| Part | State it keeps | Operations | What makes it correct |
|---|---|---|---|
| Job store (`jobs/store.rs`) | a map from id to job under one lock | `create`, `mark_running`, `mark_completed`, `mark_failed`, `get`, `reap_expired` | bounded; states only move forward; a live job is never reaped |
| Job subsystem (`jobs/worker.rs`, `jobs/mod.rs`, `routes/jobs.rs`, `processing.rs`) | bounded channel, worker tasks, shared receiver, deadlines, result files, sweep | submit, poll, download, run a job, sweep, shut down | a job is run once, is never lost, ends; a result is whole while it is offered, and deleted afterwards |
| Rate limiter (`rate_limit.rs`) | one window (start, count) per key under a lock | `check`, `cleanup_expired` | never over quota within a window; memory bounded; a refused caller comes back |
| Glyph cache (`render/glyph_cache.rs`) | two maps and a counter | `get`, `insert`, `clear` | the maps agree; bounded; least recently used goes first |
| Merge, split, page extraction (`writer.rs`) | renumbering map, worklist, copied objects | `build_merged`, `build_subset` | exactly what the pages reach is copied, once, under contiguous numbers, with no dangling reference |
| Reader (`reader.rs`) | merged cross-reference table, object-stream cache behind a `RwLock`, file key | open, `get_object`, `object_ids`, `resolve` | each object reads as its newest revision, deciphered once; opening ends; nobody waits for ever |
| Page tree (`document.rs`), rotation (`structural.rs`), parallel extraction (`text/extractor.rs`) | one slot per page, visited set per walk | page walk with inheritance, count, rotate, extract pages | each leaf once, in order, whatever the threads do; walk ends on cycles |
| Editor and revision writers (`editing.rs`, `writer.rs`) | queued edits per page and field | edit calls, `save_to_bytes` in two modes | a save is what was opened plus every queued edit, once; new numbers are new |
| Encryption (`crypto.rs`, `writer.rs`, `reader.rs`) | file key and handler of a reader | encrypt, open with a password, decipher, save again | readable by those entitled and nobody else; nothing left in clear, nothing enciphered twice |
| Signatures (`signature.rs`) | a staged copy of the file while signing | sign, add long-term material, verify | verifies as long as its bytes are there; trust and coverage are true; prior bytes are kept |
| Content interpreter and renderer (`content/state.rs`, `render/page_renderer.rs`, `cancel.rs`) | graphics-state stack, nested render states, cancel token | operators, forms, groups, masks, tiles, annotations, polls of the token | a nested stream leaves its surroundings alone; success means the whole page; a tripped token ends a render |
| Vector output (`render/svg.rs`, `render/postscript.rs`) | the same, with clip stacks of their own | one pass over a page | same marks as the renderer, or an image instead |
| Chunker (`chunk.rs`) | heading stack, current passage | `chunk` | nothing lost or repeated; sections true; target and overlap kept |
| Linearization (`writer.rs`) | a plan, the copied objects, a layout repeated until it fits | `write_document_linearized` | every offset and hint is that of the file; the pages show what they showed |
| Optimize, compliance, authoring, attachments | none between calls | build or reorder an object graph | straight-line code over a graph |
| Object model, parser, filters, fonts, images, layout, OCR seam | per page or none | parse, decode, collect, order | data transformations, numeric or heuristic |
| Server shell (`app.rs`, `auth.rs`, `params.rs`, other routes), CLI, bindings | none, or a last-error slot | decode a request, call the engine | thin |

How the parts meet:

- The router's handlers share the rate limiter and the job subsystem through
  `Arc`s. Submission creates an entry in the store, then tries to send the id to
  a bounded tokio channel: two steps, with a roll-back between them.
- Worker tasks share the channel's receiver behind a tokio mutex. A worker takes
  a job, marks it running, starts the operation on a blocking thread with a
  `CancelToken`, waits for it or for the deadline, writes the result file and
  marks the job. Only the store's lock is shared with the handlers and the sweep.
- The sweep drops expired entries under the lock and deletes their files later.
  A download reads a snapshot under the lock and the file afterwards.
- The token is the one thing a render shares with the worker that started it: the
  renderer polls it between operators, in every stream it is in the middle of.
- The engine itself is called by value. Extraction spreads pages over rayon threads
  that share one `PdfReader`; its cache of parsed object streams is behind a lock
  that is not held while a stream is parsed, and parsing reads other objects.
- Reader, editor, signer and writers meet in the file. `save_to_bytes`,
  `sign_document` and `add_ltv_material` write bytes that a later `open_bytes` reads,
  in a chain with revisions by other programs. The reader deciphers what it hands
  out, so whatever writes again either enciphers anew or writes clear.

Where the difficulty is: interleavings of tasks at every `await`; state read under
a lock and used after it; two-step operations that fail in between; shutdown;
time (windows, retention, deadlines); long sequences of calls on hand-maintained
indexes; cyclic and shared references; revision chains; recursion of streams into
streams with state to put back; patches made into bytes that are already laid out.
The list with source lines is `hazards` in `PROJECT.json`.

## 2. The models

| Module | Models | Level |
|---|---|---|
| `JobStore` | `InMemoryJobStore`: one action formula per method | code |
| `JobSystem` (EXTENDS `JobStore`) | everything around it: handlers, channel, workers, deadline, files, sweep, shutdown, restart | code |
| `JobService` | the lifecycle a client is promised; no worker, file or timer | abstract |
| `RateLimiter` | `RateLimiter::check`, `cleanup_expired`, the clock | code |
| `RateQuota` | a fixed-window quota over a bounded set of windows | abstract |
| `GlyphMaps` | the two maps of a `GlyphCache`, and what must be true of them | code |
| `GlyphCache` (EXTENDS `GlyphMaps`) | its methods | code |
| `LruCache` | a bounded cache as a recency order | abstract |
| `CopyClosure` | `build_merged_internal`, `DocCopier`, `copy_closure`, one loop turn per step | code |
| `XrefRevisions` | reader's walk and repair, editor, both writers, other programs | code |
| `PdfRevisions` | a document as a function from object to version; open, edit, save | abstract |
| `PageTree` | catalog, page tree, attributes, rotation as functions of a document; `PagesOf`, the pages stated by paths | reference |
| `StreamCache` | the cache of parsed object streams and its lock | code |
| `PageExtract` (EXTENDS `PageTree`, `StreamCache`) | workers that walk the tree through `get_object` and the shared cache; counting; `rotate_pages` | code |
| `PageRender` | the interpreter: one step per operator, streams within streams, the token | code |
| `ImagingModel` (EXTENDS `PageRender`) | what a page shows, as one recursive function | reference |
| `VectorOutput` (EXTENDS `ImagingModel`) | SVG and PostScript of a page | code |
| `Chunker` | `chunk`, one piece per step | code |
| `Signatures` | `sign_document`, `add_ltv_material`, verification, saves in between | code |
| `Encryption` | security handler, writers, rewriting and reading back | code |
| `Linearization` | `write_document_linearized`: plan, copy, layout, hint tables | code |
| `*Proofs` | theorems and proofs about the module of that name; `MapProofs` about `RateLimiter`, `GlyphCache` and `PageExtract` | proof |
| `MC*` | model values, symmetry and bounded inputs for TLC | checking |

**JobStore and JobSystem.** `status[j]` is the job's place in its life; ids not in
the map are `free`, `reaped`, or `lost` by a restart. Time is relative: `finished[j]`
is the age of `finished_at`, `Tick` ages it and stops at the retention window,
since nothing tells larger ages apart. `pc[w]` is the place of worker `w` in
`worker_loop`; each `await` and each lock-protected section is one step, because
nothing else can be observed between them. `sub[j]` is the place of the submit
handler: `Submit` (create, or 503 when the store is full), `TrySend` (into the
channel, full, or closed), `RollBack` (mark as failed). `Lock`, `Recv`, `RecvClosed`
are the mutex and the channel; `StartJob` the three calls that follow; `WorkReturns`
and `Trip` the race of work and deadline; `OpenFile`/`WriteFile` the two halves of
`fs::write`, each of which may fail; `Complete` and `Fail` the end. `Reap` takes
expired entries, `RemoveFile` deletes their files one by one. `Fetch`, `ReadFile`
are a download. `DropSender`, `DropGuards`, `AbortWorker`, `AbortSweeper` and
`Restart` are the ways to stop. In production `app.rs:96-106` forgets the guards,
so tasks are aborted only when the runtime goes down, and in tests; the abort
steps stand for both. What a render computes is its outcome: success, an error
code, or, after its token tripped, "timeout". `readAt` is the `now` read before
the result is written and used after it.

**RateLimiter.** A window is the age of its start and its count; `age` stops at
`Window`, where every window is over. `Check` is the whole of `check`: backstop
sweep, eviction of the oldest window, reset of an elapsed window, count or
refusal. `history` only records admissions for `RollingTwice`; the code has no
such state, and it is forgotten when a window is evicted.

**GlyphMaps and GlyphCache.** `glyph` and `stamp` are the two halves of `entries`, `order` the
`BTreeMap` from stamp to key, `next_seq` the counter, bounded by `MaxSeq` in the
guards (a `u64` in the code), `found` what the last `get` returned. A stamp that came
up twice would violate `TypeOK`. `GlyphMaps` holds the state and the properties,
`GlyphCache` the methods, so that one proof module can speak of several caches.

**CopyClosure.** A source document is a reference graph with a condition per
object, a page selection and whether it has `/Info`. Objects, names and bytes are
gone: an object is the list of references `collect_references` finds, in order.
`pc` says which loop runs; `Discover` looks at one reference, `Copy` and
`CopyMissing` take an object off the worklist, `Leaf` writes a page, `Emit` flushes
a document's copies, `Finish` writes page tree and catalog under the numbers 1 and
2 that were kept for them. `get_object(n, 0)` fails for an object of another
generation, hence the condition "regenerated".

**XrefRevisions.** A file is a sequence of items, an offset is a place in it, and
an object is its version: the number of edits it has seen, or `Stream`. So an edit
that is lost, applied twice or read from the wrong revision changes a number.
`Open`, `ReadSection`, `FindCycle`, `Repair` are `from_bytes`: one section of the
chain per step, entries merged with first-wins, `/XRefStm` right after its table.
`FillForm` and `EditPage` queue edits; `Save` builds the change set (forms first,
pages on top, a new content stream per page) and writes it as an incremental update
or as a full rewrite. `save_to_bytes` takes `&self`, so a session may save again
with its edits still queued, and does in the model. A save the code refuses
(another generation, an unreadable object) changes nothing and is no step.
`Revise` is the rest of the world: tables, added objects, object streams, hybrid
sections, cyclic chains, bytes shifted by a careless transfer. `doc` is
`Meaning(file)` kept beside the file; `Meaning` is stated without the reader: the
newest revision that mentions a number decides, and the last version written is
the object.

**PageTree, StreamCache and PageExtract.** A document says where each number is (free, plain, or
packed in an object stream at an index), what it is, and which streams have an
indirect `/Length`. A worker's `get_object` calls are a stack of frames, because
reading an object stream reads objects again; each acquisition and release of the
cache's lock is a step (`StreamCache` has the map and the lock, `PageExtract` when they
are asked). `page_count` runs before the parallel part, as in
`extractor.rs`, and warms the cache with all the tree is packed in, so the races that
remain come from the contents' indirect lengths. A page is found by walking the tree
from the root, as `get_page` does. `PagesOf` gives the same pages by the paths of the
tree: a leaf belongs to the first path that reaches it, and its attributes are those
of its nearest ancestor. `serial` is what one reading of the document gives, kept
beside the threads' result. `RotatePages` writes the document that `rotate_pages`
would, which is then read by the same definitions.

**PageRender, ImagingModel, VectorOutput.** `frames` has an entry per running
`dispatch_all`, `states` one per `RenderState`: groups and soft masks get one of their
own, everything else shares its caller's, which is where state leaks if it is not put
back. A pixel buffer is the list of marks made on it, each with everything its
pixels depend on: path, matrix, clip, soft mask, alpha, blend mode, and the marks of
the group painted. `OkIsWholePage` compares the page's marks with those of
`ImagingModel`, which draws by plain recursion over one graphics state. The clip, soft
mask and blend mode live in vectors beside the state in the code and are aligned
with it by hand (`clip_stack`, `smask_stack`); the reference has them in the state.
`Cancel` may come at any operator; `late` counts the operators dispatched since.
`VectorOutput` computes the marks of the SVG and the PostScript of the same page, or
that it falls back to an image.

**Chunker.** A piece is known by its position; its text is the token counts of its
sentences, which is all that `estimate_tokens`, packing and splitting see of it. A
step takes one piece: furniture and printed captions are gone before, a heading is
entered into the stack, an atomic block or an oversized piece flushes what was
collected, anything else is packed, with the overlap carried over at each flush.

**Signatures.** A file is a sequence of cells: what a byte range can separate. A
signature is laid out with placeholders, its range computed and patched over the bytes
it is a range of, then hashed, then filled: `pc` goes through these on a staged copy.
Verification is an operator that reads the file as it is. `made` remembers every
signature returned, with the file it came in, so that `VerdictIsTrue` can compare a
verdict with what became of the bytes; `given` the signatures that the last call of
`add_ltv_material` was to cover with revocation material, so that `LevelIsEarned` can
compare the reported level with what was asked for. A full save and an incremental one
come in between, as do files of other producers with left-over placeholders.

**Encryption.** A cell is a string or a stream: a content and the keys it is under,
outermost last; so twice enciphered, deciphered with the wrong key, or left in clear
are different cells. A file key is made of what it is derived from. `Encrypt`,
`Rewrite`, `Update` and `Open` are the calls that read a file and write one; every
object remembers the object stream it is in, whose own cipher covers it. `truth` is
what was last written, `holders` the user and the owner password the file was made
for, `blind` that it was saved by a reader without the attachments' password.

**Linearization.** An object is its type, the objects each of its keys refers to and
a box; what reads the attributes of a page (`get_pages`) is part of the document.
`Plan`, `Copy`, `Place` are the passes of `write_document_linearized`: the groups and
numbers of `build_linearization_source_plan`, the normalised copy without what became
unreachable, and `LinearizedObjectLayout`, which fails (`PlaceFails`) when a planned
object is gone. Then each turn of the loop is a step, `Write` or `Grow`: the compressed
streams come to any of a few lengths, since theirs depend on every offset. The output
is a sequence of parts with lengths, so that an offset can be right or wrong. The
entries of the file's own four structures, and the number width of the hint tables,
are left out.

### Constants and bounds

| Bound | Why it is enough |
|---|---|
| `JobShutdown`: 3 ids, 2 workers, queue of 1, store of 2, faults at open, write and remove, both ways to stop, one restart | one job running, one waiting and one refused at the same time; a second worker to race for the mutex; the store full while entries are reaped; a second crash meets the same states |
| `JobLiveness`: 2 ids, 2 workers, faults at open, stop by dropping the router | a job at work while another waits; the liveness of a third adds nothing |
| retention 1 tick | an entry that is young, one that is due |
| 3 keys over 2 windows, limit 2, window 3 | every request over the cap evicts; a window has a start, a middle and an end |
| 4 keys, 3 places, 9 stamps | eviction, re-insertion and overwriting in every order |
| 3 objects, 2 documents; `MaxClosure` 3 | cycles, self references, repeats, diamonds, a leaf among resources, unreadable objects; numbers carried from document to document |
| 6 object numbers, 7 items, 2 edits per object | a base of either form, a hybrid or two plain revisions on top, an incremental save over any of them; a rewrite makes room, so revisions go on until the numbers run out |
| `PageExtract`: 2 workers, 10 objects, 2 object streams | a stream that is read while another is parsed; both threads missing the same one; trees with a cycle, a shared kid, an alias, an odd angle |
| `PageRender`: nesting limit 2 (8 in the code), 2 tiles (20,000), poll every 2 operators (64) | a form in a form at the limit and one below it; a fill under and over the tile cap; a tile that sets a soft mask outside `q` and `Q`; a poll that is due and one that is not |
| `Chunker`: target 3, overlap 0, 1 or 2, bodies of up to 4 blocks of 12 shapes | a block under, at and over the target, one whose sentences are each over it; two levels of headings and their siblings |
| `Signatures`: 4 calls, ranges up to 30 cells, blobs of 2 bytes, 0, 2 or 3 reserved | a blob that fits, one that is padded and one that does not fit; two signatures and two saves in any order |
| `Encryption`: 5 objects, 6 passwords, 13 files, 9 requests, 3 calls, 1 object per object stream (200) | two passwords that a legacy handler cannot tell apart, and one that its padding begins with; attachments enciphered alone, one with a filter of its own; every way to be enciphered by another program, then twice enciphered or saved here |
| `Linearization`: 8 objects, 2 or 3 pages, lengths 1 to 3; streams of 1 or 3 in 2 and 1 reserved (256 and 128 in the code), slack 1 (64), 3 turns (30) | objects of the first page, of another alone, of two others, of the tree, the form, the outlines and of nothing; a stream that fits at once, one that needs a turn more, padding of each |

The proofs need none of these bounds.

Deadlock checking is off where the modelled run really ends: job ids are drawn from
a finite set and a shut-down pool stops (`Job*`), the merge and the chunker finish,
the file is written (`Linearization`) or reaches its length or number bound
(`XrefRevisions`), the calls are used up
(`Signatures`). It is on for the rest; for `PageExtract` it is what finds two
threads waiting for each other.

### Fairness

- Jobs: a task that can go on is polled again; tokio's mutex and channel wake a
  waiter; timers fire; the sweep's interval ticks. So each step of a handler that
  has begun, of a worker and of the sweep is weakly fair. Fairness of `Lock` is for
  the set of workers, not for each. A render is assumed to return only once its
  token is tripped; an extraction never looks at its token and is assumed to return
  by itself. Nothing is assumed of clients, faults, shutdown or crashes.
- Merge and reader: the loop goes on; each is a function that runs to its end.
- Extraction: each rayon thread is scheduled again (weak fairness per worker); a lock
  that is free may be taken, and nothing more is assumed of who gets it.
- Renderer: its own thread runs (`Work`); nothing is assumed of the token, so a page
  ends whether or not it is cancelled.
- Limiter, cache, chunker, signatures, encryption, linearization: none; safety only.

## 3. What the runs check

| Run | Question | Result |
|---|---|---|
| `JobShutdown` | Two workers, every fault, tasks aborted at any await, a crash and a restart: is each accepted job in exactly one place from which it goes on (`JobsHeldOnce`), its state moving forward only (`StatusForward`), its file whole while it is offered (`CompletedHasFile`) and served whole or not at all (`DownloadAnswers`)? | holds |
| `JobLiveness` | Does the client see the lifecycle of `docs/jobs.md` (`ImplementsService`), is every file on its way to be deleted (`NoOrphanFile`), does every entry end and go (`EverythingReclaimed`) and the pool drain when the router is dropped (`DrainsOnClose`)? | holds |
| `RateLimiter` | Is the limiter the fixed-window quota, whenever sweep and backstop run (`ImplementsQuota`), and does a rolling window admit at most twice the limit (`RollingTwice`)? | holds |
| `GlyphCache` | Do the maps agree (`IndexExact`), and is it a least-recently-used cache (`ImplementsLru`)? | holds |
| `CopyMerge` | Is the copied set exactly the closure (`ClosureExact`), the output numbered without gaps and free of dangling references (`OutputExact`), and does the merge end (`Terminates`)? | holds |
| `XrefRevisions` | Does every reader show each object as last written and each save write what was opened plus its edits (`ImplementsRevisions`)? Are new numbers new (`NumbersAreFresh`)? Does opening end, refusing only real cycles (`WalkSettles`)? | holds |
| `PageExtract` | Do two threads give what one reading of the tree gives (`AgreesWithTree`), with a cache that never changes its mind (`CacheIsStable`), without waiting for each other for ever (`Finishes`, and deadlock)? Is a rotation read back as asked (`RotationIsEffective`)? | holds |
| `PageRender` | Is a page rendered as the imaging model says, or reported as cancelled (`OkIsWholePage`)? Do nested streams leave their surroundings alone (`NestedStreamsAreContained`)? Does the renderer stop soon when cancelled (`PromptlyCancelled`) and always return (`Returns`)? Do SVG and PostScript show the same (`VectorsShowContent`)? | holds |
| `Chunker` | Is nothing lost, repeated or reordered (`EveryPieceOnce`), the section of each chunk true (`SectionsAreTrue`), the target used and kept (`FilledToTarget`), the overlap context and no more (`OverlapIsContext`)? | holds |
| `Signatures` | Does a signature verify exactly while its bytes are there (`VerdictIsTrue`), is trust earned on all counts, revocation lists of an earlier `/DSS` included (`TrustIsEarned`), is the reported PAdES level the one the calls have earned (`LevelIsEarned`), and does no call touch earlier bytes (`PriorBytesKept`)? | holds |
| `Encryption` | Does whoever is entitled open a file (`OpensForHolders`) and read what was last written (`ReadsBack`), with nothing left in clear (`NothingInClear`)? | holds |
| `Linearization` | Is every offset and hint that of the file, and does a viewer that follows the hints fetch exactly what a page shows (`LocationsAreTrue`)? Do the pages show what they showed (`PagesAreKept`)? | holds |

Type invariants: `TypeOK` is proved for jobs, limiter, glyph cache and merge, with the
bounds and shapes their other theorems rest on, and so is not repeated in a run;
in `XrefRevisions`, `PageExtract`, `PageRender`, `Chunker`, `Signatures` and
`Encryption` it is a conjunct of an invariant of the run (of `OkIsWholePage` in
`PageRender`, of the first one elsewhere), and proved as well but in `PageExtract` and
`PageRender`. `Linearization` runs through once, and what it produces is checked as a
whole.

`JobShutdown` and `GlyphCache` use symmetry of ids, workers and keys; no liveness
property is checked with symmetry. The refinements (`ImplementsService`,
`ImplementsQuota`, `ImplementsLru`, `ImplementsRevisions`) are safety refinements:
the abstract specifications state no fairness.

Some properties have a condition that names what the code does not promise, each
listed in section 5: `OkIsWholePage` is about well-nested pages whose nested streams
leave no path behind, whose masks do not nest past the limit and whose tiles set
no soft mask outside `q` and `Q`; `NestedStreamsAreContained` about well-nested pages
until the token trips, and about the soft mask around a tile on pages where no tile
sets one outside `q` and `Q`; `VectorsShowContent` about pages without `gs` whose `q` and
`Q` are balanced, for SVG with one clip at most; `VerdictIsTrue` says that a blob with a
zero at its end never verifies; `LocationsAreTrue` and `PagesAreKept` leave untyped leaves and
indirect boxes out; `ReadsBack` an attachment, or a stream with a filter of its own, once the file was
opened or saved without the password, and streams that name a `/Crypt` filter once
they were rewritten. `RollingTwice` speaks of a caller whose window was kept.

Every property of a passing run has a mutant in `PROJECT.json`: a definition of the
model changed the way a bug would change the code, under which TLC finds the
property violated. The mutated forms stand in the modules as "faulty variants" next
to the definition they replace, and nothing else refers to them.

## 4. What is proved

All theorems hold for every value of the constants that meets the assumptions of the
modules, without the bounds of section 2. The assumptions say what the constants are,
and two of them more than that:

- `StoreAssumption`, `SystemAssumption`, `CacheAssumption`, `CopyAssumption`,
  `LimiterAssumption`, `ChunkerAssumption`, `SignaturesAssumption`, `LimitsAssumption`
  and `DocumentsAssumption`: limits are numbers (a worker, a queue place, a polling
  interval at least 1), documents are well-formed, a signer embeds its own
  certificate (`signature.rs:90`).
- `EncryptionAssumption`: whoever enciphers asks for enciphered metadata, as the
  command line always does (`cli/src/main.rs:2263`) and the default does. Without it
  `ReadsBack` fails: section 5.
- `OriginalsAssumption`: a file to start from is another program's, its numbers are in
  order, and it opens for the passwords it was made for and then reads as its first
  version. Files that this reader does not understand may be anything.
- `RevisionAssumption`: the bounds leave room for the first document of two objects and
  its table, and the markers for streams, nothing and a closed reader are told from
  numbers and from each other. `StreamAssumption`: nobody is no worker.
- `JobSystemProofs` states two theorems under a condition of their own, and so do
  `RevisionsAreKept` and `SlotsAreWrittenOnce`, given below.

**JobSystemProofs.** `TypeCorrect`, `StoreIsBounded`, `JobsRunOnce`,
`CompletedMeansWritten`, `DownloadsAreWhole`, `JobsAreHeld`, `JobsAreHeldOnce`,
`JobsMoveForward`, `FilesHaveKeepers`, `ServiceIsImplemented`. The
invariants lean on each other. `OneRunner` alone is not inductive: that a worker's
job is not in the queue follows only from `PlacesInv`, which ties `pc`, `cur` and
`status` together (a busy worker has a job, and the map shows it as queued or running
accordingly), with `Separate` and `NoRepeats` for the queue: together `PoolInv`. That
the sweep never takes a job at work needs `AgesInv` (no `finished_at` before the end).
`FilesInv` adds what the worker at `mark_completed` and a download half way know of
the file. `JobsAreHeld` is then inductive over those, and `JobsAreHeldOnce`, which the
run checks, puts the bound, the single runner and the holder together.
`JobsMoveForward`, an action property, asks of each step which worker could have
moved the job, and `PoolInv` and `AgesInv` answer. `FilesHaveKeepers` has the
condition that no write and no delete fails half way (without it: section 5) and
speaks of the time before the first crash, as the run does. `ServiceIsImplemented` is
the refinement of `JobService`, step by step, where tasks are not aborted (the run
`JobLiveness`, production by `app.rs:96-106`): its invariant `ServingInv` adds to the
others that a job held by nobody is over and that a worker leaves only once the router
and all its handlers are gone, so that no send finds the channel closed (`UpInv`).

**MapProofs.** Three maps that outlive a call.

The limiter: `TypeCorrect`, `MapIsBounded`, and `LimiterIsQuota`: every
step of the limiter is a step of `RateQuota` or a stutter, under a mapping that
hides elapsed windows. A sweep is a stutter, an eviction by the backstop is the
displacement that the quota names. `RoomMadeBounded` is the lemma about the
backstop: what it leaves has room for one more. `RollingIsBounded` is about sums over
the history: `RollInv` says that what was admitted since a window began is counted in
it and what is older was all counted in one window (`TwoWindows`), or, with no window
in force, that all of it was (`OneWindow`).

The glyph cache: `CacheTypeCorrect`, `IndexIsExact`, `CacheIsBounded`, and
`CacheIsLru`, the refinement of `LruCache`. The inductive invariant says that
`order` and `entries` are inverse to each other and that all stamps are below the
counter; `LeastExists` gives the eviction its victim, `OrderMoves` shows that
re-stamping an entry moves it to the end of the recency order and leaves the rest.

The object streams: `StreamsStay` (the run's `CacheIsStable`), `StreamsAreFound` and
`SlotsAreWrittenOnce`, for any number of workers. Of the documents nothing is assumed at
all: what a table or an entry says may be nonsense. `StreamInv` says that what is cached
is what the stream holds, that the write lock is held exactly by the worker about to
store, and that a worker about to take an object finds its stream, because the cache
only grows; so the error `get_object` has for a stream missing from the cache is never
met. It rests on `ReturnGoes`: whatever an object read turns out to be, its reader goes
on to neither store nor take. `JobInv` adds that no two workers have the same page and
that a page's slot is empty while it is worked on; that needs the requested pages
to be a list, which the module assumes and the theorem repeats.

**CopyClosureProofs.** `TypeCorrect`, `NothingForgotten`, `CopiesAreShared`,
`ClosureIsExact`, `ReferencesResolve`, `NumbersAreExact`, `OutputIsExact`, for every
reference graph, any number of documents and any selection. `ClosureExact` speaks of
the moment a document's walk is over; its strengthening `Reached` says how far it has
come: the copied set is closed but for the worklist and the object at work, every
root walked so far has a number, and no set that is closed and holds the roots lacks
a numbered object. `Once`, `OnStack` and `Written` carry the renumbering and the
output along. The invariant is `Shape /\ Once /\ OnStack /\ Reached /\ Written`.

**PageRenderProofs.** `CancelledPromptly` and `StreamsAreContained`, for every
document, nesting limit, tile cap and polling interval. Both use the shape of the two
stacks (`ShapeInv`): one `RenderState` for the page and one for each group and soft
mask at work, every frame a stream of the document. The bound on a stop counts
operators, so `PromptInv` is a potential: of the streams open when the token tripped,
each that has ended has used at most the rest of its interval, the innermost what it
no longer has (`Left`, `Spent`), and one begun since stands at a poll. Containment is said of every frame at once
(`NestInv`), since a stream ends on what the one inside it left: a frame knows the
levels its caller had saved, finds them under its own, and has opened as many of those
as its operators so far have `q` without `Q` (`InsideOK`, `Contained`);
clips and masks are saved together, and the buffer blends as the graphics state says
(`Sound`); a group and a soft mask have
their caller's `RenderState` untouched below theirs (`Parents`). `Leaves` is then what
each kind of stream puts back at its end.

**ChunkerProofs.** `Chunking`, the invariant, and from it `OnceIsKept`,
`SectionsAreKept`, `TargetIsKept`, `OverlapIsKept`: the run's four properties, for
every document, target, overlap and choice of options. A chunk is judged by itself and
the one before it (`Good`), so appending one needs no argument about the rest; what is
being collected promises what it will owe as a chunk (`CurInv`, `ShareInv`); the stack
holds the headings in force at the piece at hand (`StackFor`), from which `SectionIs`
shows the section to be the one the property computes from the whole document.
`Sum`, `Picked` and `split_oversized` are recursive functions; `NatInduction0` gives
what they compute.

**SignaturesProofs.** `SignaturesHold`, the invariant, and `VerdictsAreTrue`,
`TrustHolds`, `PriorBytesAreKept`, `LevelsAreEarned`: all four properties of the run,
for any number of calls, all identities, anchors, reservations and original files. Each
signature is followed from the file it came in (`MadeOK`: its range is that file
but for a gap, the gap holds its blob and zeros, its digest is over the rest) through
what later calls make of that file (`Past`: they leave it the beginning of theirs, or
write the very first cell anew). A verdict then compares one file with another. For
`TrustHolds` the recursion of `chains_to_anchor` is unrolled into a path, a link at a
time (`ReachIsPath`). `LtvInv` is the invariant under `LevelsAreEarned`: a signature that
can be read back shares its `/VRI` key with no other (`KeysApart`), so the `/DSS` that a
new signature inherits has no entry for it, and every older one keeps its own.

**EncryptionProofs.** `EncryptionHolds`, the invariant, and `TypeCorrect`,
`NothingIsInClear`, `HoldersGetIn`, `WhatWasWrittenIsRead`: all of the run's
properties, for every document, password, request and file to start from. They go bottom
up: cells under ciphers, the contexts objects are read in, the keys that a password
gives, the numbers that rewriting allots, what each writer makes of a document, and
that what is written under a key reads back with it. `FileInv` says of every file who may read
it, that all is sealed in one this program enciphered, and that the key reads what was
last written; `SessionInv` that an open session has such a key. `HasTop`, the highest
object number of a finite document, comes from the least bound of a set of numbers.

**XrefRevisionsProofs.** `TypeCorrect`, `NumbersStayFresh` and `RevisionsAreKept`, the
run's `NumbersAreFresh` and its refinement `ImplementsRevisions`, for any number of
objects, versions and items. The heart is `WellFormed`, an invariant of files that never
mentions the reader: items have their shape (`Items`); revisions name the one before
them, or, in a cyclic file, themselves (`Chain`); every number in use is listed and below
`/Size` (`Numbered`); a number is that of one thing only (`Unique`); and the newest entry
of a number leads to its last place, or, in a damaged file, nowhere (`Placed`). That
`Placed` survives is why the others are there: an entry stays right only as long as
nothing else takes its number.

1. Writers. Tables, object streams, hybrid revisions, cycles and incremental updates all
   `Extend` a file: its items stay, one revision is added, and it leads to the new last
   places (`ExtendsIsWellFormed`). Damage moves offsets only, and a full rewrite is a
   well-formed file by itself (`RewrittenIs`). What each changes of `Meaning(file)` is
   proved beside.
2. Reader. `Walking`: what was read so far is the newest revisions, and the index is
   their merge, newest first (`Merged`). At the end `Repair` finds what shifted offsets
   missed, and `Indexed` says that every entry leads to the object's last place.
3. Editor. `NextFreeIs`: no number of the opened file reaches the editor's next one;
   `BuildIs`: the change set is the queued edits, each once, and one stream per page.
4. Promise. `ShownMeans`: what the reader shows is what the file means. Then each step
   is one of `PdfRevisions` or changes nothing it speaks of (`StepRefines`).

`NumbersStayFresh` holds for all writers. `RevisionsAreKept` has the condition that no
program frees objects, as the run has: the reader finds freed objects under their old
generation (section 5), so with such a program the promise is broken. It is carried by
`Spoken`: no revision mentions a number without saying which generation 0 object it is.
`IInv` and `SpokenInv` were checked by TLC on the run's instance.

The invariants of the chunker, signatures and encryption were checked by TLC on the runs' instances before they
were proved (for `Chunker` on bodies of up to three blocks). The induction principle of the library
takes an operator as a parameter and cannot be instantiated; the proofs have it as a
fact about sets (a set of numbers with 0 and all successors, `NatInduction0`; a
non-empty set with a least element, `WFMin`), which is enough for recursive functions.

Only model-checked, and why:

- Liveness (`EverythingReclaimed`, `DrainsOnClose`, `Terminates`, `WalkSettles`,
  `Finishes`, `Returns`): it needs fairness and ENABLED, which the prover has not.
- `OkIsWholePage` and `VectorsShowContent`: their reference is a RECURSIVE operator.
- `AgreesWithTree`, `RotationIsEffective`, `LocationsAreTrue`, `PagesAreKept`: page
  order, contents and offsets are stated with `SetToSortSeq`, `SelectSeq` and
  `FoldLeft`, whose values only induction with an operator parameter would give.

## 5. Where code and words differ

Met while modelling. In the server:

- `worker.rs:305`: a result write that fails half way leaves its file; the job is
  failed and has no result path, so the sweep never deletes it. `NoOrphanFile` is
  therefore checked where writes do not fail half way.
- `worker.rs:38`: the directory of results is not looked through at the start, so
  with a configured one the files of a crashed process stay for ever. `NoOrphanFile`
  is about the life of one process.
- `worker.rs:283`: an image-extraction job never looks at its token, so it completes
  after its deadline, where `jobs/mod.rs:27-28` says it is marked failed.
- `worker.rs:226`: retention counts from before the result is written, not from the
  moment the job becomes terminal (`store.rs:84`).
- `rate_limit.rs:142`: the window is fixed, not the "rolling 60-second window" of
  `rate_limit.rs:14-15`; a rolling one may see twice the limit, and not more.
- `rate_limit.rs:126-133`: with every window active the backstop evicts one, against
  the comment above it. `RateQuota` has it as `Displaced`.

In the reader, editor and merge:

- `writer.rs:1110`: the closure asks for generation 0 only, so an object of another
  generation is copied as null.
- `writer.rs:1117-1124`: objects that cannot be read are counted into the closure
  before its cap is tested.
- `reader.rs:899`: the table is keyed by number and generation, so an object freed
  (or its number reused) by a later revision is still found under its old one. The
  run `XrefRevisions` therefore leaves revisions that free objects out.
- `reader.rs:408`: nothing stops an object stream that needs itself to be read.
- `document.rs:234`: one kid that cannot be read ends the walk of the whole tree.
- `structural.rs:85`: a page whose leaf is untyped, or found under two numbers, is
  left as it is by a rotation, without an error.
- `editing.rs:2666-2700`: a full rewrite keeps the object streams and the content
  streams of the source that nothing refers to any more; `optimize` keeps them too,
  where its documentation speaks of garbage collection.

In the renderer and the vector backends:

- `render/svg.rs:58`: a soft mask or a blend mode does not cause the raster fallback
  that `render/svg.rs:22-26` lists them for.
- An unbalanced `q` or `Q` leaves `clip_stack` and `smask_stack` out of step with the
  states they belong to; a path or a pending clip left at the end of a stream leaks
  into the forms and annotations after it.
- The raster applies the clip of `W` before the paint of the same operator; a pattern
  name is resolved when it is used, not when it is set; a tile that draws paths
  clears the path it fills.
- `page_renderer.rs:1577-1624`: a tiling pattern puts graphics state, resources, matrix
  and clip back after its tiles, but not the soft mask: one that a tile sets outside
  `q` and `Q` stays for the tiles after it and for the rest of the stream that fills.
- `page_renderer.rs:525`: `apply_smask` has no test of the nesting limit of its own.
- SVG and PostScript never apply the clip of a path that is painted with `B`;
  PostScript emits a `grestore` for a `Q` without `q`; nested SVG clips replace one
  another instead of intersecting.

In the chunker:

- With `split_on_headings` off the section is replaced before the pieces of the one
  before are flushed, so a chunk may carry the name of the section after it.
- Any chunk over the target is flagged oversized, split or not; the parts of an
  oversized heading repeat the heading in their own prefix.

In signatures, encryption and linearization:

- `signature.rs:1928` trims every trailing zero byte off `/Contents`, also one that
  belongs to the CMS blob; what is left does not parse, and a signature just made is
  reported as an error. The comment at `signature.rs:1314` speaks of the padding only.
  `VerdictIsTrue` states it as it is.
- A second `add_ltv_material` replaces the whole `/DSS`, so that earlier signatures may
  fall from B-LT to B-T (`LevelIsEarned` states it as it is); the chain to an anchor
  follows the first issuer found only.
- `signature.rs:1077-1083`: a file too short for a byte range reports B for a signature
  whose blob holds a timestamp, while one that is merely invalid keeps its level.
- With `encrypt_metadata` false the writer enciphers `/Metadata` streams that the
  reader leaves alone (`writer.rs:583`, `reader.rs:305`): they read back garbled.
- A stream with a `/Crypt` filter of its own is enciphered again by `encrypt`, and
  cannot be decoded in a clear copy (`filters.rs:182-195`).
- A file that enciphers its attachments only opens without a password
  (`reader.rs:490`), and a save then writes their ciphertext under no `/Encrypt`.
- A rewrite of an enciphered file keeps its old object streams and its old `/Encrypt`
  dictionary as ordinary objects.
- Linearization refuses a page with an indirect `/MediaBox`, `/CropBox` or `/Rotate`:
  normalisation (`writer.rs:1743-1785`) makes an object unreachable that was planned.
  A leaf without a `/Type` loses what it inherits, since the nodes above it are
  stripped and only typed leaves are given their own.

## 6. What is not modelled

- Bytes: lexing, serialisation, filters, cipher arithmetic, hashes and their rounds,
  font programs, images, rasterisation. They are data transformations without control
  state; a model would repeat the code.
- Layout, tables, reading order, semantic structure: heuristics whose quality is a
  score.
- Attachments, compliance and authoring: builders of object graphs and rule lists, straight-line code.
- HTTP decoding, authentication, configuration, CLI and bindings: thin and without
  state, but for the C ABI's last-error slot, which is planned.
- Inside the modelled parts: ids are drawn fresh (128 random bits); a job's bytes and
  parameters; the position of an object in its object stream, but where the
  cross-reference is off by one; how far from its stated offset a table is still
  found; redactions (refused in incremental mode, otherwise page edits to this
  model). In `Chunker` two headings never have the same text. In `PageRender` stroke
  and fill share a colour, soft masks are acyclic and have no backdrop colour, images
  and text are marks like paths. In `PageExtract` object streams do not need
  themselves. In `Encryption` every generation is 0, and lengths of keys are right.

## 7. Plan

Modelled and model-checked: the job subsystem with its client view; the limiter; the
glyph cache; merge; the reader's chain with the editor and both writers; page tree,
shared cache and parallel extraction; the interpreter with its imaging model and the
vector backends; the chunker; signatures; encryption; linearization. Proved are all
safety properties of jobs, limiter, glyph cache, merge, revisions, chunker, signatures
and encryption, the cache of object streams, and the renderer's cancellation and
containment.

What would come next: `OkIsWholePage` with `ImagingModel` as a recursive function over
the frames, so that `NestInv` can carry it; the C ABI's last-error slot.
