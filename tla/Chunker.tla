------------------------------ MODULE Chunker ------------------------------
(***************************************************************************)
(* The retrieval chunker of crates/engine/src/chunk.rs: one pass over the  *)
(* rendered blocks of a document that packs them into passages of about    *)
(* Target tokens, carrying the tail of a closed passage into the next one. *)
(* A piece is known by its position.  Its text is the sequence of the      *)
(* token counts of its sentences: estimate_tokens counts word by word, so  *)
(* the tokens of joined texts are the sum of their tokens.  Two headings   *)
(* never have the same text.                                               *)
(***************************************************************************)
EXTENDS Integers, Sequences, SequencesExt

CONSTANTS
  Target,    \* opts.target_tokens.max(1)
  Overlap,   \* the values of opts.overlap_tokens
  Bodies     \* the document bodies: sequences of blocks

Furniture == {"header", "footer", "page_number"}
Atomic == {"table", "figure"}
Headings == {"title", "heading"}
Kinds == Furniture \cup Atomic \cup Headings \cup {"paragraph", "text", "list", "caption"}

Block == [kind : Kinds, level : Nat, attached : BOOLEAN, sentences : Seq(Nat)]

ASSUME ChunkerAssumption ==
  /\ Target \in Nat \ {0}
  /\ Overlap \subseteq Nat
  /\ \A body \in Bodies : body \in Seq(Block)

\* One of the loop's steps per action; `opened` says that the heading of
\* piece `next` has been entered into the stack.
VARIABLES opts, pieces, next, opened, heading_stack, cur_section, cur, chunks
vars == <<opts, pieces, next, opened, heading_stack, cur_section, cur, chunks>>

\* The elements of s at the positions of K, in order, and the sum of a sequence
\* of numbers: both as recursive functions, which can be reasoned about.
Picked(s, K) ==
  LET upTo[n \in 0 .. Len(s)] ==
        IF n = 0 THEN <<>>
        ELSE IF n \in K THEN Append(upTo[n - 1], s[n]) ELSE upTo[n - 1]
  IN  upTo[Len(s)]

Sum(s) ==
  LET upTo[n \in 0 .. Len(s)] == IF n = 0 THEN 0 ELSE upTo[n - 1] + s[n]
  IN  upTo[Len(s)]

\* The blocks that become pieces: furniture only when asked for, no caption
\* that is printed with its table or figure, nothing without text.
BecomesPiece(b, o) ==
  /\ b.kind \in Furniture => o.include_furniture
  /\ ~(b.kind = "caption" /\ b.attached)
  /\ b.sentences # <<>>

collect_pieces(body, o) == Picked(body, {k \in DOMAIN body : BecomesPiece(body[k], o)})

Tokens(i) == Sum(pieces[i].sentences)
IsHeading(i) == pieces[i].kind \in Headings
IsAtomic(i) == pieces[i].kind \in Atomic
\* A title is level 0, a heading at least level 1.
Level(i) == IF pieces[i].kind = "title" THEN 0
            ELSE IF pieces[i].level > 1 THEN pieces[i].level ELSE 1
PieceTokens(s) == Sum([k \in DOMAIN s |-> Tokens(s[k])])

\* The heading-context line of a chunk: its section, without the heading the
\* chunk itself opens with.
Context(body, section) ==
  IF ~opts.heading_context \/ section = <<>> THEN <<>>
  ELSE IF IsHeading(Head(body)) /\ Head(body) = Last(section) THEN Front(section)
  ELSE section

\* push_chunk: a chunk of whole pieces.
Whole(body, section, isolated) ==
  [body |-> body, part |-> <<>>, section |-> section,
   context |-> Context(body, section), is_table_or_figure |-> isolated]

\* push_owned_chunk: some sentences of one piece.
Part(i, sentences, section) ==
  [body |-> <<i>>, part |-> sentences, section |-> section,
   context |-> IF opts.heading_context THEN section ELSE <<>>,
   is_table_or_figure |-> FALSE]

\* flush!, what it appends: the accumulation, under the current section.
Flushed == IF cur = <<>> THEN chunks ELSE Append(chunks, Whole(cur, cur_section, FALSE))

\* Faulty variant: a carry that reaches through a table.
OverlapThroughTables ==
  LET Fits(n) == LET end == SubSeq(cur, Len(cur) - n + 1, Len(cur))
                 IN  n = 1 \/ PieceTokens(end) <= opts.overlap_tokens
  IN  IF opts.overlap_tokens = 0 THEN <<>>
      ELSE LET n == CHOOSE n \in 1 .. Len(cur) : Fits(n) /\ \A k \in 1 .. Len(cur) : Fits(k) => k <= n
           IN  SubSeq(cur, Len(cur) - n + 1, Len(cur))

\* flush!, what it leaves in hand: the longest tail without a table or figure
\* within the overlap, but always the last piece.  Walking back stops as soon
\* as the overlap is reached.
overlap_pieces ==
  LET End(n) == SubSeq(cur, Len(cur) - n + 1, Len(cur))
      Carried(n) == /\ \A k \in Len(cur) - n + 1 .. Len(cur) : ~IsAtomic(cur[k])
                    /\ n > 1 => /\ PieceTokens(End(n)) <= opts.overlap_tokens
                                /\ PieceTokens(End(n - 1)) < opts.overlap_tokens
      lengths == {n \in 1 .. Len(cur) : Carried(n)}
  IN  IF opts.overlap_tokens = 0 \/ lengths = {} THEN <<>>
      ELSE End(CHOOSE n \in lengths : \A k \in lengths : k <= n)

\* The parts of an oversized piece: its sentences in order, packed greedily.
split_oversized(i) ==
  LET size == pieces[i].sentences
      Used(buf) == Sum([k \in DOMAIN buf |-> size[buf[k]]])
      Take(acc, s) ==
        IF acc.buf # <<>> /\ Used(acc.buf) + size[s] > Target
        THEN [out |-> Append(acc.out, acc.buf), buf |-> <<s>>]
        ELSE [acc EXCEPT !.buf = Append(@, s)]
      packed[s \in 0 .. Len(size)] ==
        IF s = 0 THEN [out |-> <<>>, buf |-> <<>>] ELSE Take(packed[s - 1], s)
  IN  Append(packed[Len(size)].out, packed[Len(size)].buf)

Options == [split_on_headings : BOOLEAN, isolate_tables : BOOLEAN, include_furniture : BOOLEAN,
            heading_context : BOOLEAN, overlap_tokens : Overlap]

Init ==
  /\ opts \in Options
  /\ \E body \in Bodies : pieces = collect_pieces(body, opts)
  /\ next = 1
  /\ opened = FALSE
  /\ heading_stack = <<>>
  /\ cur_section = <<>>
  /\ cur = <<>>
  /\ chunks = <<>>

\* The headings that heading i is below.
Enclosing(i) ==
  Picked(heading_stack, {k \in DOMAIN heading_stack : heading_stack[k].level < Level(i)})

\* Faulty variant: the section is renamed before the accumulation is closed.
OpenSectionFirst ==
  /\ next <= Len(pieces) /\ IsHeading(next) /\ ~opened
  /\ opened' = TRUE
  /\ heading_stack' = Append(Enclosing(next), [level |-> Level(next), text |-> next])
  /\ cur_section' = [k \in DOMAIN heading_stack' |-> heading_stack'[k].text]
  /\ IF opts.split_on_headings
     THEN /\ chunks' = IF cur = <<>> THEN chunks ELSE Append(chunks, Whole(cur, cur_section', FALSE))
          /\ cur' = <<>>
     ELSE UNCHANGED <<chunks, cur>>
  /\ UNCHANGED <<opts, pieces, next>>

\* A heading closes the accumulation, carrying nothing over, and becomes the
\* innermost heading of the sections that follow.
OpenSection ==
  /\ next <= Len(pieces) /\ IsHeading(next) /\ ~opened
  /\ opened' = TRUE
  /\ IF opts.split_on_headings
     THEN chunks' = Flushed /\ cur' = <<>>
     ELSE UNCHANGED <<chunks, cur>>
  /\ heading_stack' = Append(Enclosing(next), [level |-> Level(next), text |-> next])
  /\ cur_section' = [k \in DOMAIN heading_stack' |-> heading_stack'[k].text]
  /\ UNCHANGED <<opts, pieces, next>>

Placing == next <= Len(pieces) /\ (IsHeading(next) => opened)
Isolated == opts.isolate_tables /\ IsAtomic(next)
Oversized == ~IsAtomic(next) /\ Tokens(next) > Target
\* Faulty variant: a piece that fills the chunk to the target is put off.
HasRoomLeft == cur = <<>> \/ PieceTokens(cur) + Tokens(next) < Target
HasRoom == cur = <<>> \/ PieceTokens(cur) + Tokens(next) <= Target

Placed ==
  /\ next' = next + 1
  /\ opened' = FALSE
  /\ UNCHANGED <<opts, pieces, heading_stack, cur_section>>

\* A table or figure is a chunk of its own.
Isolate ==
  /\ Placing /\ Isolated
  /\ chunks' = Append(Flushed, Whole(<<next>>, cur_section, TRUE))
  /\ cur' = <<>>
  /\ Placed

\* A text that exceeds the target by itself is split at its sentences.
Split ==
  /\ Placing /\ ~Isolated /\ Oversized
  /\ LET parts == split_oversized(next)
     IN  chunks' = Flushed \o [k \in DOMAIN parts |-> Part(next, parts[k], cur_section)]
  /\ cur' = <<>>
  /\ Placed

\* Faulty variant: what is in hand is dropped instead of closed.
PackDrops ==
  /\ Placing /\ ~Isolated /\ ~Oversized
  /\ chunks' = chunks
  /\ cur' = IF HasRoom THEN Append(cur, next) ELSE Append(overlap_pieces, next)
  /\ Placed

\* Any other piece joins the accumulation, which is closed first if there is
\* no room left.
Pack ==
  /\ Placing /\ ~Isolated /\ ~Oversized
  /\ IF HasRoom
     THEN chunks' = chunks /\ cur' = Append(cur, next)
     ELSE chunks' = Flushed /\ cur' = Append(overlap_pieces, next)
  /\ Placed

\* The flush after the loop.
Finish ==
  /\ next = Len(pieces) + 1
  /\ cur # <<>>
  /\ chunks' = Flushed
  /\ cur' = <<>>
  /\ UNCHANGED <<opts, pieces, next, opened, heading_stack, cur_section>>

Next == OpenSection \/ Isolate \/ Split \/ Pack \/ Finish
Spec == Init /\ [][Next]_vars

-----------------------------------------------------------------------------
Positions == 1 .. Len(pieces)

\* The types of the state; the headings on the stack enclose each other.
TypeOK ==
  /\ opts \in Options
  /\ next \in 1 .. Len(pieces) + 1
  /\ opened \in BOOLEAN
  /\ \A k \in DOMAIN heading_stack :
       heading_stack[k].text \in Positions /\ heading_stack[k].level = Level(heading_stack[k].text)
  /\ \A k \in 2 .. Len(heading_stack) : heading_stack[k - 1].level < heading_stack[k].level
  /\ \A k \in DOMAIN cur : cur[k] \in Positions
  /\ \A n \in DOMAIN chunks : chunks[n].body # <<>> /\ ToSet(chunks[n].body) \subseteq Positions

\* The last piece that the first n chunks reach.
Reached(n) == IF n = 0 THEN 0 ELSE Last(chunks[n].body)
Consecutive(s) == \A k \in 2 .. Len(s) : s[k] = s[k - 1] + 1
LastPart(n) == Last(chunks[n].part) = Len(pieces[Last(chunks[n].body)].sentences)

\* A chunk goes on where the chunks before it stop: it is a run of pieces that
\* starts no later than the first piece not reached yet and ends beyond it.
GoesOn(body, n) ==
  /\ Consecutive(body)
  /\ Head(body) <= Reached(n) + 1
  /\ Last(body) > Reached(n)

\* Nothing of the document is lost, repeated or reordered by chunking: every
\* chunk and the accumulation add the pieces that come next, whatever the
\* overlap repeats of the ones before, and the parts of a split piece are its
\* sentences in order (chunk, overlap_pieces and split_oversized).
EveryPieceOnce ==
  /\ \A n \in DOMAIN chunks :
       LET c == chunks[n]
           resumes == n > 1 /\ chunks[n - 1].part # <<>> /\ ~LastPart(n - 1)
       IN  IF c.part = <<>> THEN ~resumes /\ GoesOn(c.body, n - 1)
           ELSE /\ Consecutive(c.part)
                /\ IF resumes THEN /\ c.body = chunks[n - 1].body
                                   /\ Head(c.part) = Last(chunks[n - 1].part) + 1
                   ELSE GoesOn(c.body, n - 1) /\ Len(c.body) = 1 /\ Head(c.part) = 1
  /\ chunks # <<>> /\ Last(chunks).part # <<>> => LastPart(Len(chunks))
  /\ IF cur = <<>> THEN Reached(Len(chunks)) = next - 1
     ELSE GoesOn(cur, Len(chunks)) /\ Last(cur) = next - 1

\* The headings in force at a piece, itself included: the ones before it that
\* no later heading of the same or a higher level has closed.
InForce(h, i) ==
  /\ IsHeading(h)
  /\ \A g \in h + 1 .. i : IsHeading(g) => Level(h) < Level(g)

SectionOf(i) == Picked([k \in 1 .. i |-> k], {h \in 1 .. i : InForce(h, i)})

\* The headings among the pieces of a body.
HeadingsIn(body) == Picked(body, {k \in DOMAIN body : IsHeading(body[k])})

\* With split_on_headings no chunk mixes sections, and the section_path of a
\* chunk is the hierarchy of headings in force at each of its pieces; an
\* isolated table and the parts of a split piece always name their section.  Read
\* by itself, a passage shows its headings once each, outermost first: its context
\* line and the headings in it make up its path.
SectionsAreTrue ==
  /\ TypeOK
  /\ \A n \in DOMAIN chunks :
    LET c == chunks[n]
    IN  /\ opts.split_on_headings \/ c.is_table_or_figure \/ c.part # <<>> =>
             \A i \in ToSet(c.body) : c.section = SectionOf(i)
        /\ opts.split_on_headings /\ opts.heading_context /\ c.part = <<>> =>
             c.context \o HeadingsIn(c.body) = c.section

New(n) == {i \in ToSet(chunks[n].body) : i > Reached(n - 1)}
Packed(n) == chunks[n].part = <<>> /\ ~chunks[n].is_table_or_figure

\* The target is kept where it can be: a chunk with two new pieces or more is
\* within it, and a chunk is closed below it only when the next piece starts a
\* section, stands alone, is split, or does not fit.
FilledToTarget ==
  \A n \in DOMAIN chunks :
    Packed(n) =>
      LET i == Reached(n) + 1
      IN  /\ \/ \E j \in New(n) : New(n) = {j}
             \/ PieceTokens(chunks[n].body) <= Target
          /\ \/ i = Len(pieces) + 1
             \/ IsHeading(i) /\ opts.split_on_headings
             \/ IsAtomic(i) /\ opts.isolate_tables
             \/ ~IsAtomic(i) /\ Tokens(i) > Target
             \/ PieceTokens(chunks[n].body) + Tokens(i) > Target

\* What two chunks share is context and nothing else: no table or figure, no
\* more than overlap_tokens unless it is one piece, and, where the second goes
\* on in the section of the first, at least the last piece of it.
OverlapIsContext ==
  \A n \in 2 .. Len(chunks) :
    LET before == chunks[n - 1]
        shared == ToSet(before.body) \cap ToSet(chunks[n].body)
        tokens == PieceTokens(Picked(before.body, {k \in DOMAIN before.body : before.body[k] \in shared}))
    IN  Packed(n - 1) /\ Packed(n) =>
          /\ \A i \in shared : ~IsAtomic(i)
          /\ tokens <= opts.overlap_tokens \/ \E i \in shared : shared = {i}
          /\ opts.overlap_tokens = 0 => shared = {}
          /\ \/ opts.overlap_tokens = 0 \/ IsAtomic(Last(before.body))
             \/ opts.split_on_headings /\ \E i \in New(n) : IsHeading(i)
             \/ Last(before.body) \in shared
=============================================================================
