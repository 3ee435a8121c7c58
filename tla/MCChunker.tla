----------------------------- MODULE MCChunker -----------------------------
(***************************************************************************)
(* Small documents for Chunker: every body of up to four blocks, of the    *)
(* kinds and sizes that the chunker tells apart.                           *)
(***************************************************************************)
EXTENDS Chunker

MCBlock(kind, level, sentences) ==
  [kind |-> kind, level |-> level, attached |-> FALSE, sentences |-> sentences]

\* With a target of 3: texts of one and two tokens, a text of two sentences
\* and one of three that must be split, and a table beyond the target.
MCBlocks ==
  {MCBlock("title", 0, <<1>>), MCBlock("heading", 0, <<1>>), MCBlock("heading", 2, <<1>>),
   MCBlock("paragraph", 0, <<1>>), MCBlock("paragraph", 0, <<2>>),
   MCBlock("paragraph", 0, <<2, 1, 2>>), MCBlock("paragraph", 0, <<4>>),
   MCBlock("table", 0, <<1>>), MCBlock("table", 0, <<5>>),
   MCBlock("footer", 0, <<1>>), MCBlock("text", 0, <<>>),
   [MCBlock("caption", 0, <<1>>) EXCEPT !.attached = TRUE]}
MCBodies == BoundedSeq(MCBlocks, 4)
=============================================================================
