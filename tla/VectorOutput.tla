---------------------------- MODULE VectorOutput ----------------------------
(***************************************************************************)
(* The two vector backends beside the renderer.  Each walks the operators   *)
(* of the page once, with a graphics state of the same kind, and emits SVG  *)
(* or PostScript; a page with an operator it cannot express is emitted as   *)
(* one image of the rendered page instead.  What a reader of the output     *)
(* sees is the sequence of marks; the clip of an SVG mark is the one        *)
(* clipPath it refers to, that of a PostScript mark is what the interpreter *)
(* that runs the output has intersected since its gsave.                    *)
(***************************************************************************)
EXTENDS ImagingModel

NeedsRasterFallback(ops) ==
    \E n \in DOMAIN ops :
        \/ ops[n].op \in {"Do", "sh"}
        \/ ops[n].op = "scn" /\ ops[n].arg \in doc.patterns

VectorMark(v, paint, path, clip) ==
    [paint |-> paint, path |-> path, ctm |-> v.gs.ctm, clip |-> clip, smask |-> <<>>,
     alpha |-> v.gs.alpha, blend |-> "Normal", group |-> <<>>]

(* State operators common to both; gs is one that does nothing. *)
Processed(v, o) ==
    CASE o.op = "re"  -> [v EXCEPT !.path = Append(@, o.arg)]
      [] o.op = "W"   -> [v EXCEPT !.pending = TRUE]
      [] o.op = "cm"  -> [v EXCEPT !.gs.ctm = Append(@, Transform(o.arg, 0))]
      [] o.op = "scn" -> [v EXCEPT !.gs.fill = o.arg]
      [] o.op = "gs"  -> v

PushedGraphics(gs) == [gs EXCEPT !.stack = Append(@, [gs EXCEPT !.stack = <<>>])]

Settles(v) == [v EXCEPT !.path = <<>>]

-----------------------------------------------------------------------------
(* SVG: a stack of clipPath ids whose top is the clip in force *)

NewSvg == [gs |-> InitialGraphics, path |-> <<>>, pending |-> FALSE,
           clips |-> <<>>, marks |-> <<>>]

CurrentClip(v) == IF v.clips = <<>> THEN {} ELSE Last(v.clips)

(* The clip replaces the one before it. *)
SvgClipped(v) ==
    IF ~ v.pending THEN v
    ELSE IF v.path = <<>> THEN [v EXCEPT !.pending = FALSE]
    ELSE LET clip == {Region(v.path, v.gs.ctm)}
         IN [v EXCEPT !.pending = FALSE,
                      !.clips = IF @ = <<>> THEN <<clip>> ELSE Append(Front(@), clip)]

SvgPaint(v, paint) ==
    IF v.path = <<>> THEN v
    ELSE [v EXCEPT !.marks = Append(@, VectorMark(v, paint, v.path, CurrentClip(v)))]

(* Faulty variant: Q restores the graphics state and leaves the clip. *)
SvgRestoredButClip(v) == [v EXCEPT !.gs = PopGraphics(@)]

SvgRestored(v) ==
    [v EXCEPT !.gs = PopGraphics(@), !.clips = IF @ = <<>> THEN @ ELSE Front(@)]

SvgDispatched(v, o) ==
    CASE o.op = "n"    -> Settles(SvgClipped(v))
      [] o.op = "S"    -> Settles(SvgPaint(SvgClipped(v), "stroke"))
      [] o.op = "f"    -> Settles(SvgPaint(SvgClipped(v), v.gs.fill))
      [] o.op = "B"    -> Settles(SvgPaint(SvgPaint(v, v.gs.fill), "stroke"))
      [] o.op = "q"    -> [v EXCEPT !.clips = Append(@, CurrentClip(v)),
                                    !.gs = PushedGraphics(@)]
      [] o.op = "Q"    -> SvgRestored(v)
      [] o.op = "show" -> [v EXCEPT !.marks =
                              Append(@, VectorMark(v, o.arg, <<>>, CurrentClip(v)))]
      [] OTHER         -> Processed(v, o)

SvgShows == FoldLeft(SvgDispatched, NewSvg, doc.ops).marks

-----------------------------------------------------------------------------
(* PostScript: clip, gsave and grestore are left to the interpreter.  The   *)
(* page body itself stands between a gsave and a grestore, and a grestore   *)
(* too many takes away the transform that page body starts with.            *)

NewPostScript == [gs |-> InitialGraphics, path |-> <<>>, pending |-> FALSE,
                  clip |-> {}, saved |-> <<>>, placed |-> TRUE, marks |-> <<>>]

PsClipped(v) ==
    IF v.pending /\ v.path # <<>>
    THEN [v EXCEPT !.pending = FALSE, !.clip = @ \cup {Region(v.path, v.gs.ctm)}]
    ELSE [v EXCEPT !.pending = FALSE]

PsMark(v, paint, path) ==
    IF v.placed THEN VectorMark(v, paint, path, v.clip)
    ELSE [VectorMark(v, paint, path, v.clip) EXCEPT !.ctm = Append(@, Transform("unplaced", 0))]

PsPaint(v, paint) ==
    IF v.path = <<>> THEN v ELSE [v EXCEPT !.marks = Append(@, PsMark(v, paint, v.path))]

GRestored(v) ==
    IF v.saved = <<>> THEN [v EXCEPT !.clip = {}, !.placed = FALSE]
    ELSE [v EXCEPT !.clip = Last(v.saved), !.saved = Front(@)]

PsDispatched(v, o) ==
    CASE o.op = "n"    -> Settles(PsClipped(v))
      [] o.op = "S"    -> Settles(PsClipped(PsPaint(v, "stroke")))
      [] o.op = "f"    -> Settles(PsClipped(PsPaint(v, v.gs.fill)))
      [] o.op = "B"    -> Settles(PsPaint(PsPaint(v, v.gs.fill), "stroke"))
      [] o.op = "q"    -> [v EXCEPT !.saved = Append(@, v.clip), !.gs = PushedGraphics(@)]
      [] o.op = "Q"    -> GRestored([v EXCEPT !.gs = PopGraphics(@)])
      [] o.op = "show" -> [v EXCEPT !.marks = Append(@, PsMark(v, o.arg, <<>>))]
      [] OTHER         -> Processed(v, o)

PostScriptShows == FoldLeft(PsDispatched, NewPostScript, doc.ops).marks

-----------------------------------------------------------------------------
(* Properties *)

Emitted == result = "ok" /\ ~ NeedsRasterFallback(doc.ops)

ContentShows == Shown(doc.ops, NewDrawing(doc.res)).marks

Uses(operator) == \E n \in DOMAIN doc.ops : doc.ops[n].op = operator

ClipsTwice ==
    \E m, n \in DOMAIN doc.ops : m < n /\ doc.ops[m].op = "W" /\ doc.ops[n].op = "W"

(* What the vector backends emit is what the page shows: SVG for a page     *)
(* with one clip at most, PostScript for any clips, both for pages with     *)
(* balanced q and Q that set no ExtGState and only paint or only clip with  *)
(* a path.                                                                  *)
VectorsShowContent ==
    Emitted =>
        (Balanced(doc.ops) /\ ~ Uses("gs") /\ ~ ClipsWhatItPaints(doc.objects["page"]) =>
            /\ PostScriptShows = ContentShows
            /\ ~ ClipsTwice => SvgShows = ContentShows)
=============================================================================
