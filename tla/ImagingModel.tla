---------------------------- MODULE ImagingModel ----------------------------
(***************************************************************************)
(* What a page shows, by the imaging model the renderer implements: one     *)
(* graphics state that holds the clip, the soft mask and the blend mode     *)
(* with everything else, one stack of it per content stream, and every      *)
(* nested stream begun with an empty path and an empty stack and forgotten  *)
(* but for its marks.  There are no frames, no buffers with modes of their  *)
(* own and nothing to put back: a nested stream is a recursive call.        *)
(***************************************************************************)
EXTENDS PageRender

RECURSIVE Shown(_, _)

(* A drawing state: the graphics state G, the streams' stack, the marks. *)
NewDrawing(res) ==
    [ctm |-> <<>>, fill |-> "black", pattern |-> "", origin |-> <<>>, alpha |-> "1", blend |-> "Normal",
     clip |-> {}, smask |-> <<>>, stack |-> <<>>, path |-> <<>>, clips |-> FALSE,
     marks |-> <<>>, depth |-> 0, res |-> res, base |-> <<>>]

Graphics(d) ==
    [k \in {"ctm", "fill", "pattern", "origin", "alpha", "blend", "clip", "smask"} |-> d[k]]

WithGraphics(d, g) == [k \in DOMAIN d |-> IF k \in DOMAIN g THEN g[k] ELSE d[k]]

OnPage(d, paint, path) ==
    [d EXCEPT !.marks = Append(@, [paint |-> paint, path |-> path, ctm |-> d.ctm,
        clip |-> d.clip, smask |-> d.smask, alpha |-> d.alpha, blend |-> d.blend,
        group |-> <<>>])]

(* Draw a nested stream: matrix m, resources and BBox of object o. *)
Inside(d, o, m) ==
    [d EXCEPT !.ctm = m, !.base = m, !.clip = @ \cup {Region(<<o>>, m)},
              !.stack = <<>>, !.path = <<>>, !.clips = FALSE, !.depth = @ + 1,
              !.res = MergeResources(doc.objects[o].res, @)]

(* Compositing starts afresh in a group and in a soft mask. *)
Afresh(d) == [d EXCEPT !.alpha = "1", !.blend = "Normal", !.smask = <<>>, !.marks = <<>>]

FormMarks(d, o) ==
    Shown(doc.objects[o].ops, Inside(d, o, Append(d.ctm, Transform(o, 0)))).marks

GroupMark(d, o) ==
    [paint |-> o, path |-> <<>>, ctm |-> <<>>, clip |-> d.clip, smask |-> d.smask,
     alpha |-> d.alpha, blend |-> d.blend, group |-> FormMarks(Afresh(d), o)]

MaskMarks(d, o) == FormMarks([Afresh(d) EXCEPT !.clip = {}], o)

(* The interior of the path, tile by tile, each clipped to the path. *)
TileMarks(d, o) ==
    FoldLeft(LAMBDA marks, nth :
                Shown(doc.objects[o].ops,
                      Inside([d EXCEPT !.marks = marks,
                                       !.clip = @ \cup {Region(d.path, d.ctm)}],
                             o, Append(d.origin, Transform(o, nth)))).marks,
             d.marks, [n \in 1 .. doc.objects[o].tiles |-> n])

Decodes(o, kinds, d) ==
    doc.objects[o].kind \in kinds /\ ~ doc.objects[o].broken /\ d.depth < MaxFormDepth

Interior(d) ==
    IF d.path = <<>> THEN d
    ELSE IF d.fill \notin doc.patterns THEN OnPage(d, d.fill, d.path)
    ELSE IF /\ d.pattern # ""
            /\ Decodes(d.pattern, {"tiling"}, d)
            /\ doc.objects[d.pattern].tiles \in 1 .. TileCap
         THEN [d EXCEPT !.marks = TileMarks(d, d.pattern)]
         ELSE d

(* A pattern is the one its name meant when it was set, laid out from the   *)
(* origin of the stream that set it.                                        *)
Coloured(d, name) ==
    [d EXCEPT !.fill = name, !.origin = d.base,
              !.pattern = IF name \in doc.patterns \cap DOMAIN d.res THEN d.res[name] ELSE ""]

Outline(d) == IF d.path = <<>> THEN d ELSE OnPage(d, "stroke", d.path)

(* A clip takes effect after the operator that paints its path. *)
Clipped(d) ==
    IF d.clips THEN [d EXCEPT !.clip = @ \cup {Region(d.path, d.ctm)}, !.clips = FALSE]
    ELSE d

Parameters(d, g) ==
    LET e == [d EXCEPT !.blend = IF g.blend = "" THEN @ ELSE g.blend,
                       !.alpha = IF g.alpha = "" THEN @ ELSE g.alpha]
    IN IF g.smask = "None" THEN [e EXCEPT !.smask = <<>>]
       ELSE IF g.smask \in DOMAIN doc.objects /\ ~ doc.objects[g.smask].broken
       THEN [e EXCEPT !.smask = <<MaskMarks(e, g.smask)>>]
       ELSE e

External(d, o) ==
    IF Decodes(o, {"form"}, d) THEN [d EXCEPT !.marks = FormMarks(d, o)]
    ELSE IF Decodes(o, {"group"}, d) THEN [d EXCEPT !.marks = Append(@, GroupMark(d, o))]
    ELSE d

Performed(o, d) ==
    CASE o.op = "re"   -> [d EXCEPT !.path = Append(@, o.arg)]
      [] o.op = "W"    -> [d EXCEPT !.clips = TRUE]
      [] o.op = "n"    -> [Clipped(d) EXCEPT !.path = <<>>]
      [] o.op = "S"    -> [Clipped(Outline(d)) EXCEPT !.path = <<>>]
      [] o.op = "f"    -> [Clipped(Interior(d)) EXCEPT !.path = <<>>]
      [] o.op = "B"    -> [Clipped(Outline(Interior(d))) EXCEPT !.path = <<>>]
      [] o.op = "q"    -> [d EXCEPT !.stack = Append(@, Graphics(d))]
      [] o.op = "Q"    -> IF d.stack = <<>> THEN d
                          ELSE WithGraphics([d EXCEPT !.stack = Front(@)], Last(d.stack))
      [] o.op = "cm"   -> [d EXCEPT !.ctm = Append(@, Transform(o.arg, 0))]
      [] o.op = "scn"  -> Coloured(d, o.arg)
      [] o.op \in {"show", "sh"} -> OnPage(d, o.arg, <<>>)
      [] o.op = "gs"   -> IF o.arg \in DOMAIN d.res
                             /\ doc.objects[d.res[o.arg]].kind = "gstate"
                          THEN Parameters(d, doc.objects[d.res[o.arg]]) ELSE d
      [] o.op = "Do"   -> IF o.arg \in DOMAIN d.res THEN External(d, d.res[o.arg]) ELSE d

Shown(ops, d) == IF ops = <<>> THEN d ELSE Shown(Tail(ops), Performed(Head(ops), d))

(* The annotations over the page, each from the initial graphics state. *)
Annotated(marks) ==
    FoldLeft(LAMBDA m, n :
                External([NewDrawing(doc.res) EXCEPT
                            !.marks = m, !.ctm = <<Transform("rect", n)>>],
                         doc.annots[n]).marks,
             marks, [n \in 1 .. Len(doc.annots) |-> n])

PageShows == Annotated(Shown(doc.ops, NewDrawing(doc.res)).marks)

-----------------------------------------------------------------------------
ShowsPage == St.marks = PageShows

(* Pages the renderer draws differently, and how.  A tile that begins while *)
(* the path it fills is under construction finds that path; a path that     *)
(* both clips and is painted is clipped before it is painted; a stream      *)
(* begun while the colour is a pattern looks its name up again; a soft mask *)
(* that a tile sets is not put back.                                        *)
TileDrawsPaths(o) ==
    /\ o.kind = "tiling"
    /\ \E n \in DOMAIN o.ops : o.ops[n].op \in {"f", "B", "S", "W", "n", "re"}

ClipsWhatItPaints(o) ==
    \E n \in DOMAIN o.ops : o.ops[n].op = "W" /\ (n = Len(o.ops) \/ o.ops[n + 1].op # "n")

LendsItsPattern(o) ==
    \E m, n \in DOMAIN o.ops :
        /\ m < n
        /\ o.ops[m].op = "scn"
        /\ o.ops[m].arg \in doc.patterns
        /\ o.ops[n].op = "Do"
        /\ ~ \E k \in m .. n : o.ops[k].op = "Q"

Usual(o) ==
    /\ ~ TileDrawsPaths(o)
    /\ ~ ClipsWhatItPaints(o)
    /\ ~ LendsItsPattern(o)
    /\ ~ LeavesMask(o)

(* Success is never reported for a page cut short by the token, drawn       *)
(* outside its clip or through a mask or blend mode of another level, for   *)
(* any page without those peculiarities; and every level that was opened is  *)
(* counted while it is open.                                                 *)
OkIsWholePage ==
    /\ TypeOK
    /\ result = "ok" =>
        (WellNested /\ (\A o \in DOMAIN doc.objects : Usual(doc.objects[o])) => ShowsPage)
=============================================================================
