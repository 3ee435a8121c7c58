----------------------------- MODULE PageRender -----------------------------
(***************************************************************************)
(* The page renderer of the engine: an interpreter that walks the operators *)
(* of a page's content stream and, for Form XObjects, transparency groups,  *)
(* soft masks, tiling patterns and annotation appearances, walks the        *)
(* operators of further streams in the middle of its own.                   *)
(*                                                                          *)
(* One step is one operator, so the call stack of the code is a variable:   *)
(* `frames' has one entry per running dispatch_all, `states' one per        *)
(* RenderState alive (a group and a soft mask get a RenderState and a pixel *)
(* buffer of their own, everything else shares its caller's).  A pixel      *)
(* buffer is the sequence of marks made on it, each with everything the     *)
(* imaging model says a mark depends on; two buffers with the same marks    *)
(* show the same pixels.  A token another thread may trip at any moment     *)
(* stops the interpreter at its next poll.                                  *)
(***************************************************************************)
EXTENDS Integers, Sequences, FiniteSets, SequencesExt

CONSTANTS
    Documents,      \* pages with what they name, see below
    MaxFormDepth,   \* the nesting limit, 8 in the code
    TileCap,        \* the largest number of tiles of one fill, 20,000 in the code
    PollInterval    \* CANCEL_CHECK_INTERVAL, 64 in the code

ASSUME LimitsAssumption ==
    /\ MaxFormDepth \in Nat
    /\ TileCap \in Nat
    /\ PollInterval \in Nat \ {0}

(* A content stream is a sequence of operators, and a dictionary of         *)
(* resources names objects of the document.                                 *)
IsStream(ops) == ops \in Seq(Range(ops))

ASSUME DocumentsAssumption ==
    \A d \in Documents :
        /\ IsStream(d.ops)
        /\ Range(d.res) \subseteq DOMAIN d.objects
        /\ d.annots \in Seq({o \in DOMAIN d.objects : d.objects[o].kind \in {"form", "group"}})
        /\ \A o \in DOMAIN d.objects :
              /\ IsStream(d.objects[o].ops)
              /\ Range(d.objects[o].res) \subseteq DOMAIN d.objects

VARIABLES
    doc,        \* the page being rendered
    states,     \* the RenderStates alive, the innermost last
    frames,     \* the running dispatch_all calls, the innermost last
    annot,      \* index of the next annotation, 0 while the page content runs
    cancelled,  \* the token has been tripped
    late,       \* operators dispatched since the token was tripped
    open,       \* streams that were running when it was tripped
    result      \* "none", "ok" or "cancelled"

vars == <<doc, states, frames, annot, cancelled, late, open, result>>

-----------------------------------------------------------------------------
(* Documents.  An operator is [op, arg]; a document has the operators and   *)
(* the resources of its page, its annotations, and its objects by name:     *)
(*   form, group  the content stream of a Form XObject, `isolated' for /I   *)
(*   tiling       a tiling pattern, painted `tiles' times over its fill     *)
(*   gstate       an ExtGState: what it sets, "" for what it leaves alone   *)
(* `broken' is a stream whose filters fail to decode.  Resources map names  *)
(* to objects; `patterns' are the names that scn sets as a pattern.         *)

(* A form's resources win over those in effect at the Do. *)
MergeResources(own, current) ==
    [n \in DOMAIN own \cup DOMAIN current |->
        IF n \in DOMAIN own THEN own[n] ELSE current[n]]

(* A transform is named by what brought it in: cm, a /Matrix, a repetition. *)
Transform(name, index) == [by |-> name, nth |-> index]

Region(path, ctm) == [path |-> path, ctm |-> ctm]

-----------------------------------------------------------------------------
(* One RenderState *)

InitialGraphics ==
    [ctm |-> <<>>, fill |-> "black", alpha |-> "1", blend |-> "Normal", stack |-> <<>>]

FreshState(res) ==
    [gs |-> InitialGraphics, clip |-> {}, smask |-> <<>>, blend |-> "Normal",
     marks |-> <<>>, clipStack |-> <<>>, smaskStack |-> <<>>, path |-> <<>>,
     pending |-> FALSE, depth |-> 0, res |-> res, base |-> <<>>]

Synced(s) == [s EXCEPT !.blend = s.gs.blend]

(* What the painters put on the buffer: colour, alpha and CTM from the      *)
(* graphics state, clip, soft mask and blend mode from the buffer.          *)
Mark(s, paint, path) ==
    [paint |-> paint, path |-> path, ctm |-> s.gs.ctm, clip |-> s.clip,
     smask |-> s.smask, alpha |-> s.gs.alpha, blend |-> s.blend, group |-> <<>>]

Marked(s, paint) == [s EXCEPT !.marks = Append(@, Mark(s, paint, <<>>))]

PaintPath(s, paint) ==
    IF s.path = <<>> THEN s
    ELSE [s EXCEPT !.marks = Append(@, Mark(s, paint, s.path))]

Cleared(s) == [s EXCEPT !.path = <<>>]

ApplyPendingClip(s) ==
    IF s.pending
    THEN [s EXCEPT !.clip = @ \cup {Region(s.path, s.gs.ctm)}, !.pending = FALSE]
    ELSE s

Saved(s) ==
    [s EXCEPT !.clipStack = Append(@, s.clip),
              !.smaskStack = Append(@, s.smask),
              !.gs.stack = Append(@, [s.gs EXCEPT !.stack = <<>>])]

PoppedMasks(s) ==
    [s EXCEPT !.clip = IF s.clipStack = <<>> THEN @ ELSE Last(s.clipStack),
              !.clipStack = IF @ = <<>> THEN @ ELSE Front(@),
              !.smask = IF s.smaskStack = <<>> THEN @ ELSE Last(s.smaskStack),
              !.smaskStack = IF @ = <<>> THEN @ ELSE Front(@)]

PopGraphics(gs) ==
    IF gs.stack = <<>> THEN gs
    ELSE [Last(gs.stack) EXCEPT !.stack = Front(gs.stack)]

Restored(s) == PoppedMasks(Synced([s EXCEPT !.gs = PopGraphics(@)]))

-----------------------------------------------------------------------------
(* Entering and leaving a nested content stream *)

(* A form: save, its matrix before the CTM, its BBox, its resources. *)
EnterForm(s, o) ==
    LET ctm == Append(s.gs.ctm, Transform(o, 0))
    IN [s EXCEPT !.clipStack = Append(@, s.clip),
                 !.smaskStack = Append(@, s.smask),
                 !.depth = @ + 1,
                 !.gs.ctm = ctm,
                 !.base = ctm,
                 !.clip = @ \cup {Region(<<o>>, ctm)},
                 !.res = MergeResources(doc.objects[o].res, @)]

Shallower(s) == [s EXCEPT !.depth = IF @ = 0 THEN 0 ELSE @ - 1]

(* Faulty variant: the resources of the form stay in effect. *)
CleanupKeepsResources(s, caller) ==
    PoppedMasks(Synced([Shallower(s) EXCEPT !.gs = caller.gs, !.base = caller.base]))

CleanupAfterForm(s, caller) ==
    PoppedMasks(Synced([Shallower(s) EXCEPT
        !.res = caller.res, !.gs = caller.gs, !.base = caller.base]))

(* The RenderState of a group or a soft mask, on a buffer of its own. *)
ChildState(s, o, marks, clip) ==
    LET ctm == Append(s.gs.ctm, Transform(o, 0))
    IN [FreshState(MergeResources(doc.objects[o].res, s.res)) EXCEPT
          !.gs = [s.gs EXCEPT !.ctm = ctm, !.alpha = "1", !.blend = "Normal"],
          !.marks = marks,
          !.clip = clip \cup {Region(<<o>>, ctm)},
          !.depth = s.depth + 1,
          !.base = ctm]

(* A group that is not isolated starts from a copy of what is painted and   *)
(* has it removed again before it is composited back.                       *)
Backdrop(s, o) == IF doc.objects[o].isolated THEN <<>> ELSE s.marks

(* Faulty variant: the seeded backdrop is painted a second time. *)
CompositedWithBackdrop(s, o, child) ==
    [s EXCEPT !.marks = Append(@,
        [Mark(s, o, <<>>) EXCEPT !.ctm = <<>>, !.group = child.marks])]

Composited(s, o, child) ==
    LET own == SubSeq(child.marks, Len(Backdrop(s, o)) + 1, Len(child.marks))
    IN [s EXCEPT !.marks = Append(@,
          [Mark(s, o, <<>>) EXCEPT !.ctm = <<>>, !.blend = s.gs.blend,
                                   !.group = own])]

(* The nth repetition of a tile: its own matrix from the base of the stream *)
(* that fills, its BBox inside the clip of the fill.                        *)
EnterTile(s, o, nth) ==
    LET ctm == Append(s.base, Transform(o, nth))
    IN [s EXCEPT !.depth = @ + 1,
                 !.gs.ctm = ctm,
                 !.base = ctm,
                 !.clip = @ \cup {Region(<<o>>, ctm)},
                 !.res = MergeResources(doc.objects[o].res, @)]

LeaveTile(s, caller) ==
    Synced([Shallower(s) EXCEPT
        !.gs = caller.gs, !.res = caller.res, !.base = caller.base, !.clip = caller.clip])

(* What is left of f and of B once the interior is painted. *)
AfterFill(s, operator) ==
    Cleared(IF operator = "B" THEN PaintPath(s, "stroke") ELSE s)

(* An annotation is drawn from default graphics, without clip or soft mask. *)
EnterAnnotation(s) ==
    Synced([s EXCEPT !.clip = {}, !.smask = <<>>,
                     !.gs = [InitialGraphics EXCEPT !.ctm = <<Transform("rect", annot)>>]])

LeaveAnnotation(s, before) ==
    Synced([s EXCEPT !.gs = before.gs, !.clip = before.clip, !.smask = before.smask])

-----------------------------------------------------------------------------
(* The interpreter *)

Init ==
    /\ doc \in Documents
    /\ states = <<FreshState(doc.res)>>
    /\ frames = <<[kind |-> "page", object |-> "page", ops |-> doc.ops, pc |-> 1,
                   caller |-> FreshState(doc.res), nth |-> 0, operator |-> "",
                   outer |-> <<>>]>>
    /\ annot = 0
    /\ cancelled = FALSE
    /\ late = 0
    /\ open = 0
    /\ result = "none"

Top == Last(frames)
St  == Last(states)

(* Faulty variant: the token is read at the end of each interval, which a   *)
(* short stream never reaches.                                              *)
PollsAtEnd(frame) == frame.pc % PollInterval = 0

Polls(frame) == (frame.pc - 1) % PollInterval = 0

Running(frame) == frame.pc <= Len(frame.ops)

(* dispatch_all is about to dispatch an operator of this set. *)
Due(operators) ==
    /\ frames # <<>>
    /\ Running(Top)
    /\ ~ (cancelled /\ Polls(Top))
    /\ Top.ops[Top.pc].op \in operators

Arg == Top.ops[Top.pc].arg

WithTop(s) == Append(Front(states), s)
Advanced   == [frames EXCEPT ![Len(frames)].pc = @ + 1]
Dispatched == late' = IF cancelled THEN late + 1 ELSE late

Becomes(s) ==
    /\ states' = WithTop(s)
    /\ frames' = Advanced
    /\ Dispatched
    /\ UNCHANGED <<doc, annot, cancelled, open, result>>

(* Start the stream of object o on the RenderState s, innermost of all. *)
Frame(kind, o, caller, nth, operator, outer) ==
    [kind |-> kind, object |-> o, ops |-> doc.objects[o].ops, pc |-> 1,
     caller |-> caller, nth |-> nth, operator |-> operator, outer |-> outer]

Named(kinds) ==
    /\ Arg \in DOMAIN St.res
    /\ doc.objects[St.res[Arg]].kind \in kinds

(* m, l, c, v, y, re *)
ConstructPath ==
    /\ Due({"re"})
    /\ Becomes([St EXCEPT !.path = Append(@, Arg)])

(* W, W*: the path clips what comes after the painting operator. *)
MarkClip ==
    /\ Due({"W"})
    /\ Becomes([St EXCEPT !.pending = TRUE])

(* n *)
EndPath ==
    /\ Due({"n"})
    /\ Becomes(Cleared(ApplyPendingClip(St)))

(* S, s *)
Stroke ==
    /\ Due({"S"})
    /\ Becomes(Cleared(PaintPath(ApplyPendingClip(St), "stroke")))

IsPattern(s) == s.gs.fill \in doc.patterns

(* f, F, f*, B, b and their variants, with a plain colour. *)
Fill ==
    /\ Due({"f", "B"})
    /\ ~ IsPattern(St)
    /\ LET s == ApplyPendingClip(St)
       IN Becomes(AfterFill(PaintPath(s, s.gs.fill), Top.ops[Top.pc].op))

(* paint_tiling_pattern_fill gets as far as its first tile. *)
CanTile(s) ==
    /\ s.gs.fill \in DOMAIN s.res
    /\ s.depth < MaxFormDepth
    /\ s.path # <<>>
    /\ LET o == doc.objects[s.res[s.gs.fill]]
       IN /\ o.kind = "tiling"
          /\ ~ o.broken
          /\ o.tiles \in 1 .. TileCap

(* ... and when it does not, nothing fills the interior. *)
SkipPattern ==
    /\ Due({"f", "B"})
    /\ IsPattern(St)
    /\ ~ CanTile(St) \/ cancelled
    /\ Becomes(AfterFill(ApplyPendingClip(St), Top.ops[Top.pc].op))

(* The clip of the fill is installed and the first tile is begun. *)
FillPattern ==
    /\ Due({"f", "B"})
    /\ IsPattern(St)
    /\ CanTile(St)
    /\ ~ cancelled
    /\ LET s == ApplyPendingClip(St)
           o == s.res[s.gs.fill]
           clipped == [s EXCEPT !.clip = @ \cup {Region(s.path, s.gs.ctm)}]
       IN /\ states' = WithTop(EnterTile(clipped, o, 1))
          /\ frames' = Append(Advanced,
                Frame("tile", o, clipped, 1, Top.ops[Top.pc].op, <<s>>))
    /\ Dispatched
    /\ UNCHANGED <<doc, annot, cancelled, open, result>>

Save ==
    /\ Due({"q"})
    /\ Becomes(Saved(St))

Restore ==
    /\ Due({"Q"})
    /\ Becomes(Restored(St))

(* cm *)
ConcatMatrix ==
    /\ Due({"cm"})
    /\ Becomes([St EXCEPT !.gs.ctm = Append(@, Transform(Arg, 0))])

(* The colour operators; scn with a name sets a pattern. *)
SetFill ==
    /\ Due({"scn"})
    /\ Becomes([St EXCEPT !.gs.fill = Arg])

(* Tj and its like; sh and images, by Do or inline: marks that use no path. *)
Show ==
    /\ Due({"show", "sh"})
    /\ Becomes(Marked(St, Arg))

(* gs: the parameters of the named ExtGState. *)
WithParameters(s, o) ==
    Synced([s EXCEPT !.gs.blend = IF o.blend = "" THEN @ ELSE o.blend,
                     !.gs.alpha = IF o.alpha = "" THEN @ ELSE o.alpha])

(* Its soft mask is absent, /None, or a group that cannot be decoded. *)
SetGraphicsState ==
    /\ Due({"gs"})
    /\ Named({"gstate"})
    /\ LET g == doc.objects[St.res[Arg]]
           s == WithParameters(St, g)
       IN \/ /\ g.smask = ""
             /\ Becomes(s)
          \/ /\ g.smask = "None"
             /\ Becomes([s EXCEPT !.smask = <<>>])
          \/ /\ g.smask \in DOMAIN doc.objects
             /\ doc.objects[g.smask].broken
             /\ Becomes(s)

(* Its soft mask is a group: it is drawn on a buffer of its own. *)
BeginSoftMask ==
    /\ Due({"gs"})
    /\ Named({"gstate"})
    /\ LET g == doc.objects[St.res[Arg]]
           s == WithParameters(St, g)
       IN /\ g.smask \in DOMAIN doc.objects
          /\ ~ doc.objects[g.smask].broken
          /\ states' = Append(WithTop(s), ChildState(s, g.smask, <<>>, {}))
          /\ frames' = Append(Advanced, Frame("smask", g.smask, s, 0, "", <<>>))
    /\ Dispatched
    /\ UNCHANGED <<doc, annot, cancelled, open, result>>

(* Do, gs of a name that is not there, Do past the nesting limit, Do of a   *)
(* group whose stream fails to decode.                                      *)
SkipName ==
    /\ Due({"Do", "gs"})
    /\ \/ Top.ops[Top.pc].op = "gs" /\ ~ Named({"gstate"})
       \/ Top.ops[Top.pc].op = "Do" /\ ~ Named({"form", "group"})
       \/ Top.ops[Top.pc].op = "Do" /\ Named({"form", "group"})
                                     /\ St.depth >= MaxFormDepth
       \/ Top.ops[Top.pc].op = "Do" /\ Named({"group"})
                                     /\ doc.objects[St.res[Arg]].broken
    /\ Becomes(St)

(* A form is entered before its stream is decoded, and left when that fails. *)
DoBrokenForm ==
    /\ Due({"Do"})
    /\ Named({"form"})
    /\ St.depth < MaxFormDepth
    /\ LET o == St.res[Arg]
       IN /\ doc.objects[o].broken
          /\ Becomes(CleanupAfterForm(EnterForm(St, o), St))

DoForm ==
    /\ Due({"Do"})
    /\ Named({"form"})
    /\ St.depth < MaxFormDepth
    /\ LET o == St.res[Arg]
       IN /\ ~ doc.objects[o].broken
          /\ states' = WithTop(EnterForm(St, o))
          /\ frames' = Append(Advanced, Frame("form", o, St, 0, "", <<>>))
    /\ Dispatched
    /\ UNCHANGED <<doc, annot, cancelled, open, result>>

DoGroup ==
    /\ Due({"Do"})
    /\ Named({"group"})
    /\ St.depth < MaxFormDepth
    /\ LET o == St.res[Arg]
       IN /\ ~ doc.objects[o].broken
          /\ states' = Append(states, ChildState(St, o, Backdrop(St, o), St.clip))
          /\ frames' = Append(Advanced, Frame("group", o, St, 0, "", <<>>))
    /\ Dispatched
    /\ UNCHANGED <<doc, annot, cancelled, open, result>>

-----------------------------------------------------------------------------
(* The end of a stream *)

(* The poll at the top of the dispatch loop: the rest is not dispatched. *)
StopAtPoll ==
    /\ frames # <<>>
    /\ Running(Top)
    /\ cancelled
    /\ Polls(Top)
    /\ frames' = [frames EXCEPT ![Len(frames)].pc = Len(Top.ops) + 1]
    /\ UNCHANGED <<doc, states, annot, cancelled, late, open, result>>

Ended(kind) ==
    /\ frames # <<>>
    /\ ~ Running(Top)
    /\ Top.kind = kind

(* The annotation a stream was the appearance of is restored last. *)
Outer(s) == IF Top.outer = <<>> THEN s ELSE LeaveAnnotation(s, Top.outer[1])

EndForm ==
    /\ Ended("form")
    /\ states' = WithTop(Outer(CleanupAfterForm(St, Top.caller)))
    /\ frames' = Front(frames)
    /\ UNCHANGED <<doc, annot, cancelled, late, open, result>>

EndGroup ==
    /\ Ended("group")
    /\ LET parent == Last(Front(states))
       IN states' = Append(Front(Front(states)), Outer(Composited(parent, Top.object, St)))
    /\ frames' = Front(frames)
    /\ UNCHANGED <<doc, annot, cancelled, late, open, result>>

EndSoftMask ==
    /\ Ended("smask")
    /\ states' = Append(Front(Front(states)),
                        [Last(Front(states)) EXCEPT !.smask = <<St.marks>>])
    /\ frames' = Front(frames)
    /\ UNCHANGED <<doc, annot, cancelled, late, open, result>>

(* The tile loop polls the token before each repetition. *)
MoreTiles == Top.nth < doc.objects[Top.object].tiles /\ ~ cancelled

NextTile ==
    /\ Ended("tile")
    /\ MoreTiles
    /\ LET s == LeaveTile(St, Top.caller)
       IN /\ states' = WithTop(EnterTile(s, Top.object, Top.nth + 1))
          /\ frames' = Append(Front(frames),
                [Top EXCEPT !.pc = 1, !.nth = @ + 1, !.caller = s])
    /\ UNCHANGED <<doc, annot, cancelled, late, open, result>>

EndTiles ==
    /\ Ended("tile")
    /\ ~ MoreTiles
    /\ LET s == LeaveTile(St, Top.caller)
       IN states' = WithTop(AfterFill([s EXCEPT !.clip = Top.outer[1].clip], Top.operator))
    /\ frames' = Front(frames)
    /\ UNCHANGED <<doc, annot, cancelled, late, open, result>>

(* cancel.check("page render") *)
EndPage ==
    /\ Ended("page")
    /\ frames' = <<>>
    /\ annot' = IF cancelled THEN 0 ELSE 1
    /\ result' = IF cancelled THEN "cancelled" ELSE "none"
    /\ UNCHANGED <<doc, states, cancelled, late, open>>

-----------------------------------------------------------------------------
(* Annotations *)

BetweenAnnotations == frames = <<>> /\ annot > 0 /\ result = "none"

(* The loop polls the token before each annotation. *)
MoreAnnotations == annot <= Len(doc.annots) /\ ~ cancelled

(* Faulty variant: what is skipped is looked at again. *)
SkipAnnotationAgain ==
    /\ BetweenAnnotations
    /\ MoreAnnotations
    /\ doc.objects[doc.annots[annot]].broken
    /\ UNCHANGED vars

(* Too deep, or a stream that fails to decode: all is as it was. *)
SkipAnnotation ==
    /\ BetweenAnnotations
    /\ MoreAnnotations
    /\ St.depth >= MaxFormDepth \/ doc.objects[doc.annots[annot]].broken
    /\ annot' = annot + 1
    /\ states' = WithTop(IF St.depth >= MaxFormDepth THEN St
                         ELSE LeaveAnnotation(EnterAnnotation(St), St))
    /\ UNCHANGED <<doc, frames, cancelled, late, open, result>>

DrawAnnotation ==
    /\ BetweenAnnotations
    /\ MoreAnnotations
    /\ St.depth < MaxFormDepth
    /\ LET o == doc.annots[annot]
           s == EnterAnnotation(St)
       IN /\ ~ doc.objects[o].broken
          /\ states' = IF doc.objects[o].kind = "group"
                       THEN Append(WithTop(s), ChildState(s, o, Backdrop(s, o), s.clip))
                       ELSE WithTop(EnterForm(s, o))
          /\ frames' = <<Frame(doc.objects[o].kind, o, s, 0, "", <<St>>)>>
    /\ annot' = annot + 1
    /\ UNCHANGED <<doc, cancelled, late, open, result>>

(* cancel.check("page annotation render") *)
Finish ==
    /\ BetweenAnnotations
    /\ ~ MoreAnnotations
    /\ result' = IF cancelled THEN "cancelled" ELSE "ok"
    /\ UNCHANGED <<doc, states, frames, annot, cancelled, late, open>>

(* The deadline of the caller, on a thread of its own. *)
Cancel ==
    /\ result = "none"
    /\ ~ cancelled
    /\ cancelled' = TRUE
    /\ open' = Len(frames)
    /\ UNCHANGED <<doc, states, frames, annot, late, result>>

-----------------------------------------------------------------------------
Operator ==
    \/ ConstructPath \/ MarkClip \/ EndPath \/ Stroke \/ Fill \/ SkipPattern
    \/ FillPattern \/ Save \/ Restore \/ ConcatMatrix \/ SetFill \/ Show
    \/ SetGraphicsState \/ BeginSoftMask \/ SkipName \/ DoBrokenForm \/ DoForm
    \/ DoGroup

EndOfStream ==
    \/ StopAtPoll \/ EndForm \/ EndGroup \/ EndSoftMask \/ NextTile \/ EndTiles
    \/ EndPage

Annotation == SkipAnnotation \/ DrawAnnotation \/ Finish

Work == Operator \/ EndOfStream \/ Annotation

(* The call has returned. *)
Returned == result # "none" /\ UNCHANGED vars

Next == Work \/ Cancel \/ Returned

(* The interpreter runs on a thread of its own; the deadline need not pass. *)
Spec == Init /\ [][Next]_vars /\ WF_vars(Work)

-----------------------------------------------------------------------------
(* Properties *)

Count(kinds) == Len(SelectSeq(frames, LAMBDA f : f.kind \in kinds))

(* The shape of the state: one RenderState for the page and one for every   *)
(* running group and soft mask, the clip and the soft mask saved together.  *)
TypeOK ==
    /\ annot \in 0 .. Len(doc.annots) + 1
    /\ cancelled \in BOOLEAN
    /\ late \in Nat
    /\ open \in Nat
    /\ result \in {"none", "ok", "cancelled"}
    /\ \A i \in DOMAIN frames : frames[i].pc \in 1 .. Len(frames[i].ops) + 1
    /\ Len(states) = 1 + Count({"group", "smask"})
    /\ \A i \in DOMAIN states :
          Len(states[i].clipStack) = Len(states[i].smaskStack)
    /\ Count({"form", "group", "tile"}) <= MaxFormDepth
    /\ St.depth = Count({"form", "group", "tile", "smask"})

(* Once the token is tripped each running stream dispatches at most the     *)
(* rest of one polling interval, and no stream begun after it anything.     *)
PromptlyCancelled == late <= open * (PollInterval - 1)

(* The levels of q that are open after the first n operators. *)
Times(ops, name, n) == Cardinality({i \in 1 .. n : ops[i].op = name})

Level(ops, n) == Times(ops, "q", n) - Times(ops, "Q", n)

Balanced(ops) ==
    /\ \A n \in 0 .. Len(ops) : Level(ops, n) >= 0
    /\ Level(ops, Len(ops)) = 0

(* A tile puts back all but the soft mask: one it sets outside q and Q stays. *)
LeavesMask(o) ==
    /\ o.kind = "tiling"
    /\ \E n \in DOMAIN o.ops : o.ops[n].op = "gs" /\ Level(o.ops, n) = 0

MasksMayStay == \E o \in DOMAIN doc.objects : LeavesMask(doc.objects[o])

(* What an operator that ran a stream of its own leaves behind: no more     *)
(* than the marks it made and, for gs, the soft mask it set.                *)
Surroundings(s, kind) ==
    <<s.gs, s.clip, s.blend, s.clipStack, s.smaskStack, s.depth, s.res, s.base,
      IF kind = "smask" \/ (kind = "tile" /\ MasksMayStay) THEN <<>> ELSE s.smask>>

(* Every stream of the page saves and restores in pairs. *)
WellNested == \A o \in DOMAIN doc.objects : Balanced(doc.objects[o].ops)

(* A form, group, soft mask, tile or annotation leaves the graphics state,  *)
(* clip, soft mask, saved levels and resources of its surroundings as they  *)
(* were, in pages whose streams are well nested and unless it is cut short.  *)
NestedStreamsAreContained ==
    [][ \/ ~ WellNested
        \/ cancelled
        \/ Len(frames') >= Len(frames)
        \/ Top.kind = "page"
        \/ LET before == IF Top.outer # <<>> THEN Top.outer[1] ELSE Top.caller
               after == Last(states')
           IN Surroundings(after, Top.kind) = Surroundings(before, Top.kind) ]_vars

(* Every page is done or given up: the nesting limit and the tile cap end   *)
(* what names itself.                                                       *)
Returns == <>(result # "none")
=============================================================================
