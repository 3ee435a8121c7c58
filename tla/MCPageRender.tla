---------------------------- MODULE MCPageRender ----------------------------
(***************************************************************************)
(* Pages for the renderer, put together from the fragments real content     *)
(* streams are made of.                                                     *)
(***************************************************************************)
EXTENDS VectorOutput, TLC

O(op, arg) == [op |-> op, arg |-> arg]
q == <<O("q", "")>>
Q == <<O("Q", "")>>
Do(x) == <<O("Do", x)>>
box == <<O("re", "p")>>
fill == <<O("f", "")>>
text == <<O("show", "t")>>
blend == <<O("gs", "Multiply")>>

Named1(n, o) == (n :> o)
NoNames == [n \in {} |-> ""]

Thing(kind, ops) ==
    [kind |-> kind, ops |-> ops, res |-> NoNames, isolated |-> FALSE, broken |-> FALSE,
     tiles |-> 1, blend |-> "", alpha |-> "", smask |-> ""]

(* What the page's own streams may do; every fragment is well nested. *)
Fragments ==
    { box \o fill,
      q \o blend \o box \o fill \o Q,
      q \o box \o <<O("W", ""), O("n", "")>> \o text \o Q,
      <<O("cm", "m")>>,
      q \o <<O("gs", "Masked")>> \o box \o <<O("S", "")>> \o Q,
      <<O("gs", "Unmasked")>> \o text,
      q \o <<O("scn", "P")>> \o box \o <<O("B", "")>> \o Q,
      Do("X"),
      q \o blend \o Do("X") \o Q }

PageOps == { a \o b : a, b \in Fragments }

(* The form X names: plain streams, ones that set what must not leak, ones  *)
(* that name themselves or the soft mask, ones that cannot be decoded.      *)
Inner ==
    { text,
      blend \o box \o fill,
      box \o <<O("W", ""), O("n", "")>> \o Do("Y"),
      q \o <<O("gs", "Masked")>> \o Do("X") \o Q \o text }

Kinds == { [kind |-> "form", isolated |-> FALSE, broken |-> FALSE],
           [kind |-> "group", isolated |-> FALSE, broken |-> FALSE],
           [kind |-> "group", isolated |-> TRUE, broken |-> FALSE],
           [kind |-> "form", isolated |-> FALSE, broken |-> TRUE] }

Names == [n \in {"X", "P", "Multiply", "Masked", "Unmasked"} |-> n]

Page(ops, inner, k, tile, tiles, annots) ==
    [ops |-> ops, res |-> Names, annots |-> annots, patterns |-> {"P"},
     objects |->
        [o \in {"page", "X", "Y", "P", "Multiply", "Masked", "Unmasked", "S", "A"} |->
            CASE o = "page"     -> Thing("page", ops)
              [] o = "X"        -> [Thing(k.kind, inner) EXCEPT
                                        !.isolated = k.isolated, !.broken = k.broken,
                                        !.res = Named1("Y", "Y")]
              [] o = "Y"        -> [Thing("form", blend \o text) EXCEPT
                                        !.res = Named1("Multiply", "Unmasked")]
              [] o = "P"        -> [Thing("tiling", tile) EXCEPT !.tiles = tiles]
              [] o = "Multiply" -> [Thing("gstate", <<>>) EXCEPT !.blend = "Multiply"]
              [] o = "Masked"   -> [Thing("gstate", <<>>) EXCEPT !.smask = "S", !.alpha = "0.5"]
              [] o = "Unmasked" -> [Thing("gstate", <<>>) EXCEPT !.smask = "None", !.blend = "Screen"]
              [] o = "S"        -> [Thing("group", blend \o box \o fill) EXCEPT !.broken = (tiles = 3)]
              [] o = "A"        -> [Thing(k.kind, blend \o text) EXCEPT !.broken = k.broken]]]

Tame == { Page(ops, inner, k, text, 2, <<"A">>) :
            ops \in PageOps, inner \in Inner, k \in Kinds }

(* Tiles that nest, too many tiles, names that are missing. *)
TilePages == { Page(q \o <<O("scn", "P")>> \o box \o <<O("B", "")>> \o Q \o f, text,
                    [kind |-> "form", isolated |-> FALSE, broken |-> FALSE], tile, tiles, <<>>) :
                 f \in {Do("X"), Do("None") \o text, <<O("gs", "None")>> \o text,
                        <<O("gs", "Masked")>> \o text},
                 tile \in {text, Do("X"), q \o blend \o text \o Q, <<O("gs", "Masked")>> \o text},
                 tiles \in {0, 1, 2, 3} }

Unpaired(ops) == { ops \o q, Q \o ops, q \o q \o blend \o ops }

(* Streams that do not save and restore in pairs. *)
Wild == { Page(q \o Do("X") \o Q \o text, inner,
               [kind |-> kind, isolated |-> FALSE, broken |-> FALSE], tile, 2, <<"A">>) :
            inner \in Unpaired(text), kind \in {"form", "group"}, tile \in {text} }

(* Pages of shapes and clips only, most of them within the vector backends. *)
clip == box \o <<O("W", ""), O("n", "")>>
VectorFragments ==
    { box \o fill, clip \o text, q \o clip \o box \o <<O("S", "")>> \o Q,
      <<O("cm", "m")>>, q \o <<O("scn", "red")>> \o box \o <<O("B", "")>> \o Q,
      <<O("sh", "s")>> }

VectorPages == { Page(a \o b \o c, text,
                      [kind |-> "form", isolated |-> FALSE, broken |-> FALSE], text, 1, <<>>) :
                   a, b, c \in VectorFragments }

MCDocuments == Tame \cup TilePages \cup Wild \cup VectorPages

=============================================================================
