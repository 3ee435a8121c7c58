--------------------------- MODULE MCPageExtract ---------------------------
(* Documents of ten objects: a catalog (1), a tree (2 to 5), two object     *)
(* streams (6 and 7), an integer (8) that may be the length of a stream,    *)
(* and two content streams (9 and 10).                                      *)
EXTENDS PageExtract

CONSTANTS w1, w2

MCNumbers == 1..10
MCRequest == <<2, 1, 4>>
MCRotations == {<<{}, "relative", 90>>, <<{2, 9}, "relative", -180>>, <<{9}, "absolute", 90>>,
                <<{1}, "absolute", 45>>}

Node(kids, attrs) == [kind |-> "dict", type |-> "Pages", hasKids |-> TRUE, kids |-> kids,
                      attrs |-> attrs, cipher |-> "clear"]
Leaf(type, attrs) == [kind |-> "dict", type |-> type, hasKids |-> FALSE, kids |-> <<>>,
                      contents |-> IF type = "Page" THEN <<9, 10>> ELSE <<10>>,
                      attrs |-> attrs, cipher |-> "clear"]
Other(kind)       == [kind |-> kind, cipher |-> "clear"]
RefTo(n)          == [kind |-> "ref", to |-> n, cipher |-> "clear"]

Own == ("Rotate" :> 270) @@ ("CropBox" :> "trim")
Up  == ("Rotate" :> 90) @@ ("MediaBox" :> "A4")

(* Trees: a kid shared by two nodes, a cycle, an alias beside an untyped     *)
(* leaf, a kid named twice with an odd angle, a root that is itself a leaf,  *)
(* an attribute that does not parse.                                         *)
Trees == {
    << Node(<<3, 4>>, Up), Node(<<5, 4>>, "MediaBox" :> "A5"), Leaf("Page", Own), Leaf("Page", << >>) >>,
    << Node(<<4, 3>>, << >>), Node(<<2, 5>>, Up), Leaf("Page", Own), Leaf("Page", "CropBox" :> "trim") >>,
    << Node(<<3, 5>>, Up), RefTo(4), Leaf("Page", Own), Leaf("none", << >>) >>,
    << Node(<<4, 4, 5>>, "Rotate" :> -90), RefTo(3), Leaf("Page", "Rotate" :> 45), Leaf("Page", << >>) >>,
    << Leaf("Pages", Own), RefTo(3), Other("int"), Other("int") >>,
    << Node(<<4, 5>>, Up), Other("int"), Leaf("Page", << >>), Leaf("Page", "Rotate" :> Bad) >> }

(* Where the objects are: the numbers each stream lists, those the           *)
(* cross-reference places one index off, those it has freed, the streams     *)
(* with an indirect length.                                                  *)
Layout(six, seven, shifted, freed, indirect) ==
    [six |-> six, seven |-> seven, shifted |-> shifted, freed |-> freed, indirect |-> indirect]

Layouts == {
    Layout(<<>>, <<8>>, {}, {}, {9, 10}),
    Layout(<<1, 2, 3, 4, 5>>, <<>>, {}, {}, {6}),
    Layout(<<1, 2, 4>>, <<8, 3, 5>>, {}, {}, {6}),
    Layout(<<2, 5, 3>>, <<8, 4>>, {}, {}, {6, 9}),
    Layout(<<2, 3>>, <<4, 5>>, {5}, {}, {}),
    Layout(<<2, 3>>, <<4, 8>>, {8}, {}, {10}),
    Layout(<<8>>, <<1>>, {}, {10}, {9}),
    Layout(<<2, 4>>, <<8>>, {}, {5}, {6}),
    Layout(<<2, 4>>, <<>>, {}, {8}, {6}) }

Document(tree, at, enciphered) ==
    LET listed == [n \in MCNumbers |-> IF n \in Range(at.six) THEN 6
                                       ELSE IF n \in Range(at.seven) THEN 7 ELSE 0]
        table  == [n \in MCNumbers |-> IF n = 6 THEN at.six ELSE IF n = 7 THEN at.seven ELSE <<>>]
    IN  [obj |-> [n \in MCNumbers |->
                    CASE n = 1 -> [kind |-> "catalog", pages |-> 2, cipher |-> "clear"]
                      [] n \in 2..5 -> tree[n - 1]
                      [] n \in 6..7 -> Other("objstm")
                      [] n = 8 -> Other("int")
                      [] n \in 9..10 -> Other("stream")],
         entry |-> [n \in MCNumbers |->
                    IF n \in at.freed THEN [kind |-> "free"]
                    ELSE IF listed[n] = 0 THEN [kind |-> "plain"]
                    ELSE [kind |-> "packed", stream |-> listed[n],
                          index |-> CHOOSE i \in 0..10 :
                             i + 1 - (IF n \in at.shifted THEN 1 ELSE 0) \in DOMAIN table[listed[n]]
                             /\ table[listed[n]][i + 1 - (IF n \in at.shifted THEN 1 ELSE 0)] = n]],
         table |-> table,
         length |-> [n \in MCNumbers |-> IF n \in at.indirect THEN 8 ELSE NoNumber],
         encrypted |-> enciphered]

MCDocuments == {Document(t, l, FALSE) : t \in Trees, l \in Layouts}
                   \cup {Document(t, Layout(<<2, 4>>, <<8, 5>>, {}, {}, {6, 9}), TRUE) : t \in Trees}
=============================================================================
