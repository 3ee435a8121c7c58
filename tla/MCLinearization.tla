-------------------------- MODULE MCLinearization --------------------------
(* Documents of eight objects for Linearization: catalog (1), page tree (2), *)
(* two pages (3 and 4), a content stream (5), a font (6) and an annotation   *)
(* (7), and one more object (8) in one of several roles, a third page among   *)
(* them.                                                                     *)
EXTENDS Linearization

MCSize == [n \in 1 .. 8 |-> 1 + (n % 3)]

Obj(type, refs, box) == [type |-> type, refs |-> refs, box |-> box]
If(cond, S) == IF cond THEN S ELSE {}
Roles == {"none", "resources", "box", "node", "leaf", "outline", "field", "lost", "XRef", "thumb", "page"}

\* What page p uses of the three objects, and what role says of the second page.
Page(p, uses, role, own) ==
  LET second == p = 4
      indirect == second /\ role = "resources"
      named == [k \in {"Parent", "Contents", "Annots"} |->
                  CASE k = "Parent" -> {IF second /\ role = "node" THEN 8 ELSE 2}
                    [] k = "Contents" -> uses \cap {5}
                    [] k = "Annots" -> uses \cap {7}]
      resources == [k \in If(own, {"Resources"}) |-> IF indirect THEN {8} ELSE uses \cap {6}]
      box == [k \in If(second /\ role = "box", {"MediaBox"}) |-> {8}]
      thumb == [k \in If(second /\ role = "thumb", {"Thumb"}) |-> {8}]
  IN  Obj(IF second /\ role = "leaf" THEN "" ELSE "Page", named @@ resources @@ box @@ thumb,
          IF own THEN "A5" ELSE NoBox)

Document(uses3, uses4, own, role, from5, from6, from7, first) ==
  LET around == IF role = "node" THEN {7} ELSE {6}   \* what the second page inherits
      eighth == CASE role = "none" -> Obj("unreadable", <<>>, NoBox)
                  [] role = "lost" -> Obj("unreadable", <<>>, NoBox)
                  [] role = "XRef" -> Obj("XRef", [Root |-> {1}], NoBox)
                  [] role = "page" -> Page(8, {6, 7}, role, TRUE)
                  [] role = "node" ->
                       Obj("Pages", [Kids |-> {4}, Parent |-> {2}, Resources |-> {7}], "B4")
                  [] OTHER -> Obj("", [Any |-> {6}], NoBox)
      seventh == from7 \cup If(role \in {"field", "lost", "XRef"}, {8})
      inner == IF role = "resources" THEN {6} ELSE uses4 \cap {6}
  IN  [root |-> 1, info |-> IF role = "none" THEN 0 ELSE 6,
       obj |-> [n \in 1 .. 8 |->
         CASE n = 1 -> Obj("Catalog", [Pages |-> {2}, AcroForm |-> first,
                                       Outlines |-> If(role = "outline", {8})], NoBox)
           [] n = 2 -> Obj("Pages", [Kids |-> {3, IF role = "node" THEN 8 ELSE 4} \cup If(role = "page", {8}),
                                     Resources |-> {6}], "A4")
           [] n = 3 -> Page(3, uses3, role, TRUE)
           [] n = 4 -> Page(4, uses4, role, own)
           [] n = 5 -> Obj("", [Any |-> from5], NoBox)
           [] n = 6 -> Obj("", [Any |-> from6], NoBox)
           [] n = 7 -> Obj("", [Any |-> seventh], NoBox)
           [] n = 8 -> eighth],
       pages |-> <<[num |-> 3, box |-> "A5", resources |-> uses3 \cap {6}, contents |-> uses3 \cap {5}],
                   [num |-> 4, contents |-> uses4 \cap {5},
                    resources |-> IF own THEN inner ELSE around,
                    box |-> IF own \/ role = "box" THEN "A5" ELSE IF role = "node" THEN "B4" ELSE "A4"]>>
                 \o IF role = "page"
                    THEN <<[num |-> 8, box |-> "A5", resources |-> {6}, contents |-> {}]>> ELSE <<>>]

MCDocuments ==
  {Document(u3, u4, own, role, f5, f6, f7, first) :
     u3 \in {{5}, {6, 7}, {5, 6, 7}}, u4 \in {{}, {5}, {5, 6, 7}}, own \in BOOLEAN, role \in Roles,
     f5 \in {{}, {6}}, f6 \in {{}, {6, 7}}, f7 \in {{}, {3}, {4, 5}}, first \in {{}, {7}}}
=============================================================================
