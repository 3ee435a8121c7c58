---------------------------- MODULE MCCopyClosure ----------------------------
(* CopyClosure for model checking: two small documents.                     *)
EXTENDS CopyClosure

\* A cycle, a self reference, a repeated reference, a chain and a diamond.
MCLinks ==
    {[o \in Objs |-> CASE o = 1 -> one [] o = 2 -> two [] OTHER -> three] :
        one \in {<<2, 3>>}, two \in {<<>>, <<1>>, <<3, 3>>}, three \in {<<2>>, <<3>>}}
MCConditions ==
    {[o \in Objs |-> IF o = bad THEN c ELSE "plain"] : bad \in {2, 3}, c \in Condition}
P(l, c, r) == [leaf |-> l, contents |-> c, resources |-> r]
\* No page; a page with two contents; two pages that share a resource, the second
\* one with its own leaf among its resources.
MCSelections == {<<>>, <<P(1, <<2, 3>>, <<3>>)>>, <<P(1, <<3>>, <<>>), P(2, <<3>>, <<2, 2>>)>>}
=============================================================================
