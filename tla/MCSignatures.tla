---------------------------- MODULE MCSignatures ----------------------------
(***************************************************************************)
(* A small instance of Signatures: two signers, one of them with a chain   *)
(* in which two authorities issued each other.                             *)
(***************************************************************************)
EXTENDS Signatures

MCIdentities == {[cert |-> "leaf", chain |-> <<"cross", "authority", "leaf">>],
                 [cert |-> "self", chain |-> <<"self">>]}
MCIssuedBy == {<<"leaf", "authority">>, <<"authority", "cross">>, <<"cross", "authority">>,
               <<"authority", "root">>, <<"self", "self">>, <<"root", "root">>}
MCAnchorSets == {{}, {"root"}, {"self"}, {"cross"}, {"other"}}
MCMaterials == {[index |-> i, certs |-> c, ocsps |-> 0, crls |-> r] :
                  i \in {0, 1}, c \in {{}, {"authority"}}, r \in {{}, {{"leaf"}}}}

MCPlain == Repeat(Cell("plain", <<>>), 2)
\* Two hold a placeholder that their own producer has not filled.
MCOriginals == {MCPlain, MCPlain \o contents_placeholder(2),
                MCPlain \o RangePlaceholder \o contents_placeholder(2)}
=============================================================================
