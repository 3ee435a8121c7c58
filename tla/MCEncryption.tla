---------------------------- MODULE MCEncryption ----------------------------
(* Documents of five objects for Encryption: a clear one, and files that    *)
(* other programs enciphered, each object by the cipher written here.       *)
EXTENDS Encryption

MCIds == {"catalog", "page", "xmp", "file", "named"}
MCPasswords == {"", "u", "o", "long1", "long2", "start"}
\* Two passwords that differ only beyond their 32nd byte, and one the padding
\* itself starts with.
MCPadded == [p \in MCPasswords |-> CASE p = "long2" -> "long1" [] p = "start" -> "" [] OTHER -> p]
MCTruncated == [p \in MCPasswords |-> p]

Request(user, owner, algorithm) ==
  [user_password |-> user, owner_password |-> owner, algorithm |-> algorithm,
   encrypt_metadata |-> TRUE]
MCParams == {Request(u[1], u[2], a) : u \in {<<"u", "o">>, <<"", "o">>, <<"long2", "">>},
                                      a \in {"Rc4_128", "Aes128", "Aes256"}}

KindOf == [id \in MCIds |-> CASE id = "catalog" -> "dict" [] id = "xmp" -> "metadata"
                              [] id = "file" -> "embedded" [] OTHER -> "stream"]

\* The document under numbers 2 to 6: object `ids[n - 1]' is number n.  A cipher
\* of "None" leaves a cell in clear.
ids == <<"catalog", "page", "xmp", "file", "named">>
Enciphered(c, key) == IF key.cipher = "None" \/ c = Empty THEN c ELSE Push(c, key)
Sealed(fk, text, bytes, crypt) ==
  [n \in 2 .. 6 |->
    LET id == ids[n - 1]
        plain == Says(id, 1)
    IN  [id |-> id, kind |-> KindOf[id], crypt |-> IF id = "named" THEN crypt ELSE "",
         text |-> Enciphered(plain.text, object_key(fk, n, IF text[id] = "" THEN "None" ELSE text[id])),
         bytes |-> Enciphered(plain.bytes, object_key(fk, n, bytes[id]))]]
All(m) == [id \in MCIds |-> m]

AsFile(objs, packed, dict) ==
  LET encrypt == IF dict = NoDict THEN {} ELSE {8}
      stm == IF packed = {} THEN {} ELSE {9}
      numbers == DOMAIN objs \cup encrypt \cup stm
  IN  [objs |-> [n \in numbers |->
          CASE n \in DOMAIN objs -> objs[n]
            [] n \in encrypt -> Object("", "dict", Plain(1), Empty)
            [] n \in stm -> Object("", "objstm", Empty, Plain(1))],
       home |-> [n \in numbers |-> IF n \in packed THEN 9 ELSE 0],
       encrypt |-> IF dict = NoDict THEN 0 ELSE 8, dict |-> dict, id |-> 0, maker |-> "other"]

Original(f, user, owner) == [file |-> f, holders |-> [user |-> user, owner |-> owner]]

\* A clear file, its catalog packed or not.
Clear == {Original(AsFile(Sealed([random |-> 0], All(""), All("None"), c), packed, NoDict), "", "") :
            c \in {"", "Identity"}, packed \in {{}, {2}}}

\* A V4 file: AES for streams, RC4 for strings, attachments and metadata in
\* clear, and one stream under a filter of its own.
MixedDict(r, owner) ==
  LET d == [Dictionary(4, r, [owner |-> MCPadded[owner], user |-> "u"], {}, NoWrap, NoWrap,
                       [name \in {"A", "B", "N"} |->
                          CASE name = "A" -> "AESV2" [] name = "B" -> "V2" [] OTHER -> ""], FALSE)
              EXCEPT !.StmF = "A", !.StrF = "B", !.EFF = "Identity"]
  IN  [d EXCEPT !.U = LegacyKey("u", d, 0)]
Mixed(c, owner) ==
  LET d == MixedDict(4, owner)
  IN  Original(AsFile(Sealed(d.U,
                [id \in MCIds |-> IF id = "xmp" THEN "" ELSE "V2"],
                [id \in MCIds |-> CASE id = "page" -> "AesV2"
                                    [] id = "named" -> IF c = "B" THEN "V2" ELSE "None"
                                    [] OTHER -> "None"], c), {}, d), "u", owner)

\* A V5 file of which only the attachment is enciphered, and the one stream that
\* asks for it.
AttachmentsDict ==
  [Dictionary(5, 6, [password |-> "o"], [password |-> "u"],
              [under |-> "o", key |-> [random |-> 99]], [under |-> "u", key |-> [random |-> 99]],
              [name \in {"StdCF"} |-> "AESV3"], TRUE)
     EXCEPT !.StmF = "Identity", !.StrF = "", !.EFF = "StdCF"]
Attachments(own) ==
  Original(AsFile(Sealed([random |-> 99], All(""),
             [id \in MCIds |-> IF id = "file" \/ (id = "named" /\ own # "") THEN "AesV3" ELSE "None"], own),
             {}, AttachmentsDict), "u", "o")

\* V2, whole and with its strings in an object stream; and a dictionary that is
\* in one itself, or of another handler.
OldDict ==
  LET d == Dictionary(2, 3, [owner |-> "o", user |-> ""], {}, NoWrap, NoWrap, NoCF, TRUE)
  IN  [d EXCEPT !.U = LegacyKey("", d, 0)]
OldFile(d) ==
  LET f == AsFile(Sealed(d.U, [id \in MCIds |-> "V2"], All("V2"), ""), {}, d)
  IN  f
Old == Original(OldFile(OldDict), "", "o")
Packed ==
  LET whole == OldFile(OldDict)
      inner == [whole.objs[2] EXCEPT !.text = Plain(1)]
      key == object_key(OldDict.U, 9, "V2")
  IN  Original([whole EXCEPT
         !.objs = [n \in DOMAIN whole.objs \cup {9} |->
                     CASE n = 2 -> inner
                       [] n = 9 -> Object("", "objstm", Empty, Push(Plain(1), key))
                       [] OTHER -> whole.objs[n]],
         !.home = [n \in DOMAIN whole.objs \cup {9} |-> IF n = 2 THEN 9 ELSE 0]], "", "o")
Unreadable ==
  {Original([Packed.file EXCEPT !.home[8] = 9], "", "o"),
   Original([OldFile(OldDict) EXCEPT !.dict.Filter = "other"], "", "o")}

MCOriginals ==
  Clear \cup Unreadable
  \cup {Mixed("Identity", "o"), Mixed("B", "o"), Mixed("N", "start"),
        Attachments(""), Attachments("StdCF"), Old, Packed}
=============================================================================
