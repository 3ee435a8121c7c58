----------------------------- MODULE Encryption -----------------------------
(***************************************************************************)
(* The standard security handler: how a document is enciphered on writing  *)
(* (crates/engine/src/crypto.rs, writer.rs, structural.rs) and deciphered  *)
(* on reading (reader.rs), over files that are enciphered, opened with one *)
(* password or another, rewritten, edited and enciphered again.            *)
(*                                                                         *)
(* Ciphers are terms.  A cell is a string or the bytes of a stream: a      *)
(* content, 0 for an empty one, and the keys it is under, outermost last.  *)
(* A key of an object is made of the file key, the object's number and the *)
(* cipher; a file key of what it is derived from, or a random number.      *)
(* Every object has generation 0.                                          *)
(***************************************************************************)
EXTENDS Integers, Sequences, FiniteSets, SequencesExt, FiniteSetsExt

CONSTANTS
  Ids,         \* the objects of the document, whatever their numbers
  WithText, WithBytes,  \* those that hold a string, those that are streams
  Passwords,
  Padded,      \* pad_password: what a legacy handler sees of a password
  Truncated,   \* truncate_v5_password
  Params,      \* the EncryptParams in use
  Originals,   \* files to start from, each with the passwords it was made for
  PackCap,     \* OBJSTM_MAX_OBJECTS, 200 in the code
  MaxCalls,    \* bound on the files written
  MaxVersion   \* bound on the contents of an object

Absent == ""      \* a name that is not there
NoPassword == ""

\* No object of the document goes by the name of those a writer adds, and what
\* is enciphered has its metadata enciphered, as the command line always asks.
ASSUME EncryptionAssumption ==
  /\ Ids # {} /\ Absent \notin Ids
  /\ NoPassword \in Passwords
  /\ Padded \in [Passwords -> Passwords] /\ Truncated \in [Passwords -> Passwords]
  /\ \A p \in Passwords : Padded[Padded[p]] = Padded[p]
  /\ \A p \in Params :
       /\ p.user_password \in Passwords /\ p.owner_password \in Passwords
       /\ p.algorithm \in {"Rc4_128", "Aes128", "Aes256"} /\ p.encrypt_metadata \in BOOLEAN /\ p.encrypt_metadata
  /\ PackCap \in Nat \ {0} /\ MaxCalls \in Nat /\ MaxVersion \in Nat \ {0}

VARIABLES
  file,     \* the bytes of the document
  session,  \* the reader that is open on them
  truth,    \* history: what the document says, by object
  holders,  \* history: the passwords the file was made for
  blind,    \* history: a save was made without the attachments' password
  calls     \* files written so far; also the source of fresh random values
vars == <<file, session, truth, holders, blind, calls>>

-----------------------------------------------------------------------------
\* Cells and ciphers
Plain(v) == [of |-> v, under |-> <<>>]
Empty == Plain(0)
Garbled == Plain(-1)
Under(c, key) == c.under # <<>> /\ Last(c.under) = key
Push(c, key) == [c EXCEPT !.under = Append(@, key)]
Pop(c) == [c EXCEPT !.under = Front(@)]

\* object_key; AES-256 uses the file key as it is.
object_key(file_key, num, method) ==
  [file |-> file_key, num |-> IF method = "AesV3" THEN 0 ELSE num, cipher |-> method]

\* RC4 is its own inverse.
Rc4(c, key) == IF Under(c, key) THEN Pop(c) ELSE Push(c, key)

encrypt_bytes(c, key) ==
  IF c = Empty THEN c ELSE IF key.cipher = "V2" THEN Rc4(c, key) ELSE Push(c, key)

\* decrypt_bytes_by_method.  AES over what is not its own ciphertext gives
\* noise, or the input back when its padding is refused: neither is relied on.
Deciphered(c, key) ==
  IF key.cipher = "None" \/ c = Empty THEN c
  ELSE IF key.cipher = "V2" THEN Rc4(c, key)
  ELSE IF Under(c, key) THEN Pop(c) ELSE Garbled

-----------------------------------------------------------------------------
\* The /Encrypt dictionary, as written: a name may be Absent.
method_of(cfm) ==
  CASE cfm = "AESV2" -> "AesV2" [] cfm = "AESV3" -> "AesV3"
    [] cfm \in {Absent, "Identity"} -> "None" [] OTHER -> "V2"

resolve_named_crypt_method(d, name, unknown) ==
  IF name = "Identity" THEN "None"
  ELSE IF name \in DOMAIN d.CF THEN method_of(d.CF[name])
  ELSE IF name \in {"AESV2", "AESV3"} THEN method_of(name)
  ELSE unknown

Named(name, default) == IF name = Absent THEN default ELSE name

\* EncryptionInfo::from_dict: the methods of streams, strings and attachments.
Methods(d) ==
  LET stm == Named(d.StmF, IF d.V = 5 THEN "StdCF" ELSE "Identity")
      Of(name) == resolve_named_crypt_method(d, name, IF d.V = 5 THEN "AesV3" ELSE "V2")
  IN  IF d.V < 4 THEN [stream |-> "V2", string |-> "V2", embedded |-> "V2"]
      ELSE [stream |-> Of(stm), string |-> Of(Named(d.StrF, stm)), embedded |-> Of(Named(d.EFF, stm))]

Supported(d) == d.Filter = "Standard" /\ d.V \in 1 .. 5 /\ (d.V = 5 => d.R \in {5, 6})
CryptFilters(d) == [name \in DOMAIN d.CF |-> method_of(d.CF[name])]

-----------------------------------------------------------------------------
\* Keys and passwords.  A verifier is what it is computed from.

\* compute_encryption_key
LegacyKey(password, d, file_id) ==
  [password |-> Padded[password], owner |-> d.O, id |-> file_id,
   plainMetadata |-> d.R >= 4 /\ ~d.EncryptMetadata]

verify_user_password(password, d, file_id) == d.U = LegacyKey(password, d, file_id)

\* recover_user_password_from_owner: noise, as a set without a password, when
\* it is not the owner's.
recovered(password, d) == IF d.O.owner = Padded[password] THEN {d.O.user} ELSE {}

\* setup_encryption: the keys that the given or else the empty password opens.
LegacyKeys(password, f) ==
  LET owned == IF password = NoPassword THEN {} ELSE recovered(password, f.dict)
  IN  {LegacyKey(p, f.dict, f.id) :
         p \in {q \in {password, NoPassword} \cup owned : verify_user_password(q, f.dict, f.id)}}

\* setup_encryption_v5: as a user, as an owner, and both again with no password.
V5Keys(password, f) ==
  LET tried == {Truncated[p] : p \in {password, NoPassword}}
  IN  {f.dict.UE.key : p \in {q \in tried : f.dict.U.password = q /\ f.dict.UE.under = q}} \cup
      {f.dict.OE.key : p \in {q \in tried : f.dict.O.password = q /\ f.dict.OE.under = q}}

NoContext == [encrypted |-> FALSE]
Context(file_key, d) ==
  [encrypted |-> TRUE, file_key |-> file_key, methods |-> Methods(d),
   crypt_filters |-> CryptFilters(d), encrypt_metadata |-> d.EncryptMetadata]

Closed == [state |-> "closed", password |-> NoPassword, ctx |-> NoContext]
Refused(password) == [Closed EXCEPT !.state = "refused", !.password = password]
Opened(password, ctx) == [state |-> "open", password |-> password, ctx |-> ctx]

\* Faulty variant: an empty user password is not tried.
opened_given_only(f, password) ==
  LET keys == IF f.dict.V = 5 THEN V5Keys(password, f)
              ELSE {LegacyKey(p, f.dict, f.id) :
                      p \in {q \in {password} : verify_user_password(q, f.dict, f.id)}}
  IN  IF f.encrypt = 0 THEN Opened(password, NoContext)
      ELSE IF keys # {} THEN Opened(password, Context(CHOOSE k \in keys : TRUE, f.dict))
      ELSE Refused(password)

\* from_bytes_with_password.  The dictionary is read as it stands in the file,
\* and only outside an object stream.  Without a key a document still opens
\* when its strings and ordinary streams are in clear.
opened(f, password) ==
  LET keys == IF f.dict.V = 5 THEN V5Keys(password, f) ELSE LegacyKeys(password, f)
      m == Methods(f.dict)
  IN  IF f.encrypt = 0 THEN Opened(password, NoContext)
      ELSE IF f.home[f.encrypt] # 0 \/ ~Supported(f.dict) THEN Refused(password)
      ELSE IF keys # {} THEN Opened(password, Context(CHOOSE k \in keys : TRUE, f.dict))
      ELSE IF m.stream = "None" /\ m.string = "None" THEN Opened(password, NoContext)
      ELSE Refused(password)

-----------------------------------------------------------------------------
\* Reading objects.  An object has one string and, if it is a stream, bytes;
\* `crypt' is the filter an explicit /Crypt names.
Streams == {"stream", "metadata", "embedded", "objstm", "xref"}

stream_crypt_method(o, ctx) ==
  LET ordinary == IF o.kind = "embedded" THEN ctx.methods.embedded ELSE ctx.methods.stream
  IN  CASE o.crypt = Absent -> ordinary
        [] o.crypt = "Identity" -> "None"
        [] OTHER -> IF o.crypt \in DOMAIN ctx.crypt_filters THEN ctx.crypt_filters[o.crypt]
                    ELSE ordinary

decrypt_object(o, num, ctx) ==
  LET Key(method) == object_key(ctx.file_key, num, method)
  IN  IF \/ ~ctx.encrypted \/ o.kind = "xref"
         \/ o.kind = "metadata" /\ ~ctx.encrypt_metadata
      THEN o
      ELSE [o EXCEPT !.text = Deciphered(@, Key(ctx.methods.string)),
                     !.bytes = Deciphered(@, Key(stream_crypt_method(o, ctx)))]

\* get_object: a packed object is as it stands in its stream, which must be
\* readable itself.
get_object(f, ctx, num) ==
  IF f.home[num] = 0 THEN decrypt_object(f.objs[num], num, ctx) ELSE f.objs[num]
Readable(f, ctx, num) ==
  f.home[num] # 0 => decrypt_object(f.objs[f.home[num]], f.home[num], ctx).bytes = Plain(1)

\* decode_stream on a /Crypt filter
Decodes(o, ctx) == o.crypt \notin {Absent, "Identity"} => ctx.encrypted

-----------------------------------------------------------------------------
\* Writing

\* rewrite_document_objects: every readable object but the old cross-reference
\* streams, under numbers without gaps before any is left out.
rewrite_document_objects(f, ctx) ==
  LET remap == [n \in DOMAIN f.objs |-> Cardinality({k \in DOMAIN f.objs : k <= n})]
      kept == {n \in DOMAIN f.objs : Readable(f, ctx, n) /\ f.objs[n].kind # "xref"}
  IN  [m \in {remap[n] : n \in kept} |->
         get_object(f, ctx, CHOOSE n \in kept : remap[n] = m)]

\* build_encryption, the dictionary as encryption_info_to_dict writes it.
StdCF(cfm) == [name \in {"StdCF"} |-> cfm]
Dictionary(v, r, o, u, oe, ue, cf, meta) ==
  [Filter |-> "Standard", V |-> v, R |-> r, O |-> o, U |-> u, OE |-> oe, UE |-> ue, CF |-> cf,
   StmF |-> IF v >= 4 THEN "StdCF" ELSE Absent, StrF |-> IF v >= 4 THEN "StdCF" ELSE Absent,
   EFF |-> Absent, EncryptMetadata |-> meta]
NoCF == [name \in {} |-> Absent]
NoDict == [Filter |-> "none", V |-> 0]
NoWrap == [under |-> NoPassword, key |-> [random |-> 0]]

OwnerOf(p) == IF p.owner_password = NoPassword THEN p.user_password ELSE p.owner_password

build_legacy(p, file_id, v, r, cf) ==
  LET o == [owner |-> Padded[OwnerOf(p)], user |-> Padded[p.user_password]]
      d == Dictionary(v, r, o, {}, NoWrap, NoWrap, cf, p.encrypt_metadata)
      key == LegacyKey(p.user_password, d, file_id)
  IN  [file_key |-> key, dict |-> [d EXCEPT !.U = key]]

build_v5(p, nonce) ==
  LET Verifier(w) == [password |-> Truncated[w]]
      Wrapped(w) == [under |-> Truncated[w], key |-> [random |-> nonce]]
  IN  [file_key |-> [random |-> nonce],
       dict |-> Dictionary(5, 6, Verifier(OwnerOf(p)), Verifier(p.user_password),
                           Wrapped(OwnerOf(p)), Wrapped(p.user_password),
                           StdCF("AESV3"), p.encrypt_metadata)]

build_encryption(p, nonce) ==
  CASE p.algorithm = "Rc4_128" -> build_legacy(p, nonce, 2, 3, NoCF)
    [] p.algorithm = "Aes128"  -> build_legacy(p, nonce, 4, 4, StdCF("AESV2"))
    [] p.algorithm = "Aes256"  -> build_v5(p, nonce)

NoState == [file_key |-> [random |-> 0], dict |-> NoDict]
Encrypting(state) == state.dict # NoDict
\* is_v5 and is_aes
CipherOf(state) == IF state.dict.V = 5 THEN "AesV3" ELSE IF state.dict.V = 4 THEN "AesV2" ELSE "V2"

encrypt_object_in_place(o, num, state) ==
  LET key == object_key(state.file_key, num, CipherOf(state))
  IN  IF ~Encrypting(state) THEN o
      ELSE [o EXCEPT !.text = encrypt_bytes(@, key), !.bytes = encrypt_bytes(@, key)]

Object(id, kind, text, bytes) ==
  [id |-> id, kind |-> kind, crypt |-> Absent, text |-> text, bytes |-> bytes]

\* objects_with_encrypt_dict: the dictionary is one more object.
WithDictionary(objects, state) ==
  IF Encrypting(state)
  THEN [n \in DOMAIN objects \cup {Max(DOMAIN objects) + 1} |->
          IF n \in DOMAIN objects THEN objects[n] ELSE Object(Absent, "dict", Plain(1), Empty)]
  ELSE objects

\* write_modern: the objects that go into object streams, PackCap to a stream,
\* and the numbers those get, next_free upwards.
Packable(all, dict_num, mode) ==
  IF mode # "packed" THEN {} ELSE {n \in DOMAIN all : all[n].kind \notin Streams /\ n # dict_num}
ContainerOf(n, packed, max) == max + 1 + (Cardinality({k \in packed : k < n}) \div PackCap)

\* Faulty variant: packed objects are enciphered like all others.
body_all(o, n, dict_num, packed, state) ==
  IF n = dict_num THEN o ELSE encrypt_object_in_place(o, n, state)
\* The dictionary is never enciphered, a packed object only with its stream.
body(o, n, dict_num, packed, state) ==
  IF n = dict_num \/ n \in packed THEN o ELSE encrypt_object_in_place(o, n, state)

\* Faulty variant: an object stream is only compressed.
container_clear(num, state) == Object(Absent, "objstm", Empty, Plain(1))
container(num, state) == encrypt_object_in_place(Object(Absent, "objstm", Empty, Plain(1)), num, state)

\* PdfWriter::write in its three modes: an xref stream comes last, in clear.
write(objects, state, mode, file_id) ==
  LET all == WithDictionary(objects, state)
      max == Max(DOMAIN all)
      dict_num == IF Encrypting(state) THEN max ELSE 0
      packed == Packable(all, dict_num, mode)
      containers == {ContainerOf(n, packed, max) : n \in packed}
      xref == IF mode = "classic" THEN {} ELSE {Max(DOMAIN all \cup containers) + 1}
      numbers == DOMAIN all \cup containers \cup xref
  IN  [objs |-> [n \in numbers |->
          CASE n \in DOMAIN all -> body(all[n], n, dict_num, packed, state)
            [] n \in containers -> container(n, state)
            [] n \in xref       -> Object(Absent, "xref", Empty, Plain(1))],
       home |-> [n \in numbers |-> IF n \in packed THEN ContainerOf(n, packed, max) ELSE 0],
       encrypt |-> dict_num, dict |-> state.dict, id |-> file_id, maker |-> "oxide"]

-----------------------------------------------------------------------------
\* What the document says: the cells of an object at its present version.
Says(id, version) ==
  [text |-> IF id \in WithText THEN Plain(version) ELSE Empty,
   bytes |-> IF id \in WithBytes THEN Plain(version) ELSE Empty]
NumberOf(f, id) == CHOOSE n \in DOMAIN f.objs : f.objs[n].id = id

\* A reader with this context gets that from the file.
Holds(f, ctx, id, version) ==
  LET num == NumberOf(f, id)
      o == get_object(f, ctx, num)
  IN  /\ Readable(f, ctx, num) /\ Decodes(o, ctx)
      /\ Says(id, version) = [text |-> o.text, bytes |-> o.bytes]

-----------------------------------------------------------------------------
\* What a file is: the keys used before the n-th nonce was drawn, the cells
\* they can make, and objects with numbers up to a highest one, every object of
\* the document among them once and no number in a stream that is not there.
FileKeys(n) ==
  [password : Passwords, owner : [owner : Passwords, user : Passwords], id : 0 .. n,
   plainMetadata : BOOLEAN] \cup [random : Nat]
Keys(n) == [file : FileKeys(n), num : Nat, cipher : {"V2", "AesV2", "AesV3"}]
Cells(n) == [of : Int, under : Seq(Keys(n))]

ObjectOK(o, n) ==
  /\ DOMAIN o = {"id", "kind", "crypt", "text", "bytes"}
  /\ o.text \in Cells(n) /\ o.bytes \in Cells(n)
  /\ o.crypt # Absent => o.kind \in Streams

FileOK(f, n) ==
  /\ DOMAIN f = {"objs", "home", "encrypt", "dict", "id", "maker"} /\ f.id \in 0 .. n
  /\ DOMAIN f.objs \subseteq Nat \ {0} /\ DOMAIN f.home = DOMAIN f.objs
  /\ \E top \in DOMAIN f.objs : \A k \in DOMAIN f.objs : k <= top
  /\ \A k \in DOMAIN f.objs : ObjectOK(f.objs[k], n)
  /\ \A k \in DOMAIN f.objs : f.home[k] # 0 =>
       /\ f.home[k] \in DOMAIN f.objs /\ f.objs[k].kind \notin Streams
       /\ f.objs[f.home[k]].kind = "objstm" /\ f.objs[f.home[k]].crypt = Absent
  /\ \A id \in Ids : \E k \in DOMAIN f.objs :
       /\ f.objs[k].id = id /\ f.objs[k].kind \notin {"xref", "objstm"}
       /\ \A j \in DOMAIN f.objs : f.objs[j].id = id => j = k
  /\ f.encrypt \in {0} \cup DOMAIN f.objs

\* The reader can make something of the file's encryption.
Understood(f) == f.encrypt = 0 \/ (f.home[f.encrypt] = 0 /\ Supported(f.dict))

\* The dictionary was made from these two passwords; its key, and the context
\* of who has it.
MadeFor(f, h) ==
  LET d == f.dict
  IN  IF d.V = 5
      THEN /\ d.U.password = Truncated[h.user] /\ d.UE.under = Truncated[h.user]
           /\ d.O.password = Truncated[h.owner] /\ d.OE.under = Truncated[h.owner]
           /\ d.UE.key \in [random : Nat] /\ d.OE.key = d.UE.key
      ELSE /\ d.O = [owner |-> Padded[h.owner], user |-> Padded[h.user]]
           /\ d.U = LegacyKey(h.user, d, f.id)
           /\ d.R \in Nat /\ d.EncryptMetadata \in BOOLEAN
FileKey(d) == IF d.V = 5 THEN d.UE.key ELSE d.U
Rightful(f) == IF f.encrypt = 0 THEN NoContext ELSE Context(FileKey(f.dict), f.dict)

\* Files to start from come from other programs, and say their first version.
ASSUME OriginalsAssumption ==
  \A original \in Originals :
    LET f == original.file
    IN  /\ original.holders \in [user : Passwords, owner : Passwords]
        /\ FileOK(f, 0) /\ f.maker # "oxide"
        /\ Understood(f) =>
             /\ f.encrypt # 0 => MadeFor(f, original.holders)
             /\ \A id \in Ids : Holds(f, Rightful(f), id, 1)

-----------------------------------------------------------------------------
\* The system
Init ==
  /\ \E original \in Originals : file = original.file /\ holders = original.holders
  /\ session = Closed
  /\ truth = [id \in Ids |-> 1]
  /\ blind = FALSE
  /\ calls = 0

\* from_bytes_with_password, and letting go of the reader again.
Open(password) ==
  /\ session = Closed
  /\ session' = opened(file, password)
  /\ UNCHANGED <<file, truth, holders, blind, calls>>
Close ==
  /\ session # Closed
  /\ session' = Closed
  /\ UNCHANGED <<file, truth, holders, blind, calls>>

\* A reader without a key on a document whose attachments are enciphered.
Locked == file.encrypt # 0 /\ ~session.ctx.encrypted
Saved(f) ==
  /\ session.state = "open" /\ calls < MaxCalls
  /\ file' = f
  /\ session' = Closed
  /\ blind' = (blind \/ Locked)
  /\ calls' = calls + 1

Modes == {"classic", "stream", "packed"}

\* structural::encrypt (classic), and the writer's other modes: a fresh /ID.
Encrypt(p, mode) ==
  LET nonce == calls + 1
  IN  /\ Saved(write(rewrite_document_objects(file, session.ctx), build_encryption(p, nonce), mode, nonce))
      /\ holders' = [user |-> p.user_password, owner |-> OwnerOf(p)]
      /\ UNCHANGED truth

\* rewrite_document_with_mode: repair, rotate, optimize.  The output is clear.
Rewrite(mode) ==
  /\ Saved(write(rewrite_document_objects(file, session.ctx), NoState, mode, file.id))
  /\ holders' = [user |-> NoPassword, owner |-> NoPassword]
  /\ UNCHANGED truth

\* write_incremental_update of one changed object: refused when a key is in
\* use; the trailer's /Encrypt and /ID are carried over.
Update(id) ==
  LET num == NumberOf(file, id)
      now == Says(id, truth[id] + 1)
      new == [file.objs[num] EXCEPT !.text = now.text, !.bytes = now.bytes]
  IN  /\ ~session.ctx.encrypted
      /\ truth[id] < MaxVersion
      /\ Saved([file EXCEPT !.objs[num] = new, !.home[num] = 0])
      /\ truth' = [truth EXCEPT ![id] = @ + 1]
      /\ UNCHANGED holders

Next ==
  \/ \E password \in Passwords : Open(password)
  \/ Close
  \/ \E p \in Params, mode \in Modes : Encrypt(p, mode)
  \/ \E mode \in Modes : Rewrite(mode)
  \/ \E id \in Ids : Update(id)

Spec == Init /\ [][Next]_vars

-----------------------------------------------------------------------------
\* Properties

\* Readers and files have their form; a file has every object of the document
\* once and no number refers to a stream that is not there.
TypeOK ==
  /\ session.state \in {"closed", "open", "refused"} /\ session.password \in Passwords
  /\ truth \in [Ids -> 1 .. MaxVersion]
  /\ holders \in [user : Passwords, owner : Passwords] /\ blind \in BOOLEAN /\ calls \in 0 .. MaxCalls
  /\ DOMAIN file.home = DOMAIN file.objs
  /\ \A n \in DOMAIN file.objs : file.home[n] # 0 => file.objs[file.home[n]].kind = "objstm"
  /\ \A id \in Ids : Cardinality({n \in DOMAIN file.objs : file.objs[n].id = id}) = 1
  /\ file.encrypt \in {0} \cup DOMAIN file.objs

\* Whoever opens a document reads in it what was last written there, string by
\* string and stream by stream, however often it has been enciphered, rewritten
\* under new numbers and packed (structural.rs: the decrypted content is
\* deterministic).  Two things are not promised: an attachment, or a stream with
\* a filter of its own, once the document was opened or saved without a
\* password; and, once it was rewritten, a stream that names a /Crypt filter of
\* the file it came from.
ReadsBack ==
  TypeOK /\ (session.state = "open" => \A id \in Ids :
    LET o == file.objs[NumberOf(file, id)]
    IN  \/ (o.kind = "embedded" \/ o.crypt \notin {Absent, "Identity"}) /\ (Locked \/ blind)
        \/ o.crypt # Absent /\ file.maker = "oxide"
        \/ Holds(file, session.ctx, id, truth[id]))

\* A file opens with the user's password, the owner's, and with none if the
\* user's is empty; with no other one, as far as the handler tells passwords
\* apart, and an old handler tries none as a user's only.  Only a document whose
\* attachments alone are enciphered opens regardless (reader.rs: if no password
\* verifies, EncryptedPdf is returned).
OpensForHolders ==
  LET Seen(p) == IF file.dict.V = 5 THEN Truncated[p] ELSE Padded[p]
      tried == {session.password, NoPassword}
      entitled ==
        \/ \E p \in tried : Seen(p) = Seen(holders.user)
        \/ \E p \in (IF file.dict.V = 5 THEN tried ELSE tried \ {NoPassword}) : Seen(p) = Seen(holders.owner)
  IN  file.encrypt # 0 =>
        /\ session.state = "open" =>
             \/ entitled /\ session.ctx.encrypted
             \/ Locked /\ {Methods(file.dict).stream, Methods(file.dict).string} = {"None"}
        /\ session.state = "refused" =>
             ~entitled \/ file.home[file.encrypt] # 0 \/ ~Supported(file.dict)

\* Whatever happened to a document before, once enciphered its file holds every
\* string and stream under the key of the object it is in, or of the object
\* stream around it, and no later save adds any in clear (writer.rs: all strings
\* and streams except the /Encrypt dict are encrypted on write).
NothingInClear ==
  file.maker = "oxide" /\ file.encrypt # 0 =>
    \A n \in DOMAIN file.objs \ {file.encrypt} :
      LET Sealed(c) == c = Empty \/ (c.under # <<>> /\ Last(c.under).num \in {0, n})
      IN  \/ file.objs[n].kind = "xref"
          \/ file.home[n] # 0
          \/ Sealed(file.objs[n].text) /\ Sealed(file.objs[n].bytes)
=============================================================================
