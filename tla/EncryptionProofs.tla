--------------------------- MODULE EncryptionProofs ---------------------------
(***************************************************************************)
(* Proofs about the security handler, for every document, every choice of  *)
(* passwords, requests and files to start from, any number of saves and    *)
(* any size of object streams.                                             *)
(*                                                                         *)
(* They go bottom up: cells and ciphers; objects and the contexts they are *)
(* read in; the keys a password gives; the numbers rewriting and writing   *)
(* allot; what writing makes of a document; what is built for a request;   *)
(* and that what is written under a key reads back with it.  The invariant *)
(* puts these together in FileInv: of every file, who may read it is who   *)
(* it was made for, all is sealed in one this program enciphered, and the  *)
(* one with the key reads what was last written.  The numbers of a file    *)
(* are a set with a highest member (HasTop), which a bounded set of        *)
(* numbers has because it has a least bound.                               *)
(***************************************************************************)
EXTENDS Encryption, FiniteSetTheorems, WellFoundedInduction, TLAPS

(* Cells and keys of earlier nonces are cells and keys of later ones.       *)
LEMMA CellsGrow ==
    ASSUME NEW n \in Nat
    PROVE  Keys(n) \subseteq Keys(n + 1) /\ Cells(n) \subseteq Cells(n + 1)
<1>1. 0 .. n \subseteq 0 .. n + 1
  OBVIOUS
<1>2. FileKeys(n) \subseteq FileKeys(n + 1)
  BY <1>1 DEF FileKeys
<1>3. Keys(n) \subseteq Keys(n + 1)
  BY <1>2 DEF Keys
<1>4. Seq(Keys(n)) \subseteq Seq(Keys(n + 1))
  BY <1>3
<1> QED
  BY <1>3, <1>4 DEF Cells

(* What is in clear is a cell, whatever keys there are.                     *)
LEMMA PlainCells ==
    ASSUME NEW n, NEW v \in Int
    PROVE  Plain(v) \in Cells(n)
BY DEF Plain, Cells

(* A cell under one more key is a cell.                                     *)
LEMMA PushCell ==
    ASSUME NEW n, NEW c \in Cells(n), NEW key \in Keys(n)
    PROVE  Push(c, key) \in Cells(n)
BY DEF Push, Cells

(* A cell without its outermost key is a cell.                              *)
LEMMA PopCell ==
    ASSUME NEW n, NEW c \in Cells(n), c.under # <<>>
    PROVE  Pop(c) \in Cells(n)
<1> DEFINE K == Keys(n)
           u == c.under
<1>1. u \in Seq(K) /\ c.of \in Int /\ c = [of |-> c.of, under |-> u]
  BY DEF Cells
<1> HIDE DEF K, u
<1>2. SubSeq(u, 1, Len(u) - 1) \in Seq(K)
  BY <1>1
<1>3. Pop(c) = [of |-> c.of, under |-> Front(u)]
  BY <1>1 DEF Pop, u
<1> QED
  BY <1>1, <1>2, <1>3 DEF Front, Cells, K

(* RC4 makes cells of cells, whether it enciphers or deciphers.             *)
LEMMA Rc4Cell ==
    ASSUME NEW n, NEW c \in Cells(n), NEW key \in Keys(n)
    PROVE  Rc4(c, key) \in Cells(n)
<1>1. CASE Under(c, key)
  BY <1>1, PopCell DEF Rc4, Under
<1>2. CASE ~Under(c, key)
  BY <1>2, PushCell DEF Rc4
<1> QED
  BY <1>1, <1>2

(* Deciphering makes cells of cells, noise among them.                      *)
LEMMA DecipheredCell ==
    ASSUME NEW n, NEW c \in Cells(n), NEW key, key.cipher = "None" \/ key \in Keys(n)
    PROVE  Deciphered(c, key) \in Cells(n)
<1>1. CASE key.cipher = "None" \/ c = Empty
  BY <1>1 DEF Deciphered
<1>2. CASE ~(key.cipher = "None" \/ c = Empty) /\ key.cipher = "V2"
  BY <1>2, Rc4Cell DEF Deciphered
<1>3. CASE ~(key.cipher = "None" \/ c = Empty) /\ key.cipher # "V2"
  <2>1. Garbled \in Cells(n)
    BY PlainCells DEF Garbled
  <2>2. CASE Under(c, key)
    BY <1>3, <2>2, PopCell DEF Deciphered, Under
  <2>3. CASE ~Under(c, key)
    BY <1>3, <2>1, <2>3 DEF Deciphered
  <2> QED
    BY <2>2, <2>3
<1> QED
  BY <1>1, <1>2, <1>3

(* Enciphering makes cells of cells.                                        *)
LEMMA EncipheredCell ==
    ASSUME NEW n, NEW c \in Cells(n), NEW key \in Keys(n)
    PROVE  encrypt_bytes(c, key) \in Cells(n)
BY PushCell, Rc4Cell DEF encrypt_bytes

(* What is in clear comes back from under any key.                          *)
LEMMA PlainComesBack ==
    ASSUME NEW n, NEW v \in Int, NEW key \in Keys(n)
    PROVE  Deciphered(encrypt_bytes(Plain(v), key), key) = Plain(v)
<1> DEFINE p == Plain(v)
           e == Push(p, key)
<1>1. CASE p = Empty
  BY <1>1 DEF encrypt_bytes, Deciphered
<1>2. CASE p # Empty
  <2>1. p = [of |-> v, under |-> <<>>]
    BY DEF Plain
  <2>2. e = [of |-> v, under |-> <<key>>] /\ e.under = <<key>>
    BY <2>1 DEF Push
  <2>3. Last(e.under) = key /\ e.under # <<>> /\ Front(e.under) = <<>>
    BY <2>2 DEF Last, Front
  <2>4. Under(e, key) /\ ~Under(p, key)
    BY <2>1, <2>3 DEF Under
  <2>5. e # Empty
    BY <2>2 DEF Empty, Plain
  <2>6. Pop(e) = p
    BY <2>1, <2>2, <2>3 DEF Pop
  <2>7. key.cipher # "None"
    BY DEF Keys
  <2>8. encrypt_bytes(p, key) = e
    BY <1>2, <2>4 DEF encrypt_bytes, Rc4
  <2>9. Deciphered(e, key) = Pop(e)
    BY <2>4, <2>5, <2>7 DEF Deciphered, Rc4
  <2> QED
    BY <2>6, <2>8, <2>9
<1> QED
  BY <1>1, <1>2

(* What is enciphered under a key that no cell is under ends up under it.   *)
LEMMA FreshSeals ==
    ASSUME NEW n, NEW c \in Cells(n), NEW key, key \notin Keys(n),
           c # Empty
    PROVE  encrypt_bytes(c, key).under # <<>> /\ Last(encrypt_bytes(c, key).under) = key
<1> DEFINE K == Keys(n)
           u == c.under
<1>1. u \in Seq(K) /\ c.of \in Int /\ c = [of |-> c.of, under |-> u]
  BY DEF Cells
<1>2. ~Under(c, key)
  <2> SUFFICES ASSUME Under(c, key) PROVE FALSE
    OBVIOUS
  <2>1. u # <<>> /\ u[Len(u)] = key
    BY DEF Under, Last
  <2> HIDE DEF K, u
  <2>2. u[Len(u)] \in K
    BY <1>1, <2>1
  <2> QED
    BY <2>1, <2>2 DEF K
<1>3. encrypt_bytes(c, key) = Push(c, key)
  BY <1>2 DEF encrypt_bytes, Rc4
<1>4. Push(c, key).under = Append(u, key)
  BY <1>1 DEF Push
<1> HIDE DEF K, u
<1>5. Append(u, key) # <<>> /\ Append(u, key)[Len(Append(u, key))] = key
  BY <1>1
<1> QED
  BY <1>3, <1>4, <1>5 DEF Last

-----------------------------------------------------------------------------
(* The methods that objects are deciphered by.                              *)
FourMethods == {"None", "V2", "AesV2", "AesV3"}

(* Every /CFM is one of the four methods, unknown ones too.                 *)
LEMMA MethodRange == \A cfm : method_of(cfm) \in FourMethods
BY DEF method_of, FourMethods

(* A named filter is one of the four methods.                               *)
LEMMA ResolvedRange ==
    ASSUME NEW d, NEW name, NEW unknown \in FourMethods
    PROVE  resolve_named_crypt_method(d, name, unknown) \in FourMethods
<1>1. "None" \in FourMethods
  BY DEF FourMethods
<1> QED
  BY <1>1, MethodRange DEF resolve_named_crypt_method

(* The methods of strings, streams and attachments are among the four.      *)
LEMMA MethodsRange ==
    ASSUME NEW d
    PROVE  /\ Methods(d).stream \in FourMethods
           /\ Methods(d).string \in FourMethods
           /\ Methods(d).embedded \in FourMethods
<1>1. "V2" \in FourMethods /\ "AesV3" \in FourMethods
  BY DEF FourMethods
<1>2. CASE d.V < 4
  BY <1>1, <1>2 DEF Methods
<1>3. CASE ~(d.V < 4)
  BY <1>1, <1>3, ResolvedRange DEF Methods
<1> QED
  BY <1>2, <1>3

(* The filters of a dictionary are among the four methods.                  *)
LEMMA FiltersRange ==
    ASSUME NEW d, NEW name \in DOMAIN CryptFilters(d)
    PROVE  CryptFilters(d)[name] \in FourMethods
BY MethodRange DEF CryptFilters

(* What the context of a reader with a key consists of.                     *)
LEMMA ContextFields ==
    ASSUME NEW fk, NEW d
    PROVE  /\ Context(fk, d).encrypted /\ Context(fk, d).file_key = fk
           /\ Context(fk, d).methods = Methods(d) /\ Context(fk, d).crypt_filters = CryptFilters(d)
           /\ Context(fk, d).encrypt_metadata = d.EncryptMetadata
BY DEF Context

(* A name that is not there is none of the names there are.                 *)
LEMMA AbsentIs ==
    /\ Absent # "Identity" /\ Absent # "StdCF"
    /\ Absent # "AESV2" /\ Absent # "AESV3"
BY Zenon DEF Absent

(* A stream is deciphered by one of the four methods.                       *)
LEMMA StreamMethodRange ==
    ASSUME NEW fk, NEW d, NEW o
    PROVE  stream_crypt_method(o, Context(fk, d)) \in FourMethods
<1> DEFINE c == Context(fk, d)
<1>1. "None" \in FourMethods
  BY DEF FourMethods
<1>2. c.methods = Methods(d) /\ c.crypt_filters = CryptFilters(d)
  BY ContextFields
<1> HIDE DEF c
<1>3. (IF o.kind = "embedded" THEN c.methods.embedded ELSE c.methods.stream) \in FourMethods
  BY <1>2, MethodsRange
<1>4. stream_crypt_method(o, c) \in FourMethods
  <2>1. CASE o.crypt = Absent
    BY <1>3, <2>1, AbsentIs DEF stream_crypt_method
  <2>2. CASE o.crypt = "Identity"
    BY <1>1, <2>2 DEF stream_crypt_method
  <2>3. CASE o.crypt # Absent /\ o.crypt # "Identity" /\ o.crypt \in DOMAIN c.crypt_filters
    BY <1>2, <2>3, FiltersRange DEF stream_crypt_method
  <2>4. CASE o.crypt # Absent /\ o.crypt # "Identity" /\ o.crypt \notin DOMAIN c.crypt_filters
    BY <1>3, <2>4 DEF stream_crypt_method
  <2> QED
    BY <2>1, <2>2, <2>3, <2>4
<1> QED
  BY <1>4 DEF c

(* The contexts that a reader of a file with keys up to the n-th has.       *)
ContextOK(ctx, n) == ctx = NoContext \/ \E fk \in FileKeys(n) : \E d : ctx = Context(fk, d)

(* The key of an object is a key, unless it is not enciphered.              *)
LEMMA ObjectKeys ==
    ASSUME NEW n, NEW fk \in FileKeys(n), NEW num \in Nat, NEW m \in FourMethods
    PROVE  object_key(fk, num, m).cipher = "None" \/ object_key(fk, num, m) \in Keys(n)
BY DEF object_key, Keys, FourMethods

(* Deciphering changes the cells of an object, and nothing else.            *)
LEMMA DecryptedObject ==
    ASSUME NEW n, NEW o, ObjectOK(o, n), NEW num \in Nat, NEW ctx, ContextOK(ctx, n)
    PROVE  LET p == decrypt_object(o, num, ctx)
           IN  ObjectOK(p, n) /\ p.id = o.id /\ p.kind = o.kind /\ p.crypt = o.crypt
<1> DEFINE p == decrypt_object(o, num, ctx)
<1>1. CASE ~ctx.encrypted \/ o.kind = "xref" \/ (o.kind = "metadata" /\ ~ctx.encrypt_metadata)
  BY <1>1 DEF decrypt_object
<1>2. CASE ~(~ctx.encrypted \/ o.kind = "xref" \/ (o.kind = "metadata" /\ ~ctx.encrypt_metadata))
  <2>1. ctx # NoContext
    BY <1>2 DEF NoContext
  <2>2. PICK fk \in FileKeys(n) : \E d : ctx = Context(fk, d)
    BY <2>1 DEF ContextOK
  <2>3. PICK d : ctx = Context(fk, d)
    BY <2>2
  <2>4. ctx.file_key = fk /\ ctx.methods = Methods(d)
    BY <2>3, ContextFields
  <2> DEFINE t == object_key(ctx.file_key, num, ctx.methods.string)
             b == object_key(ctx.file_key, num, stream_crypt_method(o, ctx))
  <2>5. t.cipher = "None" \/ t \in Keys(n)
    BY <2>4, MethodsRange, ObjectKeys
  <2>6. b.cipher = "None" \/ b \in Keys(n)
    BY <2>3, <2>4, StreamMethodRange, ObjectKeys
  <2> DEFINE x == Deciphered(o.text, t)
             y == Deciphered(o.bytes, b)
  <2>7. p = [o EXCEPT !.text = x, !.bytes = y]
    BY <1>2 DEF decrypt_object
  <2> HIDE DEF t, b
  <2>8. x \in Cells(n) /\ y \in Cells(n)
    BY <2>5, <2>6, DecipheredCell DEF ObjectOK
  <2> HIDE DEF x, y, p
  <2>9. /\ DOMAIN p = DOMAIN o /\ p.text = x /\ p.bytes = y
        /\ p.id = o.id /\ p.kind = o.kind /\ p.crypt = o.crypt
    BY <2>7 DEF ObjectOK
  <2> QED
    BY <2>8, <2>9 DEF ObjectOK, p
<1> QED
  BY <1>1, <1>2

(* Reading an object changes its cells, and nothing else.                   *)
LEMMA GotObject ==
    ASSUME NEW n, NEW f, FileOK(f, n), NEW ctx, ContextOK(ctx, n), NEW k \in DOMAIN f.objs
    PROVE  LET p == get_object(f, ctx, k)
               o == f.objs[k]
           IN  ObjectOK(p, n) /\ p.id = o.id /\ p.kind = o.kind /\ p.crypt = o.crypt
<1>1. k \in Nat /\ ObjectOK(f.objs[k], n)
  BY DEF FileOK
<1>2. CASE f.home[k] = 0
  BY <1>1, <1>2, DecryptedObject DEF get_object
<1>3. CASE f.home[k] # 0
  BY <1>1, <1>3 DEF get_object
<1> QED
  BY <1>2, <1>3

-----------------------------------------------------------------------------
(* The keys that a password gives a reader.                                 *)
TheKeys(f, pw) == IF f.dict.V = 5 THEN V5Keys(pw, f) ELSE LegacyKeys(pw, f)

(* The password is one that the handler takes for the user's or owner's.    *)
Entitled(f, h, pw) ==
  LET Seen(p) == IF f.dict.V = 5 THEN Truncated[p] ELSE Padded[p]
      tried == {pw, NoPassword}
  IN  \/ \E p \in tried : Seen(p) = Seen(h.user)
      \/ \E p \in (IF f.dict.V = 5 THEN tried ELSE tried \ {NoPassword}) : Seen(p) = Seen(h.owner)

(* The passwords a file may be made for.                                    *)
Holders == [user : Passwords, owner : Passwords]

(* The keys that a password opens a V5 dictionary with.                     *)
LEMMA KeysV5 ==
    ASSUME NEW f, NEW h \in Holders, MadeFor(f, h), NEW pw \in Passwords, f.dict.V = 5
    PROVE  /\ TheKeys(f, pw) \subseteq {FileKey(f.dict)}
           /\ TheKeys(f, pw) # {} <=> Entitled(f, h, pw)
<1> DEFINE d == f.dict
           tried == {Truncated[p] : p \in {pw, NoPassword}}
<1>1. /\ d.U.password = Truncated[h.user] /\ d.UE.under = Truncated[h.user]
      /\ d.O.password = Truncated[h.owner] /\ d.OE.under = Truncated[h.owner]
      /\ d.OE.key = d.UE.key /\ FileKey(d) = d.UE.key
  BY DEF MadeFor, FileKey
<1>2. TheKeys(f, pw) = {d.UE.key : p \in {q \in tried : d.U.password = q /\ d.UE.under = q}} \cup
                       {d.OE.key : p \in {q \in tried : d.O.password = q /\ d.OE.under = q}}
  BY DEF TheKeys, V5Keys
<1>3. Entitled(f, h, pw) <=> \E p \in {pw, NoPassword} : Truncated[p] \in {Truncated[h.user], Truncated[h.owner]}
  BY DEF Entitled
<1> HIDE DEF d
<1>4. TheKeys(f, pw) \subseteq {FileKey(d)}
  BY <1>1, <1>2
<1>5. ASSUME NEW p \in {pw, NoPassword}, Truncated[p] \in {Truncated[h.user], Truncated[h.owner]}
      PROVE  TheKeys(f, pw) # {}
  <2>1. Truncated[p] \in tried
    OBVIOUS
  <2> HIDE DEF tried
  <2>2. d.UE.key \in TheKeys(f, pw)
    BY <1>1, <1>2, <1>5, <2>1
  <2> QED
    BY <2>2
<1>6. ASSUME NEW k \in TheKeys(f, pw)
      PROVE  \E p \in {pw, NoPassword} : Truncated[p] \in {Truncated[h.user], Truncated[h.owner]}
  <2> HIDE DEF tried
  <2>1. PICK q \in tried : q = Truncated[h.user] \/ q = Truncated[h.owner]
    BY <1>1, <1>2
  <2>2. PICK p \in {pw, NoPassword} : q = Truncated[p]
    BY DEF tried
  <2> QED
    BY <2>1, <2>2
<1> QED
  BY <1>3, <1>4, <1>5, <1>6 DEF d

(* The keys that a password opens an older dictionary with.                 *)
LEMMA KeysLegacy ==
    ASSUME NEW f, NEW h \in Holders, MadeFor(f, h), NEW pw \in Passwords, f.dict.V # 5
    PROVE  /\ TheKeys(f, pw) \subseteq {FileKey(f.dict)}
           /\ TheKeys(f, pw) # {} <=> Entitled(f, h, pw)
<1> DEFINE d == f.dict
           P(p) == Padded[p]
           owned == IF pw = NoPassword THEN {} ELSE recovered(pw, d)
           tried == {pw, NoPassword} \cup owned
<1>1. /\ d.O = [owner |-> P(h.owner), user |-> P(h.user)]
      /\ d.U = LegacyKey(h.user, d, f.id) /\ FileKey(d) = d.U
  BY DEF MadeFor, FileKey
<1>2. TheKeys(f, pw) = {LegacyKey(p, d, f.id) : p \in {q \in tried : d.U = LegacyKey(q, d, f.id)}}
  BY DEF TheKeys, LegacyKeys, verify_user_password
<1>3. Entitled(f, h, pw) <=> \/ P(pw) = P(h.user) \/ P(NoPassword) = P(h.user)
                             \/ pw # NoPassword /\ P(pw) = P(h.owner)
  BY DEF Entitled
<1>4. \A p : d.U = LegacyKey(p, d, f.id) <=> P(p) = P(h.user)
  <2>1. \A p, q : LegacyKey(p, d, f.id) = LegacyKey(q, d, f.id) <=> P(p) = P(q)
    BY DEF LegacyKey
  <2> QED
    BY <1>1, <2>1
<1>5. owned = IF pw # NoPassword /\ P(h.owner) = P(pw) THEN {P(h.user)} ELSE {}
  <2>1. d.O.owner = P(h.owner) /\ d.O.user = P(h.user)
    BY <1>1
  <2>2. recovered(pw, d) = IF P(h.owner) = P(pw) THEN {P(h.user)} ELSE {}
    BY <2>1 DEF recovered
  <2> QED
    BY <2>2
<1>6. P(P(h.user)) = P(h.user)
  BY EncryptionAssumption DEF Holders
<1> HIDE DEF d, P, owned
<1>7. TheKeys(f, pw) \subseteq {FileKey(d)}
  BY <1>1, <1>2
<1>8. TheKeys(f, pw) # {} <=> \E p \in tried : P(p) = P(h.user)
  <2> HIDE DEF tried
  <2> QED
    BY <1>2, <1>4
<1>9. (\E p \in tried : P(p) = P(h.user)) <=> Entitled(f, h, pw)
  BY <1>3, <1>5, <1>6
<1> QED
  BY <1>7, <1>8, <1>9 DEF d

(* A reader gets the key of the file with a password that entitles, and     *)
(* with no other.                                                           *)
LEMMA KeysAre ==
    ASSUME NEW f, NEW h \in Holders, MadeFor(f, h), NEW pw \in Passwords
    PROVE  TheKeys(f, pw) = IF Entitled(f, h, pw) THEN {FileKey(f.dict)} ELSE {}
BY KeysV5, KeysLegacy

(* Readers without a key on a document they read the rest of.               *)
Exposed(f) == f.encrypt # 0 /\ Methods(f.dict).stream = "None" /\ Methods(f.dict).string = "None"

(* What opening a file gives: the rightful key for those entitled, none on  *)
(* a document whose attachments alone are enciphered, a refusal for others. *)
LEMMA OpenedIs ==
    ASSUME NEW f, NEW h \in Holders, NEW pw \in Passwords,
           Understood(f) /\ f.encrypt # 0 => MadeFor(f, h)
    PROVE  LET s == opened(f, pw)
           IN  /\ s.state \in {"open", "refused"} /\ s.password = pw
               /\ s.state = "open" => Understood(f)
               /\ s.state = "open" => s.ctx = Rightful(f) \/ (Exposed(f) /\ s.ctx = NoContext)
               /\ s.state = "open" /\ f.encrypt # 0 =>
                    \/ Entitled(f, h, pw) /\ s.ctx.encrypted
                    \/ Exposed(f) /\ ~s.ctx.encrypted
               /\ s.state = "refused" => f.encrypt # 0 /\ (Understood(f) => ~Entitled(f, h, pw))
<1> DEFINE s == opened(f, pw)
           keys == TheKeys(f, pw)
           m == Methods(f.dict)
           o == Opened(pw, NoContext)
           c == Opened(pw, Context(CHOOSE k \in keys : TRUE, f.dict))
           r == Refused(pw)
<1>1. s = IF f.encrypt = 0 THEN o
          ELSE IF f.home[f.encrypt] # 0 \/ ~Supported(f.dict) THEN r
          ELSE IF keys # {} THEN c
          ELSE IF m.stream = "None" /\ m.string = "None" THEN o ELSE r
  BY DEF opened, TheKeys
<1>2. /\ o.state = "open" /\ o.password = pw /\ o.ctx = NoContext
      /\ c.state = "open" /\ c.password = pw /\ c.ctx = Context(CHOOSE k \in keys : TRUE, f.dict)
      /\ r.state = "refused" /\ r.password = pw
  BY DEF Opened, Refused, Closed
<1>3. ~NoContext.encrypted /\ (\A k, d : Context(k, d).encrypted)
  BY ContextFields DEF NoContext
<1> HIDE DEF s, o, c, r, keys
<1>4. CASE f.encrypt = 0
  BY <1>1, <1>2, <1>4 DEF Rightful, Understood, s
<1>5. CASE f.encrypt # 0 /\ (f.home[f.encrypt] # 0 \/ ~Supported(f.dict))
  BY <1>1, <1>2, <1>5 DEF Understood, s
<1>6. CASE f.encrypt # 0 /\ ~(f.home[f.encrypt] # 0 \/ ~Supported(f.dict))
  <2>1. Understood(f)
    BY <1>6 DEF Understood
  <2>2. keys = IF Entitled(f, h, pw) THEN {FileKey(f.dict)} ELSE {}
    BY <1>6, <2>1, KeysAre DEF keys
  <2>3. CASE Entitled(f, h, pw)
    <3>1. keys # {} /\ (CHOOSE k \in keys : TRUE) = FileKey(f.dict)
      BY <2>2, <2>3
    <3>2. s = c /\ c.ctx = Rightful(f)
      BY <1>1, <1>2, <1>6, <3>1 DEF Rightful
    <3> QED
      BY <1>2, <1>3, <2>1, <2>3, <3>2 DEF s
  <2>4. CASE ~Entitled(f, h, pw)
    <3>1. s = IF Exposed(f) THEN o ELSE r
      BY <1>1, <1>6, <2>2, <2>4 DEF Exposed
    <3> QED
      BY <1>2, <1>3, <1>6, <2>1, <2>4, <3>1 DEF s
  <2> QED
    BY <2>3, <2>4
<1> QED
  BY <1>4, <1>5, <1>6

(* The key of a file is one drawn before, and so is its rightful reader's.  *)
LEMMA RightfulOK ==
    ASSUME NEW n, NEW f, FileOK(f, n), NEW h \in Holders, f.encrypt # 0 => MadeFor(f, h)
    PROVE  ContextOK(Rightful(f), n) /\ ContextOK(NoContext, n)
<1>1. CASE f.encrypt = 0
  BY <1>1 DEF Rightful, ContextOK
<1>2. CASE f.encrypt # 0
  <2> DEFINE d == f.dict
  <2>1. MadeFor(f, h)
    BY <1>2
  <2>2. CASE d.V = 5
    BY <1>2, <2>1, <2>2 DEF Rightful, ContextOK, MadeFor, FileKey, FileKeys
  <2>3. CASE d.V # 5
    <3>1. /\ d.O = [owner |-> Padded[h.owner], user |-> Padded[h.user]]
          /\ d.U = LegacyKey(h.user, d, f.id) /\ d.R \in Nat /\ d.EncryptMetadata \in BOOLEAN
      BY <2>1, <2>3 DEF MadeFor
    <3>2. Padded[h.owner] \in Passwords /\ Padded[h.user] \in Passwords
      BY EncryptionAssumption DEF Holders
    <3>3. (d.R >= 4 /\ ~d.EncryptMetadata) \in BOOLEAN
      BY <3>1
    <3>4. f.id \in 0 .. n
      BY DEF FileOK
    <3>5. d.O \in [owner : Passwords, user : Passwords]
      BY <3>1, <3>2
    <3>6. LegacyKey(h.user, d, f.id) \in FileKeys(n)
      BY <3>2, <3>3, <3>4, <3>5 DEF LegacyKey, FileKeys
    <3> QED
      BY <1>2, <2>3, <3>1, <3>6 DEF Rightful, ContextOK, FileKey
  <2> QED
    BY <2>2, <2>3
<1> QED
  BY <1>1, <1>2

-----------------------------------------------------------------------------
(* Numbers of objects, the highest among them.                              *)
HasTop(S) == S \subseteq Nat \ {0} /\ \E top \in S : \A k \in S : k <= top

(* The highest number there is.                                             *)
LEMMA MaxIs ==
    ASSUME NEW S, HasTop(S)
    PROVE  Max(S) \in S /\ Max(S) \in Nat \ {0} /\ \A k \in S : k <= Max(S)
<1>1. \E top \in S : \A k \in S : top >= k
  BY DEF HasTop
<1>2. Max(S) \in S /\ \A k \in S : Max(S) >= k
  BY <1>1, Zenon DEF Max
<1>3. S \subseteq Nat \ {0}
  BY DEF HasTop
<1> QED
  BY <1>2, <1>3

(* Bounded numbers have a highest one.                                      *)
LEMMA BoundedHasTop ==
    ASSUME NEW S, S \subseteq Nat \ {0}, S # {}, NEW b \in Nat, \A k \in S : k <= b
    PROVE  HasTop(S)
<1> DEFINE T == {n \in Nat : \A k \in S : k <= n}
           Less == OpToRel(<, Nat)
<1>1. \A m, n \in Nat : m < n => <<m, n>> \in Less
  BY DEF OpToRel
<1>2. IsWellFoundedOn(Less, Nat)
  BY NatLessThanWellFounded
<1> HIDE DEF Less
<1>3. T \subseteq Nat /\ T # {}
  OBVIOUS
<1>4. PICK x \in T : \A y \in T : ~ (<<y, x>> \in Less)
  <2> HIDE DEF T
  <2> QED
    BY <1>2, <1>3, WFMin
<1>5. x \in Nat /\ \A k \in S : k <= x
  OBVIOUS
<1>6. x \in S
  <2> SUFFICES ASSUME x \notin S PROVE FALSE
    OBVIOUS
  <2>1. x # 0
    <3> HIDE DEF T
    <3>1. PICK k \in S : TRUE
      OBVIOUS
    <3>2. k \in Nat /\ k # 0 /\ k <= x
      BY <1>5
    <3> QED
      BY <3>2
  <2>2. x - 1 \in Nat /\ x - 1 < x /\ \A k \in S : k <= x - 1
    <3> HIDE DEF T
    <3>1. \A k \in S : k \in Nat /\ k <= x /\ k # x
      BY <1>5
    <3> QED
      BY <1>5, <2>1, <3>1
  <2>3. x - 1 \in T
    BY <2>2
  <2> QED
    BY <1>1, <1>4, <1>5, <2>2, <2>3
<1> QED
  BY <1>5, <1>6 DEF HasTop

(* The numbers that a rewriter gives: one for each, none twice.             *)
Numbering(D, n) == Cardinality({k \in D : k <= n})

(* No two objects get the same number, and none a higher one than there     *)
(* are objects.                                                             *)
LEMMA NumbersDiffer ==
    ASSUME NEW D, HasTop(D)
    PROVE  /\ Cardinality(D) \in Nat
           /\ \A n \in D : Numbering(D, n) \in Nat \ {0} /\ Numbering(D, n) <= Cardinality(D)
           /\ \A m, n \in D : Numbering(D, m) = Numbering(D, n) => m = n
<1> DEFINE Up(n) == {k \in D : k <= n}
<1>1. D \subseteq Nat /\ IsFiniteSet(D) /\ Cardinality(D) \in Nat
  <2>1. PICK top \in D : \A k \in D : k <= top
    BY DEF HasTop
  <2>2. D \in SUBSET Nat /\ top \in Nat
    BY DEF HasTop
  <2>3. IsFiniteSet(D)
    BY <2>1, <2>2, FS_BoundedSetOfNaturals
  <2> QED
    BY <2>2, <2>3, FS_CardinalityType
<1>2. ASSUME NEW n \in D
      PROVE  /\ IsFiniteSet(Up(n)) /\ Cardinality(Up(n)) \in Nat \ {0}
             /\ Cardinality(Up(n)) <= Cardinality(D)
  <2>1. Up(n) \in SUBSET D /\ n \in Up(n)
    BY <1>1
  <2> HIDE DEF Up
  <2>2. IsFiniteSet(Up(n)) /\ Cardinality(Up(n)) <= Cardinality(D)
    BY <1>1, <2>1, FS_Subset
  <2>3. Cardinality(Up(n)) \in Nat
    BY <2>2, FS_CardinalityType
  <2>4. Cardinality(Up(n)) # 0
    BY <2>1, <2>2, FS_EmptySet
  <2> QED
    BY <2>2, <2>3, <2>4
<1>3. ASSUME NEW m \in D, NEW n \in D, m < n
      PROVE  Cardinality(Up(m)) # Cardinality(Up(n))
  <2>1. Up(m) \in SUBSET Up(n) /\ n \in Up(n) /\ n \notin Up(m)
    <3>1. m \in Nat /\ n \in Nat /\ \A k \in D : k \in Nat
      BY <1>1
    <3>2. \A k \in D : k <= m => k <= n
      BY <1>3, <3>1
    <3>3. n <= n /\ ~(n <= m)
      BY <1>3, <3>1
    <3> QED
      BY <3>2, <3>3
  <2> HIDE DEF Up
  <2>2. IsFiniteSet(Up(n))
    BY <1>2
  <2>3. Cardinality(Up(n)) = Cardinality(Up(m)) => Up(n) = Up(m)
    BY <2>1, <2>2, FS_Subset
  <2> QED
    BY <2>1, <2>3
<1>4. \A n : Numbering(D, n) = Cardinality(Up(n))
  BY DEF Numbering
<1> HIDE DEF Up
<1>5. \A m, n \in D : Numbering(D, m) = Numbering(D, n) => m = n
  <2> TAKE m, n \in D
  <2>1. m < n \/ n < m \/ m = n
    BY <1>1
  <2> QED
    BY <1>3, <1>4, <2>1
<1> QED
  BY <1>1, <1>2, <1>4, <1>5

(* What rewrite_document_objects keeps, under its new numbers.              *)
Kept(f, ctx) == {n \in DOMAIN f.objs : Readable(f, ctx, n) /\ f.objs[n].kind # "xref"}
(* What the rewritten objects are: those kept, each once.                   *)
IsRewritten(objects, f, ctx, kept) ==
  /\ \A m \in DOMAIN objects : \E n \in kept : objects[m] = get_object(f, ctx, n)
  /\ \A n \in kept : \E m \in DOMAIN objects :
       /\ objects[m] = get_object(f, ctx, n)
       /\ \A j \in DOMAIN objects : objects[j].id = f.objs[n].id /\
             (\A k \in kept : f.objs[k].id = f.objs[n].id => k = n) => j = m

(* A rewritten document has the objects kept, each once, and no others.     *)
LEMMA RewrittenIs ==
    ASSUME NEW n0 \in Nat, NEW f, FileOK(f, n0), NEW ctx, ContextOK(ctx, n0), Kept(f, ctx) # {}
    PROVE  LET objects == rewrite_document_objects(f, ctx)
           IN  HasTop(DOMAIN objects) /\ IsRewritten(objects, f, ctx, Kept(f, ctx))
<1> DEFINE D == DOMAIN f.objs
           kept == Kept(f, ctx)
           N(n) == Numbering(D, n)
           objects == rewrite_document_objects(f, ctx)
           got(n) == get_object(f, ctx, n)
<1>1. HasTop(D)
  BY DEF FileOK, HasTop
<1>2. kept \subseteq D /\ kept # {}
  BY DEF Kept
<1>3. /\ DOMAIN objects = {N(n) : n \in kept}
      /\ \A n \in kept : (\A k \in kept : N(k) = N(n) => k = n) => objects[N(n)] = got(n)
  <2> DEFINE remap == [n \in D |-> N(n)]
             old(m) == CHOOSE n \in kept : remap[n] = m
  <2>1. objects = [m \in {remap[n] : n \in kept} |-> got(old(m))]
    BY DEF rewrite_document_objects, Numbering, Kept
  <2>2. \A n \in kept : remap[n] = N(n)
    BY <1>2
  <2>3. ASSUME NEW n \in kept, \A k \in kept : N(k) = N(n) => k = n
        PROVE  old(N(n)) = n
    <3> HIDE DEF remap, N, kept
    <3>1. \E k \in kept : remap[k] = N(n)
      BY <2>2
    <3>2. old(N(n)) \in kept /\ remap[old(N(n))] = N(n)
      BY <3>1
    <3> HIDE DEF old
    <3> QED
      BY <2>2, <2>3, <3>2
  <2> HIDE DEF remap, N, objects, kept, got, old
  <2>4. {remap[n] : n \in kept} = {N(n) : n \in kept}
    BY <2>2
  <2> QED
    BY <2>1, <2>3, <2>4
<1>4. \A n \in kept : \A k \in kept : N(k) = N(n) => k = n
  BY <1>1, <1>2, NumbersDiffer
<1>5. \A n \in kept : N(n) \in Nat \ {0} /\ N(n) <= Cardinality(D)
  BY <1>1, <1>2, NumbersDiffer
<1>6. Cardinality(D) \in Nat
  BY <1>1, NumbersDiffer
<1>7. \A n \in kept : f.objs[n].id = got(n).id
  BY <1>2, GotObject
<1> HIDE DEF N, objects, kept, got
<1>8. DOMAIN objects = {N(n) : n \in kept}
  BY <1>3
<1>9. \A n \in kept : objects[N(n)] = got(n)
  BY <1>3, <1>4
<1> HIDE DEF D
<1>10. HasTop(DOMAIN objects)
  <2>1. DOMAIN objects \subseteq Nat \ {0} /\ DOMAIN objects # {} /\ \A m \in DOMAIN objects : m <= Cardinality(D)
    BY <1>2, <1>5, <1>8
  <2> QED
    BY <1>6, <2>1, BoundedHasTop
<1>11. \A m \in DOMAIN objects : \E n \in kept : m = N(n) /\ objects[m] = got(n)
  BY <1>8, <1>9
<1>12. ASSUME NEW n \in kept
       PROVE  \E m \in DOMAIN objects :
                /\ objects[m] = got(n)
                /\ \A j \in DOMAIN objects : objects[j].id = f.objs[n].id /\
                      (\A k \in kept : f.objs[k].id = f.objs[n].id => k = n) => j = m
  <2>1. N(n) \in DOMAIN objects /\ objects[N(n)] = got(n)
    BY <1>8, <1>9
  <2>2. ASSUME NEW j \in DOMAIN objects, objects[j].id = f.objs[n].id,
               \A k \in kept : f.objs[k].id = f.objs[n].id => k = n
        PROVE  j = N(n)
    <3>1. PICK k \in kept : j = N(k) /\ objects[j] = got(k)
      BY <1>11
    <3>2. f.objs[k].id = f.objs[n].id
      BY <1>7, <2>2, <3>1
    <3> QED
      BY <2>2, <3>1, <3>2
  <2> QED
    BY <2>1, <2>2
<1>13. IsRewritten(objects, f, ctx, kept)
  BY <1>11, <1>12 DEF IsRewritten, got
<1> QED
  BY <1>10, <1>13 DEF objects, kept

-----------------------------------------------------------------------------
(* What writing makes of numbered objects.                                  *)
Stored(w, o, n, state) ==
  \/ w.home[n] = 0 /\ w.objs[n] = encrypt_object_in_place(o, n, state)
  \/ /\ o.kind \notin Streams /\ w.objs[n] = o /\ w.home[n] # 0
     /\ w.home[n] \in DOMAIN w.objs /\ w.objs[w.home[n]] = container(w.home[n], state)

(* What writing adds to them: the dictionary, object and xref streams.      *)
AddedObject(w, n, state) ==
  \/ n = w.encrypt /\ w.objs[n] = Object(Absent, "dict", Plain(1), Empty)
  \/ w.objs[n] = container(n, state)
  \/ w.objs[n] = Object(Absent, "xref", Empty, Plain(1))

FileFields == {"objs", "home", "encrypt", "dict", "id", "maker"}
(* What writing gives.                                                      *)
IsWritten(w, objects, state, file_id) ==
  /\ DOMAIN w = FileFields /\ w.maker = "oxide" /\ w.dict = state.dict /\ w.id = file_id
  /\ DOMAIN w.home = DOMAIN w.objs /\ HasTop(DOMAIN w.objs) /\ DOMAIN objects \subseteq DOMAIN w.objs
  /\ IF Encrypting(state) THEN w.encrypt \in DOMAIN w.objs /\ w.home[w.encrypt] = 0 ELSE w.encrypt = 0
  /\ \A n \in DOMAIN objects : Stored(w, objects[n], n, state)
  /\ \A n \in DOMAIN w.objs \ DOMAIN objects : w.home[n] = 0 /\ AddedObject(w, n, state)

(* One more number leaves a highest one.                                    *)
LEMMA TwoTops ==
    ASSUME NEW S, HasTop(S), NEW n \in Nat \ {0}
    PROVE  HasTop(S \cup {n})
<1>1. PICK top \in S : \A k \in S : k <= top
  BY DEF HasTop
<1>2. S \subseteq Nat \ {0} /\ top \in Nat
  BY DEF HasTop
<1> DEFINE b == IF n > top THEN n ELSE top
<1>3. b \in S \cup {n} /\ \A k \in S \cup {n} : k <= b
  BY <1>1, <1>2
<1> QED
  BY <1>2, <1>3 DEF HasTop

(* The numbers of the object streams follow those of the objects.           *)
LEMMA ContainersAre ==
    ASSUME NEW S, HasTop(S), NEW packed \in SUBSET S
    PROVE  LET max == Max(S)
               all == S \cup {ContainerOf(n, packed, max) : n \in packed}
           IN  /\ \A n \in packed : ContainerOf(n, packed, max) \in Nat /\ ContainerOf(n, packed, max) > max
               /\ HasTop(all)
<1> DEFINE max == Max(S)
           Before(n) == Cardinality({k \in packed : k < n})
           C(n) == ContainerOf(n, packed, max)
           all == S \cup {C(n) : n \in packed}
<1>1. max \in S /\ max \in Nat \ {0} /\ \A k \in S : k <= max
  BY MaxIs
<1>2. S \in SUBSET Nat /\ IsFiniteSet(S) /\ Cardinality(S) \in Nat
  <2>1. S \in SUBSET Nat
    BY DEF HasTop
  <2>2. IsFiniteSet(S)
    BY <1>1, <2>1, FS_BoundedSetOfNaturals
  <2> QED
    BY <2>1, <2>2, FS_CardinalityType
<1> HIDE DEF max
<1>3. ASSUME NEW n
      PROVE  Before(n) \in Nat /\ Before(n) <= Cardinality(S)
  <2>1. {k \in packed : k < n} \in SUBSET S
    OBVIOUS
  <2>2. IsFiniteSet({k \in packed : k < n}) /\ Before(n) <= Cardinality(S)
    BY <1>2, <2>1, FS_Subset
  <2> QED
    BY <2>2, FS_CardinalityType
<1> HIDE DEF Before
<1>4. ASSUME NEW n
      PROVE  C(n) \in Nat /\ C(n) > max /\ C(n) <= max + 1 + Cardinality(S)
  <2>1. PackCap \in Nat \ {0}
    BY EncryptionAssumption
  <2> DEFINE x == Before(n)
             q == x \div PackCap
  <2>2. x \in Nat /\ x <= Cardinality(S)
    BY <1>3
  <2> HIDE DEF x
  <2>3. q \in Nat /\ q <= x
    BY <2>1, <2>2, SMTT(30)
  <2>4. C(n) = max + 1 + q
    BY DEF ContainerOf, Before, x
  <2> HIDE DEF q, C
  <2> QED
    BY <1>1, <1>2, <2>2, <2>3, <2>4
<1> HIDE DEF C
<1>5. HasTop(all)
  <2> DEFINE b == max + 1 + Cardinality(S)
  <2>1. b \in Nat /\ max <= b
    BY <1>1, <1>2
  <2>2. \A k \in S : k \in Nat \ {0} /\ k <= b
    <3>1. S \subseteq Nat \ {0}
      BY DEF HasTop
    <3> QED
      BY <1>1, <1>2, <3>1
  <2>3. \A n \in packed : C(n) \in Nat \ {0} /\ C(n) <= b
    BY <1>1, <1>4
  <2>4. all # {}
    BY <1>1
  <2> HIDE DEF b
  <2>5. all \subseteq Nat \ {0} /\ \A k \in all : k <= b
    BY <2>2, <2>3
  <2> HIDE DEF all
  <2> QED
    BY <2>1, <2>4, <2>5, BoundedHasTop
<1> QED
  BY <1>4, <1>5 DEF max, C

(* The dictionary comes after all objects, and changes none.                *)
LEMMA WithDictionaryIs ==
    ASSUME NEW objects, HasTop(DOMAIN objects), NEW state
    PROVE  LET all == WithDictionary(objects, state)
               top == Max(DOMAIN all)
           IN  /\ HasTop(DOMAIN all) /\ DOMAIN objects \subseteq DOMAIN all
               /\ \A n \in DOMAIN objects : all[n] = objects[n]
               /\ IF Encrypting(state)
                  THEN /\ top \notin DOMAIN objects /\ DOMAIN all = DOMAIN objects \cup {top}
                       /\ all[top] = Object(Absent, "dict", Plain(1), Empty)
                  ELSE all = objects
<1> DEFINE D == DOMAIN objects
           all == WithDictionary(objects, state)
           m == Max(D) + 1
<1>1. Max(D) \in D /\ Max(D) \in Nat \ {0} /\ \A k \in D : k <= Max(D)
  BY MaxIs
<1>2. CASE Encrypting(state)
  <2>1. all = [n \in D \cup {m} |-> IF n \in D THEN objects[n] ELSE Object(Absent, "dict", Plain(1), Empty)]
    BY <1>2 DEF WithDictionary
  <2>2. m \in Nat \ {0} /\ m \notin D /\ \A k \in D : k \in Nat /\ k < m
    BY <1>1 DEF HasTop
  <2> HIDE DEF all, m, D
  <2>3. DOMAIN all = D \cup {m} /\ (\A n \in D : all[n] = objects[n]) /\ all[m] = Object(Absent, "dict", Plain(1), Empty)
    BY <2>1, <2>2
  <2>4. HasTop(D \cup {m})
    BY <2>2, TwoTops DEF D
  <2>5. Max(D \cup {m}) = m
    <3> DEFINE x == Max(D \cup {m})
    <3>1. x \in D \cup {m} /\ \A k \in D \cup {m} : k <= x
      BY <2>4, MaxIs
    <3> HIDE DEF x
    <3>2. m <= x
      BY <3>1
    <3>3. x \notin D
      BY <2>2, <3>2
    <3> QED
      BY <3>1, <3>3 DEF x
  <2> QED
    BY <1>2, <2>2, <2>3, <2>4, <2>5 DEF D, all
<1>3. CASE ~Encrypting(state)
  BY <1>3 DEF WithDictionary
<1> QED
  BY <1>2, <1>3

-----------------------------------------------------------------------------
(* Writing stores every object, by itself or in an object stream that is    *)
(* there, and adds only what AddedObject lists.                             *)
LEMMA WriteIs ==
    ASSUME NEW objects, HasTop(DOMAIN objects), NEW state, NEW mode, NEW file_id
    PROVE  IsWritten(write(objects, state, mode, file_id), objects, state, file_id)
<1> DEFINE all == WithDictionary(objects, state)
           D == DOMAIN all
           max == Max(D)
           dict_num == IF Encrypting(state) THEN max ELSE 0
           packed == Packable(all, dict_num, mode)
           C(n) == ContainerOf(n, packed, max)
           containers == {C(n) : n \in packed}
           last == Max(D \cup containers)
           xref == IF mode = "classic" THEN {} ELSE {last + 1}
           numbers == D \cup containers \cup xref
           w == write(objects, state, mode, file_id)
           Content(n) == CASE n \in D -> body(all[n], n, dict_num, packed, state)
                           [] n \in containers -> container(n, state)
                           [] n \in xref       -> Object(Absent, "xref", Empty, Plain(1))
<1>1. w = [objs |-> [n \in numbers |-> Content(n)],
           home |-> [n \in numbers |-> IF n \in packed THEN C(n) ELSE 0],
           encrypt |-> dict_num, dict |-> state.dict, id |-> file_id, maker |-> "oxide"]
  BY DEF write
<1>2. /\ HasTop(D) /\ DOMAIN objects \subseteq D /\ \A n \in DOMAIN objects : all[n] = objects[n]
      /\ IF Encrypting(state)
         THEN max \notin DOMAIN objects /\ D = DOMAIN objects \cup {max} /\ all[max] = Object(Absent, "dict", Plain(1), Empty)
         ELSE D = DOMAIN objects
  BY WithDictionaryIs
<1>3. packed \in SUBSET D /\ \A n \in packed : all[n].kind \notin Streams /\ n # dict_num
  BY DEF Packable
<1>4. max \in D /\ max \in Nat \ {0} /\ (\A k \in D : k <= max) /\ D \subseteq Nat \ {0}
  BY <1>2, MaxIs DEF HasTop
<1> HIDE DEF all, dict_num, packed
<1>5. (\A n \in packed : C(n) \in Nat /\ C(n) > max) /\ HasTop(D \cup containers)
  BY <1>2, <1>3, ContainersAre
<1> HIDE DEF max, C
<1>6. last \in Nat \ {0} /\ (\A k \in D \cup containers : k <= last)
  BY <1>5, MaxIs
<1>7. D \cup containers \subseteq Nat
  BY <1>5 DEF HasTop
<1> HIDE DEF last
<1>8. /\ \A n \in containers : n \notin D
      /\ \A n \in xref : n \notin D /\ n \notin containers
  <2>1. \A n \in containers : n \in Nat /\ n > max
    BY <1>5
  <2>2. \A n \in containers : n \notin D
    BY <1>4, <2>1
  <2>3. last + 1 \notin D \cup containers
    BY <1>6, <1>7
  <2> QED
    BY <2>2, <2>3
<1>9. HasTop(numbers)
  <2>1. CASE mode = "classic"
    BY <1>5, <2>1
  <2>2. CASE mode # "classic"
    <3>1. last + 1 \in Nat \ {0}
      BY <1>6
    <3>2. numbers = D \cup containers \cup {last + 1}
      BY <2>2
    <3> HIDE DEF numbers, containers, D
    <3> QED
      BY <1>5, <3>1, <3>2, TwoTops
  <2> QED
    BY <2>1, <2>2
<1> HIDE DEF w, xref, containers, numbers, D
<1>10. D \subseteq numbers /\ containers \subseteq numbers /\ (numbers \ D) \subseteq containers \cup xref
  BY DEF numbers
<1>11. /\ \A n \in D : Content(n) = body(all[n], n, dict_num, packed, state)
       /\ \A n \in containers : Content(n) = container(n, state)
       /\ \A n \in xref : Content(n) = Object(Absent, "xref", Empty, Plain(1))
  BY <1>8
<1> HIDE DEF Content
<1>12. /\ DOMAIN w = FileFields /\ w.maker = "oxide" /\ w.dict = state.dict /\ w.id = file_id
       /\ w.encrypt = dict_num
       /\ DOMAIN w.home = numbers /\ DOMAIN w.objs = numbers
       /\ \A n \in numbers : w.objs[n] = Content(n) /\ w.home[n] = IF n \in packed THEN C(n) ELSE 0
  BY <1>1 DEF FileFields
<1>13. ASSUME NEW n \in DOMAIN objects
       PROVE  Stored(w, objects[n], n, state)
  <2>1. n \in D /\ n \in numbers /\ all[n] = objects[n] /\ n # dict_num
    <3>1. n \in D /\ all[n] = objects[n] /\ n # 0
      BY <1>2, <1>4
    <3> QED
      BY <1>2, <1>10, <3>1 DEF dict_num
  <2>2. w.objs[n] = IF n \in packed THEN objects[n] ELSE encrypt_object_in_place(objects[n], n, state)
    BY <1>11, <1>12, <2>1 DEF body
  <2>3. CASE n \in packed
    <3>1. w.home[n] = C(n) /\ C(n) \in containers /\ C(n) \in numbers
      BY <1>10, <1>12, <2>1, <2>3 DEF containers
    <3>2. w.objs[C(n)] = container(C(n), state)
      BY <1>11, <1>12, <3>1
    <3>3. C(n) # 0
      BY <1>4, <1>5, <2>3
    <3> QED
      BY <1>3, <1>12, <2>1, <2>2, <2>3, <3>1, <3>2, <3>3 DEF Stored
  <2>4. CASE n \notin packed
    BY <1>12, <2>1, <2>2, <2>4 DEF Stored
  <2> QED
    BY <2>3, <2>4
<1>14. ASSUME NEW n \in numbers \ DOMAIN objects
       PROVE  w.home[n] = 0 /\ AddedObject(w, n, state)
  <2>1. CASE n \in D
    <3>1. Encrypting(state) /\ n = max /\ n = dict_num /\ all[n] = Object(Absent, "dict", Plain(1), Empty)
      BY <1>2, <1>14, <2>1 DEF dict_num
    <3>2. n \notin packed
      BY <1>3, <3>1
    <3>3. w.objs[n] = all[n]
      BY <1>11, <1>12, <2>1, <3>1 DEF body
    <3> QED
      BY <1>12, <3>1, <3>2, <3>3 DEF AddedObject
  <2>2. CASE n \notin D
    <3>1. n \notin packed /\ n \in containers \cup xref
      BY <1>3, <1>10, <2>2
    <3> QED
      BY <1>11, <1>12, <3>1 DEF AddedObject
  <2> QED
    BY <2>1, <2>2
<1>15. IF Encrypting(state) THEN w.encrypt \in numbers /\ w.home[w.encrypt] = 0 ELSE w.encrypt = 0
  <2>1. CASE Encrypting(state)
    <3>1. dict_num = max /\ dict_num \in numbers
      BY <1>4, <1>10, <2>1 DEF dict_num
    <3>2. dict_num \notin packed
      BY <1>3
    <3> QED
      BY <1>12, <2>1, <3>1, <3>2
  <2>2. CASE ~Encrypting(state)
    BY <1>12, <2>2 DEF dict_num
  <2> QED
    BY <2>1, <2>2
<1>16. DOMAIN objects \subseteq numbers
  BY <1>2, <1>10
<1> QED
  BY <1>9, <1>12, <1>13, <1>14, <1>15, <1>16 DEF IsWritten, w

-----------------------------------------------------------------------------
(* What building an encryption with the n-th nonce gives.                   *)
IsBuilt(state, n, h) ==
  LET d == state.dict
      cipher == CipherOf(state)
  IN  /\ Encrypting(state) /\ Supported(d) /\ FileKey(d) = state.file_key
      /\ state.file_key \in FileKeys(n) /\ d.EncryptMetadata
      /\ cipher \in {"V2", "AesV2", "AesV3"}
      /\ Methods(d) = [stream |-> cipher, string |-> cipher, embedded |-> cipher]
      /\ cipher = "V2" => state.file_key \notin FileKeys(n - 1)
      /\ \A f : f.dict = d /\ f.id = n => MadeFor(f, h)

(* The passwords that a request makes a file for.                           *)
Requester(p) == [user |-> p.user_password, owner |-> OwnerOf(p)]

(* What a request asks for is of the right kind.                            *)
LEMMA Requests ==
    ASSUME NEW p \in Params
    PROVE  /\ p.user_password \in Passwords /\ OwnerOf(p) \in Passwords
           /\ Padded[p.user_password] \in Passwords /\ Padded[OwnerOf(p)] \in Passwords
           /\ p.algorithm \in {"Rc4_128", "Aes128", "Aes256"}
BY EncryptionAssumption DEF OwnerOf

(* A request asks for enciphered metadata.                                  *)
LEMMA MetadataIsEnciphered ==
    ASSUME NEW p \in Params
    PROVE  p.encrypt_metadata
BY EncryptionAssumption, Zenon

(* The fields of a dictionary that is written.                              *)
LEMMA DictionaryFields ==
    ASSUME NEW v, NEW r, NEW o, NEW u, NEW oe, NEW ue, NEW cf, NEW meta
    PROVE  LET d == Dictionary(v, r, o, u, oe, ue, cf, meta)
           IN  /\ d.Filter = "Standard" /\ d.V = v /\ d.R = r /\ d.O = o /\ d.U = u /\ d.OE = oe
               /\ d.UE = ue /\ d.CF = cf /\ d.EFF = Absent /\ d.EncryptMetadata = meta
               /\ v >= 4 => d.StmF = "StdCF" /\ d.StrF = "StdCF"
               /\ DOMAIN d = {"Filter", "V", "R", "O", "U", "OE", "UE", "CF", "StmF", "StrF", "EFF", "EncryptMetadata"}
BY DEF Dictionary

(* RC4 and AES-128 build what IsBuilt says.                                 *)
LEMMA LegacyBuilt ==
    ASSUME NEW p \in Params, NEW n \in Nat, n # 0, NEW v \in {2, 4}, NEW r \in {3, 4}, NEW cf,
           v = 4 => cf = StdCF("AESV2")
    PROVE  IsBuilt(build_legacy(p, n, v, r, cf), n, Requester(p))
<1> DEFINE o == [owner |-> Padded[OwnerOf(p)], user |-> Padded[p.user_password]]
           meta == p.encrypt_metadata
           d0 == Dictionary(v, r, o, {}, NoWrap, NoWrap, cf, meta)
           key == LegacyKey(p.user_password, d0, n)
           d == [d0 EXCEPT !.U = key]
           state == build_legacy(p, n, v, r, cf)
           cipher == CipherOf(state)
           h == Requester(p)
<1>1. state = [file_key |-> key, dict |-> d]
  BY DEF build_legacy
<1> HIDE DEF meta
<1>2. /\ d.Filter = "Standard" /\ d.V = v /\ d.R = r /\ d.O = o /\ d.U = key /\ d.CF = cf
      /\ d.EFF = Absent /\ (v = 4 => d.StmF = "StdCF" /\ d.StrF = "StdCF")
  <2> HIDE DEF d0, key, o
  <2>1. /\ d0.Filter = "Standard" /\ d0.V = v /\ d0.R = r /\ d0.O = o /\ d0.CF = cf
        /\ d0.EFF = Absent /\ (v = 4 => d0.StmF = "StdCF" /\ d0.StrF = "StdCF")
    BY DictionaryFields DEF d0
  <2>2. DOMAIN d0 = {"Filter", "V", "R", "O", "U", "OE", "UE", "CF", "StmF", "StrF", "EFF", "EncryptMetadata"}
    BY DictionaryFields DEF d0
  <2> QED
    BY <2>1, <2>2
<1>3. d.EncryptMetadata /\ d0.EncryptMetadata
  <2>1. meta
    BY MetadataIsEnciphered, Zenon DEF meta
  <2> HIDE DEF d0, key
  <2>2. d0.EncryptMetadata = meta
    BY DictionaryFields DEF d0
  <2>3. d.EncryptMetadata = d0.EncryptMetadata
    <3>1. DOMAIN d0 = {"Filter", "V", "R", "O", "U", "OE", "UE", "CF", "StmF", "StrF", "EFF", "EncryptMetadata"}
      BY DictionaryFields DEF d0
    <3> QED
      BY <3>1
  <2> QED
    BY <2>1, <2>2, <2>3, Zenon
<1>13. key = [password |-> Padded[p.user_password], owner |-> o, id |-> n, plainMetadata |-> FALSE]
  <2>1. d0.O = o
    BY DictionaryFields
  <2> HIDE DEF d0, o
  <2> QED
    BY <1>3, <2>1 DEF LegacyKey
<1>4. o \in [owner : Passwords, user : Passwords]
  BY Requests
<1> HIDE DEF d, d0, key, o, state
<1>5. key \in FileKeys(n) /\ key \notin FileKeys(n - 1)
  <2>1. Padded[p.user_password] \in Passwords /\ n \in 0 .. n /\ n \notin 0 .. n - 1
    BY Requests
  <2>2. key \in FileKeys(n)
    BY <1>4, <1>13, <2>1 DEF FileKeys
  <2>3. key \notin [random : Nat]
    BY <1>13
  <2>4. key.id = n
    BY <1>13
  <2>5. key \notin FileKeys(n - 1)
    BY <2>1, <2>3, <2>4 DEF FileKeys
  <2> QED
    BY <2>2, <2>5
<1>6. state.dict = d /\ state.file_key = key
  BY <1>1
<1>7. cipher = IF v = 4 THEN "AesV2" ELSE "V2"
  BY <1>2, <1>6 DEF CipherOf
<1>8. Methods(d) = [stream |-> cipher, string |-> cipher, embedded |-> cipher]
  <2>1. CASE v = 2
    BY <1>2, <1>7, <2>1 DEF Methods
  <2>2. CASE v = 4
    <3> DEFINE R(name) == resolve_named_crypt_method(d, name, "V2")
    <3>1. d.StmF = "StdCF" /\ d.StrF = "StdCF" /\ d.EFF = Absent /\ d.V = 4
      BY <1>2, <2>2
    <3>2. Methods(d) = [stream |-> R("StdCF"), string |-> R("StdCF"), embedded |-> R("StdCF")]
      BY <3>1, AbsentIs DEF Methods, Named
    <3>3. "StdCF" \in DOMAIN d.CF /\ d.CF["StdCF"] = "AESV2"
      BY <1>2, <2>2 DEF StdCF
    <3>4. R("StdCF") = method_of("AESV2")
      BY <3>3 DEF resolve_named_crypt_method
    <3>5. method_of("AESV2") = "AesV2"
      BY AbsentIs DEF method_of
    <3> QED
      BY <1>7, <2>2, <3>2, <3>4, <3>5
  <2> QED
    BY <2>1, <2>2
<1>9. Encrypting(state) /\ Supported(d)
  BY <1>2, <1>6 DEF Encrypting, Supported, NoDict
<1>10. FileKey(d) = key
  BY <1>2 DEF FileKey
<1>11. ASSUME NEW f, f.dict = d, f.id = n
       PROVE  MadeFor(f, h)
  <2>1. d.O = [owner |-> Padded[h.owner], user |-> Padded[h.user]]
    BY <1>2 DEF Requester, o
  <2>2. LegacyKey(h.user, d, n) = key
    BY <1>2, <1>3, <1>13 DEF LegacyKey, Requester
  <2>3. d.V # 5 /\ d.R \in Nat /\ d.EncryptMetadata \in BOOLEAN
    BY <1>2, <1>3
  <2> QED
    BY <1>2, <1>11, <2>1, <2>2, <2>3 DEF MadeFor
<1>12. cipher \in {"V2", "AesV2", "AesV3"}
  BY <1>7
<1> QED
  BY <1>3, <1>5, <1>6, <1>8, <1>9, <1>10, <1>11, <1>12 DEF IsBuilt, state

(* AES-256 builds what IsBuilt says.                                        *)
LEMMA V5Built ==
    ASSUME NEW p \in Params, NEW n \in Nat
    PROVE  IsBuilt(build_v5(p, n), n, Requester(p))
<1> DEFINE key == [random |-> n]
           meta == p.encrypt_metadata
           V(w) == [password |-> Truncated[w]]
           W(w) == [under |-> Truncated[w], key |-> key]
           h == Requester(p)
           d == Dictionary(5, 6, V(h.owner), V(h.user), W(h.owner), W(h.user), StdCF("AESV3"), meta)
           state == build_v5(p, n)
           cipher == CipherOf(state)
<1>1. state = [file_key |-> key, dict |-> d]
  BY DEF build_v5, Requester
<1>2. /\ d.Filter = "Standard" /\ d.V = 5 /\ d.R = 6
      /\ d.O = V(h.owner) /\ d.U = V(h.user) /\ d.OE = W(h.owner) /\ d.UE = W(h.user)
      /\ d.CF = StdCF("AESV3") /\ d.EFF = Absent
      /\ d.StmF = "StdCF" /\ d.StrF = "StdCF"
  <2> HIDE DEF meta, h, V, W, key
  <2> QED
    BY DictionaryFields
<1>10. d.EncryptMetadata
  <2>1. meta
    BY MetadataIsEnciphered, Zenon DEF meta
  <2> HIDE DEF meta, h, V, W, key
  <2>2. d.EncryptMetadata = meta
    BY DictionaryFields
  <2> QED
    BY <2>1, <2>2, Zenon
<1> HIDE DEF d, state, h
<1>3. key \in FileKeys(n)
  BY DEF FileKeys
<1>4. state.dict = d /\ state.file_key = key
  BY <1>1
<1>5. cipher = "AesV3"
  BY <1>2, <1>4 DEF CipherOf
<1>6. Methods(d) = [stream |-> cipher, string |-> cipher, embedded |-> cipher]
  <2> DEFINE R(name) == resolve_named_crypt_method(d, name, "AesV3")
  <2>1. Methods(d) = [stream |-> R("StdCF"), string |-> R("StdCF"), embedded |-> R("StdCF")]
    BY <1>2, AbsentIs DEF Methods, Named
  <2>2. "StdCF" \in DOMAIN d.CF /\ d.CF["StdCF"] = "AESV3"
    BY <1>2 DEF StdCF
  <2>3. R("StdCF") = method_of("AESV3")
    BY <2>2 DEF resolve_named_crypt_method
  <2>4. method_of("AESV3") = "AesV3"
    BY AbsentIs DEF method_of
  <2> QED
    BY <1>5, <2>1, <2>3, <2>4
<1>7. Encrypting(state) /\ Supported(d)
  BY <1>2, <1>4 DEF Encrypting, Supported, NoDict
<1>8. FileKey(d) = key
  BY <1>2 DEF FileKey
<1>9. ASSUME NEW f, f.dict = d, f.id = n
      PROVE  MadeFor(f, h)
  BY <1>2, <1>9 DEF MadeFor
<1> QED
  BY <1>3, <1>4, <1>5, <1>6, <1>7, <1>8, <1>9, <1>10 DEF IsBuilt, state, h

(* Every request builds what IsBuilt says, for its two passwords.           *)
LEMMA Built ==
    ASSUME NEW p \in Params, NEW n \in Nat, n # 0
    PROVE  IsBuilt(build_encryption(p, n), n, Requester(p)) /\ Requester(p) \in Holders
<1> DEFINE state == build_encryption(p, n)
<1>4. Requester(p) \in Holders
  BY Requests DEF Requester, Holders
<1>1. CASE p.algorithm = "Rc4_128"
  <2>1. state = build_legacy(p, n, 2, 3, NoCF)
    BY <1>1 DEF build_encryption
  <2> QED
    BY <2>1, <1>4, LegacyBuilt
<1>2. CASE p.algorithm = "Aes128"
  <2>1. state = build_legacy(p, n, 4, 4, StdCF("AESV2"))
    BY <1>2 DEF build_encryption
  <2> QED
    BY <2>1, <1>4, LegacyBuilt
<1>3. CASE p.algorithm = "Aes256"
  <2>1. state = build_v5(p, n)
    BY <1>3 DEF build_encryption
  <2> QED
    BY <2>1, <1>4, V5Built
<1> QED
  BY <1>1, <1>2, <1>3, <1>4, Requests

-----------------------------------------------------------------------------
(* How a writer may write: in clear, or with the next nonce.                *)
StateOK(state, n) == state = NoState \/ \E h : IsBuilt(state, n, h)

(* Sealed under the key of object k, or of no object in particular.         *)
SealedCell(c, k) == c = Empty \/ (c.under # <<>> /\ Last(c.under).num \in {0, k})
SealedObject(o, k) == SealedCell(o.text, k) /\ SealedCell(o.bytes, k)

(* Without a state nothing is enciphered.                                   *)
LEMMA NoStateIs == ~Encrypting(NoState)
BY DEF Encrypting, NoState

(* The key of an object under the n-th nonce is made with that nonce, and   *)
(* an RC4 key with no earlier one.                                          *)
LEMMA BuiltKey ==
    ASSUME NEW n, NEW state, NEW h, IsBuilt(state, n, h), NEW k \in Nat
    PROVE  LET key == object_key(state.file_key, k, CipherOf(state))
           IN  /\ key \in Keys(n) /\ key.num \in {0, k}
               /\ key.cipher = CipherOf(state)
               /\ CipherOf(state) = "V2" => key \notin Keys(n - 1)
<1> DEFINE c == CipherOf(state)
           key == object_key(state.file_key, k, c)
<1>1. /\ state.file_key \in FileKeys(n) /\ c \in {"V2", "AesV2", "AesV3"}
      /\ c = "V2" => state.file_key \notin FileKeys(n - 1)
  BY DEF IsBuilt
<1> HIDE DEF c
<1>2. key = [file |-> state.file_key, num |-> IF c = "AesV3" THEN 0 ELSE k, cipher |-> c]
  BY DEF object_key
<1>3. key \in Keys(n) /\ key.num \in {0, k} /\ key.cipher = c
  BY <1>1, <1>2 DEF Keys
<1>4. c = "V2" => key \notin Keys(n - 1)
  BY <1>1, <1>2 DEF Keys
<1> QED
  BY <1>3, <1>4 DEF c

(* Enciphering seals whatever there is, old ciphertext too.                 *)
LEMMA EncryptedCell ==
    ASSUME NEW n \in Nat, NEW state, NEW h, IsBuilt(state, n + 1, h), NEW k \in Nat, NEW c \in Cells(n)
    PROVE  LET e == encrypt_bytes(c, object_key(state.file_key, k, CipherOf(state)))
           IN  e \in Cells(n + 1) /\ SealedCell(e, k)
<1> DEFINE key == object_key(state.file_key, k, CipherOf(state))
           e == encrypt_bytes(c, key)
<1>1. /\ key \in Keys(n + 1) /\ key.num \in {0, k} /\ key.cipher = CipherOf(state)
      /\ CipherOf(state) = "V2" => key \notin Keys(n)
  <2>1. (n + 1) - 1 = n
    OBVIOUS
  <2> QED
    BY <2>1, BuiltKey
<1>2. c \in Cells(n + 1)
  BY CellsGrow
<1> HIDE DEF key
<1>3. e \in Cells(n + 1)
  BY <1>1, <1>2, EncipheredCell
<1>4. CASE c = Empty
  BY <1>3, <1>4 DEF encrypt_bytes, SealedCell, key
<1>5. CASE c # Empty /\ CipherOf(state) = "V2"
  <2>1. e.under # <<>> /\ Last(e.under) = key
    BY <1>1, <1>5, FreshSeals
  <2> QED
    BY <1>1, <1>3, <2>1 DEF SealedCell, key
<1>6. CASE c # Empty /\ CipherOf(state) # "V2"
  <2>1. e = [c EXCEPT !.under = Append(@, key)]
    BY <1>1, <1>6 DEF encrypt_bytes, Push
  <2>2. c.under \in Seq(Keys(n)) /\ e.under = Append(c.under, key)
    BY <2>1 DEF Cells
  <2>3. e.under # <<>> /\ Last(e.under) = key
    BY <2>2 DEF Last
  <2> QED
    BY <1>1, <1>3, <2>3 DEF SealedCell, key
<1> QED
  BY <1>4, <1>5, <1>6

(* Enciphering seals an object and changes no more than its cells.          *)
LEMMA EncryptedObject ==
    ASSUME NEW n \in Nat, NEW state, StateOK(state, n + 1), NEW k \in Nat, NEW o, ObjectOK(o, n)
    PROVE  LET e == encrypt_object_in_place(o, k, state)
           IN  /\ ObjectOK(e, n + 1) /\ e.id = o.id /\ e.kind = o.kind /\ e.crypt = o.crypt
               /\ Encrypting(state) => SealedObject(e, k)
<1> DEFINE e == encrypt_object_in_place(o, k, state)
           key == object_key(state.file_key, k, CipherOf(state))
           x == encrypt_bytes(o.text, key)
           y == encrypt_bytes(o.bytes, key)
<1>1. ObjectOK(o, n + 1)
  BY CellsGrow DEF ObjectOK
<1>2. CASE ~Encrypting(state)
  BY <1>1, <1>2 DEF encrypt_object_in_place
<1>3. CASE Encrypting(state)
  <2>1. PICK h : IsBuilt(state, n + 1, h)
    BY <1>3, NoStateIs DEF StateOK
  <2>2. x \in Cells(n + 1) /\ SealedCell(x, k) /\ y \in Cells(n + 1) /\ SealedCell(y, k)
    BY <2>1, EncryptedCell DEF ObjectOK
  <2>3. e = [o EXCEPT !.text = x, !.bytes = y]
    BY <1>3 DEF encrypt_object_in_place
  <2> HIDE DEF e, x, y
  <2>4. /\ DOMAIN e = DOMAIN o /\ e.text = x /\ e.bytes = y
        /\ e.id = o.id /\ e.kind = o.kind /\ e.crypt = o.crypt
    BY <2>3 DEF ObjectOK
  <2> QED
    BY <1>1, <2>2, <2>4 DEF ObjectOK, SealedObject, e
<1> QED
  BY <1>2, <1>3

(* An object that a writer adds is an object, whose id is its own.          *)
LEMMA NewObject ==
    ASSUME NEW n, NEW id, NEW kind, NEW t \in Int, NEW b \in Int
    PROVE  LET o == Object(id, kind, Plain(t), Plain(b))
           IN  ObjectOK(o, n) /\ o.id = id /\ o.kind = kind /\ o.crypt = Absent
<1>1. Plain(t) \in Cells(n) /\ Plain(b) \in Cells(n)
  BY PlainCells
<1> HIDE DEF Plain
<1> QED
  BY <1>1 DEF Object, ObjectOK

(* What a writer adds is sealed, but for the dictionary and xref streams.   *)
LEMMA AddedOK ==
    ASSUME NEW n \in Nat, NEW state, StateOK(state, n + 1), NEW k \in Nat, NEW w, AddedObject(w, k, state)
    PROVE  /\ ObjectOK(w.objs[k], n + 1) /\ w.objs[k].id = Absent
           /\ Encrypting(state) => k = w.encrypt \/ w.objs[k].kind = "xref" \/ SealedObject(w.objs[k], k)
<1> DEFINE D == Object(Absent, "dict", Plain(1), Empty)
           X == Object(Absent, "xref", Empty, Plain(1))
           S == Object(Absent, "objstm", Empty, Plain(1))
<1>4. Empty = Plain(0) /\ 0 \in Int /\ 1 \in Int
  BY DEF Empty
<1>5. \A m, id, kind : \A t, b \in Int :
        LET o == Object(id, kind, Plain(t), Plain(b))
        IN  ObjectOK(o, m) /\ o.id = id /\ o.kind = kind /\ o.crypt = Absent
  BY NewObject
<1>1. ObjectOK(D, n + 1) /\ ObjectOK(X, n + 1) /\ ObjectOK(S, n)
  BY <1>4, <1>5, Zenon
<1>2. D.id = Absent /\ X.id = Absent /\ X.kind = "xref" /\ S.id = Absent
  BY DEF Object
<1>3. /\ ObjectOK(container(k, state), n + 1) /\ container(k, state).id = Absent
      /\ Encrypting(state) => SealedObject(container(k, state), k)
  <2> HIDE DEF S
  <2> QED
    BY <1>1, <1>2, EncryptedObject DEF container, S
<1> HIDE DEF D, X, S
<1> QED
  BY <1>1, <1>2, <1>3 DEF AddedObject, D, X

(* An object stream stays one when it is enciphered.                        *)
LEMMA ContainerIs ==
    ASSUME NEW n \in Nat, NEW state, StateOK(state, n + 1), NEW k \in Nat
    PROVE  container(k, state).kind = "objstm" /\ container(k, state).crypt = Absent
<1> DEFINE S == Object(Absent, "objstm", Empty, Plain(1))
<1>1. ObjectOK(S, n) /\ S.kind = "objstm" /\ S.crypt = Absent
  <2>1. Empty = Plain(0) /\ 0 \in Int /\ 1 \in Int
    BY DEF Empty
  <2>2. \A m, id, kind : \A t, b \in Int :
          LET o == Object(id, kind, Plain(t), Plain(b))
          IN  ObjectOK(o, m) /\ o.id = id /\ o.kind = kind /\ o.crypt = Absent
    BY NewObject
  <2>3. ObjectOK(S, n)
    BY <2>1, <2>2, Zenon
  <2>4. S.kind = "objstm" /\ S.crypt = Absent
    BY DEF Object
  <2> QED
    BY <2>3, <2>4
<1> HIDE DEF S
<1> QED
  BY <1>1, EncryptedObject DEF container, S

-----------------------------------------------------------------------------
(* An object of the document has one number in a file.                      *)
LEMMA NumberIs ==
    ASSUME NEW n, NEW f, FileOK(f, n), NEW id \in Ids
    PROVE  LET k == NumberOf(f, id)
           IN  /\ k \in DOMAIN f.objs /\ f.objs[k].id = id /\ f.objs[k].kind \notin {"xref", "objstm"}
               /\ \A j \in DOMAIN f.objs : f.objs[j].id = id => j = k
<1>1. PICK k \in DOMAIN f.objs :
        /\ f.objs[k].id = id /\ f.objs[k].kind \notin {"xref", "objstm"}
        /\ \A j \in DOMAIN f.objs : f.objs[j].id = id => j = k
  BY DEF FileOK
<1>2. NumberOf(f, id) \in DOMAIN f.objs /\ f.objs[NumberOf(f, id)].id = id
  BY <1>1, Zenon DEF NumberOf
<1>3. NumberOf(f, id) = k
  BY <1>1, <1>2
<1> QED
  BY <1>1, <1>3

(* Whatever another program or this one left unsealed in a file.            *)
AllSealed(f) ==
  \A k \in DOMAIN f.objs \ {f.encrypt} :
    f.objs[k].kind = "xref" \/ f.home[k] # 0 \/ SealedObject(f.objs[k], k)

(* Where an object of the document has gone.                                *)
Moved(w, o, id, state) ==
  /\ NumberOf(w, id) \in DOMAIN w.objs /\ w.objs[NumberOf(w, id)].id = id
  /\ Stored(w, o, NumberOf(w, id), state)

(* A stored object is the one it was, sealed if the file is enciphered.     *)
LEMMA StoredOK ==
    ASSUME NEW n \in Nat, NEW state, StateOK(state, n + 1), NEW k \in Nat, NEW w,
           NEW o, ObjectOK(o, n), Stored(w, o, k, state)
    PROVE  /\ ObjectOK(w.objs[k], n + 1) /\ w.objs[k].id = o.id /\ w.objs[k].kind = o.kind
           /\ w.objs[k].crypt = o.crypt
           /\ Encrypting(state) => w.home[k] # 0 \/ SealedObject(w.objs[k], k)
           /\ w.home[k] # 0 =>
                /\ w.home[k] \in DOMAIN w.objs /\ w.objs[k].kind \notin Streams
                /\ w.objs[w.home[k]] = container(w.home[k], state)
<1>1. ObjectOK(o, n + 1)
  BY CellsGrow DEF ObjectOK
<1>2. CASE w.home[k] = 0 /\ w.objs[k] = encrypt_object_in_place(o, k, state)
  BY <1>2, EncryptedObject
<1>3. CASE /\ o.kind \notin Streams /\ w.objs[k] = o /\ w.home[k] # 0
           /\ w.home[k] \in DOMAIN w.objs /\ w.objs[w.home[k]] = container(w.home[k], state)
  BY <1>1, <1>3
<1> QED
  BY <1>2, <1>3 DEF Stored

(* A rewritten file is one, with all objects of the document where they     *)
(* have been moved, and all of it sealed if it is enciphered.               *)
LEMMA RewriteKeepsFile ==
    ASSUME NEW n \in Nat, NEW f, FileOK(f, n), NEW ctx, ContextOK(ctx, n),
           NEW state, StateOK(state, n + 1), NEW mode, NEW file_id \in 0 .. n + 1,
           \A id \in Ids : Readable(f, ctx, NumberOf(f, id))
    PROVE  LET w == write(rewrite_document_objects(f, ctx), state, mode, file_id)
           IN  /\ FileOK(w, n + 1)
               /\ w.maker = "oxide" /\ w.dict = state.dict /\ w.id = file_id
               /\ IF Encrypting(state) THEN w.encrypt # 0 /\ w.home[w.encrypt] = 0 ELSE w.encrypt = 0
               /\ Encrypting(state) => AllSealed(w)
               /\ \A id \in Ids : Moved(w, get_object(f, ctx, NumberOf(f, id)), id, state)
<1> DEFINE objects == rewrite_document_objects(f, ctx)
           w == write(objects, state, mode, file_id)
           kept == Kept(f, ctx)
           got(k) == get_object(f, ctx, k)
           N(id) == NumberOf(f, id)
<1>1. \A id \in Ids : /\ N(id) \in kept /\ f.objs[N(id)].id = id /\ f.objs[N(id)].kind \notin {"xref", "objstm"}
                      /\ \A j \in DOMAIN f.objs : f.objs[j].id = id => j = N(id)
  BY NumberIs DEF Kept
<1>2. kept # {} /\ kept \subseteq DOMAIN f.objs
  <2>1. Ids # {}
    BY EncryptionAssumption
  <2> QED
    BY <1>1, <2>1 DEF Kept
<1>3. HasTop(DOMAIN objects) /\ IsRewritten(objects, f, ctx, kept)
  BY <1>2, RewrittenIs
<1>4. IsWritten(w, objects, state, file_id)
  BY <1>3, WriteIs
<1>5. \A k \in kept : ObjectOK(got(k), n) /\ got(k).id = f.objs[k].id /\ got(k).kind = f.objs[k].kind
  BY <1>2, GotObject
<1> HIDE DEF objects, w, kept, got, N
<1>6. \A m \in DOMAIN objects : \E k \in kept : objects[m] = got(k)
  BY <1>3 DEF IsRewritten, got
<1>7. \A k \in kept : \E m \in DOMAIN objects :
        /\ objects[m] = got(k)
        /\ \A j \in DOMAIN objects : objects[j].id = f.objs[k].id /\
              (\A i \in kept : f.objs[i].id = f.objs[k].id => i = k) => j = m
  BY <1>3 DEF IsRewritten, got
<1>8. /\ DOMAIN w = FileFields /\ w.maker = "oxide" /\ w.dict = state.dict /\ w.id = file_id
      /\ DOMAIN w.home = DOMAIN w.objs /\ HasTop(DOMAIN w.objs) /\ DOMAIN objects \subseteq DOMAIN w.objs
      /\ IF Encrypting(state) THEN w.encrypt \in DOMAIN w.objs /\ w.home[w.encrypt] = 0 ELSE w.encrypt = 0
      /\ \A k \in DOMAIN objects : Stored(w, objects[k], k, state)
      /\ \A k \in DOMAIN w.objs \ DOMAIN objects : w.home[k] = 0 /\ AddedObject(w, k, state)
  BY <1>4 DEF IsWritten
<1>9. DOMAIN w.objs \subseteq Nat \ {0}
  BY <1>8 DEF HasTop
<1>10. \A m \in DOMAIN objects : ObjectOK(objects[m], n)
  BY <1>5, <1>6
<1>11. ASSUME NEW m \in DOMAIN objects
       PROVE  /\ ObjectOK(w.objs[m], n + 1) /\ w.objs[m].id = objects[m].id /\ w.objs[m].kind = objects[m].kind
              /\ Encrypting(state) => w.home[m] # 0 \/ SealedObject(w.objs[m], m)
              /\ w.home[m] # 0 =>
                   /\ w.home[m] \in DOMAIN w.objs /\ w.objs[m].kind \notin Streams
                   /\ w.objs[w.home[m]] = container(w.home[m], state)
  <2> DEFINE o == objects[m]
  <2>1. m \in Nat /\ ObjectOK(o, n) /\ Stored(w, o, m, state)
    BY <1>8, <1>9, <1>10
  <2> HIDE DEF o
  <2>2. /\ ObjectOK(w.objs[m], n + 1) /\ w.objs[m].id = o.id /\ w.objs[m].kind = o.kind
        /\ Encrypting(state) => w.home[m] # 0 \/ SealedObject(w.objs[m], m)
        /\ w.home[m] # 0 =>
             /\ w.home[m] \in DOMAIN w.objs /\ w.objs[m].kind \notin Streams
             /\ w.objs[w.home[m]] = container(w.home[m], state)
    BY <2>1, StoredOK
  <2> QED
    BY <2>2 DEF o
<1>12. ASSUME NEW m \in DOMAIN w.objs \ DOMAIN objects
       PROVE  /\ w.home[m] = 0 /\ ObjectOK(w.objs[m], n + 1) /\ w.objs[m].id = Absent
              /\ Encrypting(state) => m = w.encrypt \/ w.objs[m].kind = "xref" \/ SealedObject(w.objs[m], m)
  <2>1. m \in Nat /\ w.home[m] = 0 /\ AddedObject(w, m, state)
    BY <1>8, <1>9
  <2> QED
    BY <2>1, AddedOK
<1>13. ASSUME NEW id \in Ids
       PROVE  \E m \in DOMAIN objects :
                /\ objects[m] = got(N(id)) /\ w.objs[m].id = id /\ w.objs[m].kind \notin {"xref", "objstm"}
                /\ \A j \in DOMAIN w.objs : w.objs[j].id = id => j = m
  <2>1. N(id) \in kept /\ got(N(id)).id = id /\ got(N(id)).kind \notin {"xref", "objstm"} /\ f.objs[N(id)].id = id
    BY <1>1, <1>5
  <2>2. \A i \in kept : f.objs[i].id = f.objs[N(id)].id => i = N(id)
    BY <1>1, <1>2
  <2>3. PICK m \in DOMAIN objects :
          /\ objects[m] = got(N(id))
          /\ \A j \in DOMAIN objects : objects[j].id = id => j = m
    BY <1>7, <2>1, <2>2
  <2>4. w.objs[m].id = id /\ w.objs[m].kind \notin {"xref", "objstm"}
    BY <1>11, <2>1, <2>3
  <2>5. id # Absent
    BY EncryptionAssumption DEF Absent
  <2>6. ASSUME NEW j \in DOMAIN w.objs, w.objs[j].id = id
        PROVE  j = m
    <3>1. j \in DOMAIN objects
      BY <1>12, <2>5, <2>6
    <3> QED
      BY <1>11, <2>3, <2>6, <3>1
  <2> QED
    BY <2>3, <2>4, <2>6
<1>14. \A k \in DOMAIN w.objs : ObjectOK(w.objs[k], n + 1)
  BY <1>11, <1>12
<1>15. \A k \in DOMAIN w.objs : w.home[k] # 0 =>
         /\ w.home[k] \in DOMAIN w.objs /\ w.objs[k].kind \notin Streams
         /\ w.objs[w.home[k]].kind = "objstm" /\ w.objs[w.home[k]].crypt = Absent
  <2> SUFFICES ASSUME NEW k \in DOMAIN w.objs, w.home[k] # 0
               PROVE  /\ w.home[k] \in DOMAIN w.objs /\ w.objs[k].kind \notin Streams
                      /\ w.objs[w.home[k]].kind = "objstm" /\ w.objs[w.home[k]].crypt = Absent
    OBVIOUS
  <2>1. k \in DOMAIN objects
    BY <1>12
  <2>2. /\ w.home[k] \in DOMAIN w.objs /\ w.objs[k].kind \notin Streams
        /\ w.objs[w.home[k]] = container(w.home[k], state)
    BY <1>11, <2>1
  <2>3. w.home[k] \in Nat
    BY <1>9, <2>2
  <2> QED
    BY <2>2, <2>3, ContainerIs
<1>16. \A id \in Ids : \E k \in DOMAIN w.objs :
         /\ w.objs[k].id = id /\ w.objs[k].kind \notin {"xref", "objstm"}
         /\ \A j \in DOMAIN w.objs : w.objs[j].id = id => j = k
  BY <1>8, <1>13
<1>17. w.encrypt \in {0} \cup DOMAIN w.objs
  BY <1>8
<1>18. FileOK(w, n + 1)
  <2>1. DOMAIN w = {"objs", "home", "encrypt", "dict", "id", "maker"} /\ w.id \in 0 .. n + 1
    BY <1>8 DEF FileFields
  <2>2. DOMAIN w.home = DOMAIN w.objs /\ \E top \in DOMAIN w.objs : \A k \in DOMAIN w.objs : k <= top
    BY <1>8 DEF HasTop
  <2> QED
    BY <1>9, <1>14, <1>15, <1>16, <1>17, <2>1, <2>2 DEF FileOK
<1>19. Encrypting(state) => AllSealed(w)
  BY <1>11, <1>12 DEF AllSealed
<1>20. IF Encrypting(state) THEN w.encrypt # 0 /\ w.home[w.encrypt] = 0 ELSE w.encrypt = 0
  BY <1>8, <1>9
<1>21. ASSUME NEW id \in Ids
       PROVE  Moved(w, got(N(id)), id, state)
  <2>1. PICK m \in DOMAIN objects :
          objects[m] = got(N(id)) /\ \A j \in DOMAIN w.objs : w.objs[j].id = id => j = m
    BY <1>13
  <2>2. NumberOf(w, id) \in DOMAIN w.objs /\ w.objs[NumberOf(w, id)].id = id
    BY <1>18, NumberIs
  <2>3. NumberOf(w, id) = m
    BY <2>1, <2>2
  <2> QED
    BY <1>8, <2>1, <2>2, <2>3 DEF Moved
<1> QED
  BY <1>8, <1>18, <1>19, <1>20, <1>21 DEF w, objects, got, N

-----------------------------------------------------------------------------
(* The document says things in clear.                                       *)
LEMMA SaysPlain ==
    ASSUME NEW id, NEW v \in Int
    PROVE  \E t, b \in Int : Says(id, v) = [text |-> Plain(t), bytes |-> Plain(b)]
<1> DEFINE t == IF id \in WithText THEN v ELSE 0
           b == IF id \in WithBytes THEN v ELSE 0
<1>1. t \in Int /\ b \in Int
  OBVIOUS
<1>2. Says(id, v) = [text |-> Plain(t), bytes |-> Plain(b)]
  BY DEF Says, Empty
<1> QED
  BY <1>1, <1>2

(* What is written in clear under a key reads back with that key.           *)
LEMMA RoundTrip ==
    ASSUME NEW n, NEW state, NEW h, IsBuilt(state, n, h), NEW k \in Nat, NEW o, ObjectOK(o, n),
           o.kind # "xref", o.crypt = Absent, NEW t \in Int, NEW b \in Int,
           o.text = Plain(t), o.bytes = Plain(b)
    PROVE  LET e == encrypt_object_in_place(o, k, state)
               p == decrypt_object(e, k, Context(FileKey(state.dict), state.dict))
           IN  p.text = o.text /\ p.bytes = o.bytes /\ p.crypt = Absent
<1> DEFINE d == state.dict
           c == CipherOf(state)
           key == object_key(state.file_key, k, c)
           e == encrypt_object_in_place(o, k, state)
           ctx == Context(FileKey(d), d)
           p == decrypt_object(e, k, ctx)
           x == encrypt_bytes(o.text, key)
           y == encrypt_bytes(o.bytes, key)
<1>1. /\ Encrypting(state) /\ FileKey(d) = state.file_key /\ d.EncryptMetadata
      /\ Methods(d) = [stream |-> c, string |-> c, embedded |-> c]
  BY DEF IsBuilt
<1>2. key \in Keys(n)
  BY BuiltKey
<1>3. /\ ctx.encrypted /\ ctx.file_key = state.file_key /\ ctx.methods = Methods(d) /\ ctx.encrypt_metadata
  BY <1>1, ContextFields
<1>4. e = [o EXCEPT !.text = x, !.bytes = y]
  BY <1>1 DEF encrypt_object_in_place
<1> HIDE DEF ctx, e, x, y, c
<1>5. e.text = x /\ e.bytes = y /\ e.kind = o.kind /\ e.crypt = o.crypt /\ DOMAIN e = DOMAIN o
  BY <1>4 DEF ObjectOK
<1>6. ctx.methods.string = c /\ ctx.methods.stream = c /\ ctx.methods.embedded = c
  BY <1>1, <1>3
<1>7. stream_crypt_method(e, ctx) = c
  BY <1>5, <1>6, AbsentIs DEF stream_crypt_method
<1>8. p = [e EXCEPT !.text = Deciphered(@, key), !.bytes = Deciphered(@, key)]
  BY <1>3, <1>5, <1>6, <1>7 DEF decrypt_object
<1>9. Deciphered(x, key) = o.text /\ Deciphered(y, key) = o.bytes
  BY <1>2, PlainComesBack DEF x, y
<1> HIDE DEF p, key
<1>10. p.text = o.text /\ p.bytes = o.bytes /\ p.crypt = o.crypt
  BY <1>5, <1>8, <1>9 DEF ObjectOK
<1> QED
  BY <1>10 DEF p, ctx, e

(* Without a key nothing is deciphered.                                     *)
LEMMA ClearContext ==
    ASSUME NEW o, NEW k
    PROVE  decrypt_object(o, k, NoContext) = o
BY DEF decrypt_object, NoContext

-----------------------------------------------------------------------------
(* An object in clear, with no filter of its own, that says this version.   *)
Good(o, id, v) == o.crypt = Absent /\ o.kind # "xref" /\ Says(id, v) = [text |-> o.text, bytes |-> o.bytes]

(* What an object stream holds before it is enciphered.                     *)
LEMMA ContainerObject ==
    LET S == Object(Absent, "objstm", Empty, Plain(1))
    IN  S.kind = "objstm" /\ S.crypt = Absent /\ S.text = Plain(0) /\ S.bytes = Plain(1)
BY DEF Object, Empty

(* What is written and was read rightly is in the new file for its reader.  *)
LEMMA MovedInClear ==
    ASSUME NEW n \in Nat, NEW w, FileOK(w, n), NEW id \in Ids, NEW v \in Int,
           NEW o, Good(o, id, v), Moved(w, o, id, NoState), w.encrypt = 0
    PROVE  Holds(w, Rightful(w), id, v)
<1> DEFINE m == NumberOf(w, id)
           S == Object(Absent, "objstm", Empty, Plain(1))
<1>1. Rightful(w) = NoContext
  BY DEF Rightful
<1>2. \A k, x : encrypt_object_in_place(x, k, NoState) = x
  BY NoStateIs DEF encrypt_object_in_place
<1>3. w.objs[m] = o /\ (w.home[m] # 0 => w.objs[w.home[m]] = S)
  BY <1>2 DEF Moved, Stored, container
<1> HIDE DEF m, S
<1>4. get_object(w, NoContext, m) = o
  BY <1>3, ClearContext DEF get_object
<1>5. S.bytes = Plain(1)
  BY ContainerObject DEF S
<1>6. Readable(w, NoContext, m)
  BY <1>3, <1>5, ClearContext DEF Readable
<1>7. Decodes(o, NoContext)
  BY DEF Decodes, Good
<1> QED
  BY <1>1, <1>4, <1>6, <1>7 DEF Holds, Good, m

(* The same for an enciphered file: who has its key reads it in the object, *)
(* or in the object stream around it.                                       *)
LEMMA MovedSealed ==
    ASSUME NEW n \in Nat, NEW w, FileOK(w, n), NEW id \in Ids, NEW v \in Int,
           NEW o, ObjectOK(o, n), Good(o, id, v), NEW state, Moved(w, o, id, state),
           NEW h, IsBuilt(state, n, h), w.encrypt # 0, w.dict = state.dict
    PROVE  Holds(w, Rightful(w), id, v)
<1> DEFINE m == NumberOf(w, id)
           S == Object(Absent, "objstm", Empty, Plain(1))
           ctx == Context(FileKey(state.dict), state.dict)
<1>1. Rightful(w) = ctx
  BY DEF Rightful
<1>2. DOMAIN w.objs \subseteq Nat
  BY DEF FileOK
<1>3. PICK t, b \in Int : Says(id, v) = [text |-> Plain(t), bytes |-> Plain(b)]
  BY SaysPlain
<1>4. /\ o.crypt = Absent /\ o.kind # "xref" /\ Says(id, v) = [text |-> o.text, bytes |-> o.bytes]
      /\ o.text = Plain(t) /\ o.bytes = Plain(b)
  BY <1>3 DEF Good
<1>5. m \in Nat /\ Stored(w, o, m, state)
  BY <1>2 DEF Moved
<1> HIDE DEF m, S, ctx
<1>6. /\ get_object(w, ctx, m).text = o.text /\ get_object(w, ctx, m).bytes = o.bytes
      /\ get_object(w, ctx, m).crypt = Absent
  <2>1. CASE w.home[m] = 0 /\ w.objs[m] = encrypt_object_in_place(o, m, state)
    <3>1. get_object(w, ctx, m) = decrypt_object(encrypt_object_in_place(o, m, state), m, ctx)
      BY <2>1 DEF get_object
    <3> QED
      BY <1>4, <1>5, <3>1, RoundTrip DEF ctx
  <2>2. CASE w.objs[m] = o /\ w.home[m] # 0
    BY <1>4, <2>2 DEF get_object
  <2> QED
    BY <1>5, <2>1, <2>2 DEF Stored
<1>7. Readable(w, ctx, m)
  <2> SUFFICES ASSUME w.home[m] # 0
               PROVE  decrypt_object(w.objs[w.home[m]], w.home[m], ctx).bytes = Plain(1)
    BY DEF Readable
  <2>1. w.home[m] \in Nat /\ w.objs[w.home[m]] = encrypt_object_in_place(S, w.home[m], state)
    BY <1>2, <1>5 DEF Stored, container, S
  <2>2. ObjectOK(S, n) /\ S.kind # "xref" /\ S.crypt = Absent /\ S.text = Plain(0) /\ S.bytes = Plain(1)
    <3>1. \A t0, b0 \in Int : ObjectOK(Object(Absent, "objstm", Plain(t0), Plain(b0)), n)
      BY NewObject
    <3>2. Empty = Plain(0) /\ 0 \in Int /\ 1 \in Int
      BY DEF Empty
    <3>3. ObjectOK(S, n)
      BY <3>1, <3>2, Zenon DEF S
    <3> QED
      BY <3>3, ContainerObject DEF S
  <2>3. PICK t0, b0 \in Int : S.text = Plain(t0) /\ S.bytes = Plain(b0) /\ Plain(b0) = Plain(1)
    BY <2>2
  <2>4. decrypt_object(encrypt_object_in_place(S, w.home[m], state), w.home[m], ctx).bytes = S.bytes
    BY <2>1, <2>2, <2>3, RoundTrip DEF ctx
  <2> QED
    BY <2>1, <2>3, <2>4
<1>8. Decodes(get_object(w, ctx, m), ctx)
  BY <1>6 DEF Decodes
<1> QED
  BY <1>1, <1>4, <1>6, <1>7, <1>8 DEF Holds, m

(* Who has no key gets the strings and ordinary streams of a document whose *)
(* attachments alone are enciphered, as who has it.                         *)
LEMMA ExposedObject ==
    ASSUME NEW f, Exposed(f), NEW n, NEW o, ObjectOK(o, n), NEW k,
           o.kind # "embedded", o.crypt \in {Absent, "Identity"}
    PROVE  LET p == decrypt_object(o, k, Rightful(f))
           IN  p.text = o.text /\ p.bytes = o.bytes /\ p.crypt = o.crypt
<1> DEFINE ctx == Rightful(f)
           p == decrypt_object(o, k, ctx)
           key == object_key(ctx.file_key, k, "None")
<1>1. ctx = Context(FileKey(f.dict), f.dict) /\ Methods(f.dict).stream = "None" /\ Methods(f.dict).string = "None"
  BY DEF Exposed, Rightful
<1>2. ctx.encrypted /\ ctx.methods.string = "None" /\ ctx.methods.stream = "None"
  BY <1>1, ContextFields
<1> HIDE DEF ctx
<1>3. stream_crypt_method(o, ctx) = "None"
  BY <1>2, AbsentIs DEF stream_crypt_method
<1>4. \A c : Deciphered(c, key) = c
  BY DEF Deciphered, object_key
<1> HIDE DEF key
<1>5. p = o \/ p = [o EXCEPT !.text = o.text, !.bytes = o.bytes]
  BY <1>2, <1>3, <1>4 DEF decrypt_object, key
<1> QED
  BY <1>5 DEF ObjectOK, ctx

(* So a reader without a key has of such a document what the rightful one   *)
(* has, but for the attachments.                                            *)
LEMMA ExposedHolds ==
    ASSUME NEW f, Exposed(f), NEW n, FileOK(f, n), NEW id \in Ids, NEW v,
           Holds(f, Rightful(f), id, v),
           LET o == f.objs[NumberOf(f, id)]
           IN  o.kind # "embedded" /\ o.crypt \in {Absent, "Identity"}
    PROVE  Holds(f, NoContext, id, v)
<1> DEFINE k == NumberOf(f, id)
           o == f.objs[k]
           R == Rightful(f)
           p == get_object(f, R, k)
           q == get_object(f, NoContext, k)
<1>1. k \in DOMAIN f.objs /\ ObjectOK(o, n)
  BY NumberIs DEF FileOK
<1>2. o.kind # "embedded" /\ o.crypt \in {Absent, "Identity"}
  OBVIOUS
<1>3. Readable(f, R, k) /\ Says(id, v) = [text |-> p.text, bytes |-> p.bytes]
  BY DEF Holds
<1> HIDE DEF k, R
<1>4. q = o
  BY ClearContext DEF get_object
<1>5. p.text = o.text /\ p.bytes = o.bytes /\ p.crypt = o.crypt
  <2>1. CASE f.home[k] = 0
    BY <1>1, <1>2, <2>1, ExposedObject DEF get_object, R
  <2>2. CASE f.home[k] # 0
    BY <2>2 DEF get_object
  <2> QED
    BY <2>1, <2>2
<1>6. Readable(f, NoContext, k)
  <2> SUFFICES ASSUME f.home[k] # 0
               PROVE  decrypt_object(f.objs[f.home[k]], f.home[k], NoContext).bytes = Plain(1)
    BY DEF Readable
  <2> DEFINE S == f.objs[f.home[k]]
  <2>1. ObjectOK(S, n) /\ S.kind = "objstm" /\ S.crypt = Absent
    BY <1>1 DEF FileOK
  <2>2. decrypt_object(S, f.home[k], R).bytes = Plain(1)
    BY <1>3 DEF Readable
  <2> HIDE DEF S
  <2>3. S.kind # "embedded"
    BY <2>1
  <2>4. decrypt_object(S, f.home[k], R).bytes = S.bytes
    BY <2>1, <2>3, ExposedObject DEF R
  <2>5. decrypt_object(S, f.home[k], NoContext) = S
    BY ClearContext
  <2> QED
    BY <2>2, <2>4, <2>5 DEF S
<1>7. Decodes(q, NoContext)
  BY <1>2, <1>4 DEF Decodes
<1> QED
  BY <1>3, <1>4, <1>5, <1>6, <1>7 DEF Holds, k

-----------------------------------------------------------------------------
(* What a reader without a key may not count on.                            *)
Special(o) == o.kind = "embedded" \/ o.crypt \notin {Absent, "Identity"}
(* Who has the key reads the document in the file, as far as promised.      *)
ReadOK(f, id, v, b) ==
  LET o == f.objs[NumberOf(f, id)]
  IN  \/ Special(o) /\ b
      \/ o.crypt # Absent /\ f.maker = "oxide"
      \/ Holds(f, Rightful(f), id, v)

(* A file after n nonces, for these holders, of a document that says t:     *)
(* if this program enciphered it, every cell is sealed, and whoever has its *)
(* key reads what was last written.                                         *)
FileInv(f, n, h, t, b) ==
  /\ FileOK(f, n)
  /\ Understood(f) /\ f.encrypt # 0 => MadeFor(f, h)
  /\ f.maker = "oxide" /\ f.encrypt # 0 =>
       Understood(f) /\ Methods(f.dict).stream # "None" /\ AllSealed(f)
  /\ Understood(f) => \A id \in Ids : ReadOK(f, id, t[id], b)

(* A session is closed, or what opening the file would now give.            *)
SessionInv(s, f) == s = Closed \/ \E pw \in Passwords : s = opened(f, pw)

(* The inductive invariant.                                                 *)
IInv ==
  /\ calls \in 0 .. MaxCalls /\ blind \in BOOLEAN /\ truth \in [Ids -> 1 .. MaxVersion] /\ holders \in Holders
  /\ FileInv(file, calls, holders, truth, blind)
  /\ SessionInv(session, file)

(* What a reader of the file may count on.                                  *)
Reads(f, ctx, id, v, b) ==
  LET o == f.objs[NumberOf(f, id)]
  IN  \/ Special(o) /\ ((f.encrypt # 0 /\ ~ctx.encrypted) \/ b)
      \/ o.crypt # Absent /\ f.maker = "oxide"
      \/ Holds(f, ctx, id, v)

(* Every open reader can count on what Reads says and read all of the file. *)
LEMMA OpenReads ==
    ASSUME NEW f, NEW n \in Nat, NEW h \in Holders, NEW t, NEW b, FileInv(f, n, h, t, b),
           NEW pw \in Passwords, opened(f, pw).state = "open"
    PROVE  LET ctx == opened(f, pw).ctx
           IN  /\ Understood(f) /\ ContextOK(ctx, n)
               /\ f.encrypt # 0 /\ ~ctx.encrypted => Exposed(f)
               /\ \A id \in Ids : Reads(f, ctx, id, t[id], b) /\ Readable(f, ctx, NumberOf(f, id))
<1> DEFINE ctx == opened(f, pw).ctx
<1>1. /\ Understood(f) /\ (ctx = Rightful(f) \/ (Exposed(f) /\ ctx = NoContext))
      /\ f.encrypt # 0 => ctx.encrypted \/ Exposed(f)
  BY OpenedIs DEF FileInv
<1>2. /\ FileOK(f, n) /\ (f.encrypt # 0 => MadeFor(f, h))
      /\ \A id \in Ids : ReadOK(f, id, t[id], b)
  BY <1>1 DEF FileInv
<1>3. ContextOK(ctx, n)
  BY <1>1, <1>2, RightfulOK
<1> HIDE DEF ctx
<1>4. ASSUME NEW id \in Ids
      PROVE  Reads(f, ctx, id, t[id], b)
  <2>1. CASE ctx = Rightful(f)
    BY <1>2, <2>1 DEF ReadOK, Reads
  <2>2. CASE Exposed(f) /\ ctx = NoContext
    <3> DEFINE o == f.objs[NumberOf(f, id)]
    <3>1. f.encrypt # 0 /\ ~ctx.encrypted
      BY <2>2 DEF Exposed, NoContext
    <3>2. CASE Special(o)
      BY <3>1, <3>2 DEF Reads
    <3>3. CASE ~Special(o) /\ Holds(f, Rightful(f), id, t[id])
      <4>1. o.kind # "embedded" /\ o.crypt \in {Absent, "Identity"}
        BY <3>3 DEF Special
      <4>2. Holds(f, NoContext, id, t[id])
        BY <1>2, <2>2, <3>3, <4>1, ExposedHolds
      <4> QED
        BY <2>2, <4>2 DEF Reads
    <3>4. CASE o.crypt # Absent /\ f.maker = "oxide"
      BY <3>4 DEF Reads
    <3>5. ReadOK(f, id, t[id], b)
      BY <1>2
    <3> HIDE DEF o
    <3> QED
      BY <3>2, <3>3, <3>4, <3>5 DEF ReadOK, o
  <2> QED
    BY <1>1, <2>1, <2>2
<1>5. ASSUME NEW id \in Ids
      PROVE  Readable(f, ctx, NumberOf(f, id))
  <2> DEFINE k == NumberOf(f, id)
             o == f.objs[k]
  <2>1. k \in DOMAIN f.objs /\ ObjectOK(o, n) /\ (f.home[k] # 0 => o.kind \notin Streams)
    BY <1>2, NumberIs DEF FileOK
  <2>2. CASE o.kind = "embedded" \/ o.crypt # Absent
    <3>1. o.kind \in Streams
      BY <2>1, <2>2 DEF ObjectOK, Streams
    <3> QED
      BY <2>1, <3>1 DEF Readable
  <2>3. CASE ~(o.kind = "embedded" \/ o.crypt # Absent)
    <3>1. ~Special(o) /\ o.crypt = Absent
      BY <2>3 DEF Special
    <3>2. Holds(f, ctx, id, t[id])
      BY <1>4, <3>1 DEF Reads
    <3> QED
      BY <3>2 DEF Holds
  <2> QED
    BY <2>2, <2>3
<1> QED
  BY <1>1, <1>3, <1>4, <1>5 DEF ctx

(* A rewritten file is as sound as the one before, with its new holders.    *)
LEMMA RewriteKeeps ==
    ASSUME NEW f, NEW n \in Nat, NEW h \in Holders, NEW t \in [Ids -> Int], NEW b \in BOOLEAN,
           FileInv(f, n, h, t, b),
           NEW pw \in Passwords, opened(f, pw).state = "open",
           NEW mode, NEW state, NEW file_id \in 0 .. n + 1, NEW h1,
           \/ state = NoState
           \/ IsBuilt(state, n + 1, h1) /\ file_id = n + 1
    PROVE  LET ctx == opened(f, pw).ctx
               w == write(rewrite_document_objects(f, ctx), state, mode, file_id)
           IN  FileInv(w, n + 1, h1, t, b \/ (f.encrypt # 0 /\ ~ctx.encrypted))
<1> DEFINE ctx == opened(f, pw).ctx
           w == write(rewrite_document_objects(f, ctx), state, mode, file_id)
           N(id) == NumberOf(f, id)
           got(id) == get_object(f, ctx, N(id))
           locked == f.encrypt # 0 /\ ~ctx.encrypted
<1>1. /\ ContextOK(ctx, n)
      /\ \A id \in Ids : Reads(f, ctx, id, t[id], b) /\ Readable(f, ctx, N(id))
  BY OpenReads
<1>2. FileOK(f, n) /\ StateOK(state, n + 1)
  BY DEF FileInv, StateOK
<1> HIDE DEF ctx
<1>3. /\ FileOK(w, n + 1)
      /\ w.maker = "oxide" /\ w.dict = state.dict /\ w.id = file_id
      /\ IF Encrypting(state) THEN w.encrypt # 0 /\ w.home[w.encrypt] = 0 ELSE w.encrypt = 0
      /\ Encrypting(state) => AllSealed(w)
      /\ \A id \in Ids : Moved(w, got(id), id, state)
  BY <1>1, <1>2, RewriteKeepsFile
<1>4. \/ state = NoState /\ ~Encrypting(state)
      \/ IsBuilt(state, n + 1, h1) /\ Encrypting(state) /\ file_id = n + 1
  BY NoStateIs DEF IsBuilt
<1> HIDE DEF w, N, got
<1>5. w.encrypt # 0 => Understood(w) /\ MadeFor(w, h1) /\ Methods(w.dict).stream # "None" /\ AllSealed(w)
  <2> SUFFICES ASSUME w.encrypt # 0
               PROVE  Understood(w) /\ MadeFor(w, h1) /\ Methods(w.dict).stream # "None" /\ AllSealed(w)
    OBVIOUS
  <2>1. IsBuilt(state, n + 1, h1) /\ Encrypting(state) /\ file_id = n + 1
    BY <1>3, <1>4
  <2>2. /\ Supported(state.dict) /\ CipherOf(state) \in {"V2", "AesV2", "AesV3"}
        /\ Methods(state.dict) = [stream |-> CipherOf(state), string |-> CipherOf(state), embedded |-> CipherOf(state)]
    BY <2>1 DEF IsBuilt
  <2>3. \A g : g.dict = state.dict /\ g.id = n + 1 => MadeFor(g, h1)
    BY <2>1 DEF IsBuilt
  <2>4. Understood(w) /\ AllSealed(w)
    BY <1>3, <2>1, <2>2 DEF Understood
  <2>5. MadeFor(w, h1)
    BY <1>3, <2>1, <2>3
  <2>6. Methods(w.dict).stream # "None"
    BY <1>3, <2>2
  <2> QED
    BY <2>4, <2>5, <2>6
<1>6. ASSUME NEW id \in Ids
      PROVE  ReadOK(w, id, t[id], b \/ locked)
  <2> DEFINE o == got(id)
             m == NumberOf(w, id)
             old == f.objs[N(id)]
  <2>1. /\ N(id) \in DOMAIN f.objs /\ old.kind # "xref"
    BY <1>2, NumberIs DEF N
  <2>2. ObjectOK(o, n) /\ o.kind = old.kind /\ o.crypt = old.crypt
    BY <1>1, <1>2, <2>1, GotObject DEF got
  <2>3. Moved(w, o, id, state)
    BY <1>3
  <2> HIDE DEF o, old
  <2>4. /\ w.objs[m].kind = o.kind /\ w.objs[m].crypt = o.crypt
    <3>1. DOMAIN w.objs \subseteq Nat
      BY <1>3 DEF FileOK
    <3>2. m \in Nat /\ Stored(w, o, m, state)
      BY <2>3, <3>1 DEF Moved
    <3> QED
      BY <1>2, <2>2, <3>2, StoredOK
  <2>5. Reads(f, ctx, id, t[id], b)
    BY <1>1
  <2>6. CASE Special(old) /\ (locked \/ b)
    <3>1. Special(w.objs[m])
      BY <2>2, <2>4, <2>6 DEF Special
    <3> QED
      BY <2>6, <3>1 DEF ReadOK
  <2>7. CASE o.crypt # Absent
    BY <1>3, <2>4, <2>7 DEF ReadOK
  <2>8. CASE o.crypt = Absent /\ Holds(f, ctx, id, t[id])
    <3>1. Says(id, t[id]) = [text |-> o.text, bytes |-> o.bytes]
      BY <2>8 DEF Holds, o, got, N
    <3>2. Good(o, id, t[id]) /\ t[id] \in Int
      BY <2>1, <2>2, <2>8, <3>1 DEF Good
    <3>3. CASE w.encrypt = 0
      <4>1. state = NoState
        BY <1>3, <1>4, <3>3
      <4>2. Holds(w, Rightful(w), id, t[id])
        BY <1>3, <2>3, <3>2, <3>3, <4>1, MovedInClear
      <4> QED
        BY <4>2 DEF ReadOK
    <3>4. CASE w.encrypt # 0
      <4>1. IsBuilt(state, n + 1, h1)
        BY <1>3, <1>4, <3>4
      <4>2. ObjectOK(o, n + 1)
        BY <2>2, CellsGrow DEF ObjectOK
      <4>3. Holds(w, Rightful(w), id, t[id])
        BY <1>3, <2>3, <3>2, <3>4, <4>1, <4>2, MovedSealed
      <4> QED
        BY <4>3 DEF ReadOK
    <3> QED
      BY <3>3, <3>4
  <2>9. \/ Special(old) /\ (locked \/ b)
        \/ o.crypt # Absent
        \/ Holds(f, ctx, id, t[id])
    BY <2>2, <2>5 DEF Reads, old, N
  <2> QED
    BY <2>6, <2>7, <2>8, <2>9
<1>7. FileInv(w, n + 1, h1, t, b \/ locked)
  <2> HIDE DEF locked
  <2> QED
    BY <1>3, <1>5, <1>6 DEF FileInv
<1> QED
  BY <1>7 DEF w, ctx

-----------------------------------------------------------------------------
(* A revision with one object changed.                                      *)
Changed(f, id, v) ==
  LET num == NumberOf(f, id)
      now == Says(id, v)
      new == [f.objs[num] EXCEPT !.text = now.text, !.bytes = now.bytes]
  IN  [f EXCEPT !.objs[num] = new, !.home[num] = 0]

(* What a revision changes: one object, which it takes out of its stream.   *)
LEMMA ChangedIs ==
    ASSUME NEW f, NEW n \in Nat, FileOK(f, n), NEW id \in Ids, NEW v \in Int
    PROVE  LET g == Changed(f, id, v)
               num == NumberOf(f, id)
           IN  /\ DOMAIN g = FileFields /\ g.encrypt = f.encrypt /\ g.dict = f.dict /\ g.id = f.id
               /\ g.maker = f.maker /\ DOMAIN g.objs = DOMAIN f.objs /\ DOMAIN g.home = DOMAIN f.objs
               /\ num \in DOMAIN f.objs
               /\ \A k \in DOMAIN f.objs : k # num => g.objs[k] = f.objs[k] /\ g.home[k] = f.home[k]
               /\ g.home[num] = 0 /\ ObjectOK(g.objs[num], n) /\ g.objs[num].id = id
               /\ g.objs[num].kind = f.objs[num].kind /\ g.objs[num].crypt = f.objs[num].crypt
               /\ Says(id, v) = [text |-> g.objs[num].text, bytes |-> g.objs[num].bytes]
<1> DEFINE g == Changed(f, id, v)
           num == NumberOf(f, id)
           now == Says(id, v)
           o == f.objs[num]
           new == [o EXCEPT !.text = now.text, !.bytes = now.bytes]
<1>1. num \in DOMAIN f.objs /\ o.id = id /\ ObjectOK(o, n)
  BY NumberIs DEF FileOK
<1>2. PICK t, b \in Int : now = [text |-> Plain(t), bytes |-> Plain(b)]
  BY SaysPlain
<1>3. now.text \in Cells(n) /\ now.bytes \in Cells(n) /\ now = [text |-> now.text, bytes |-> now.bytes]
  BY <1>2, PlainCells
<1>4. DOMAIN f = FileFields /\ DOMAIN f.home = DOMAIN f.objs
  BY DEF FileOK, FileFields
<1>5. g = [f EXCEPT !.objs[num] = new, !.home[num] = 0]
  BY DEF Changed
<1> HIDE DEF num, now
<1>6. /\ DOMAIN new = DOMAIN o /\ new.text = now.text /\ new.bytes = now.bytes
      /\ new.id = o.id /\ new.kind = o.kind /\ new.crypt = o.crypt
  BY <1>1 DEF ObjectOK
<1>7. ObjectOK(new, n)
  BY <1>1, <1>3, <1>6 DEF ObjectOK
<1> HIDE DEF new, g
<1>8. /\ DOMAIN g = FileFields /\ g.encrypt = f.encrypt /\ g.dict = f.dict /\ g.id = f.id /\ g.maker = f.maker
      /\ g.objs = [f.objs EXCEPT ![num] = new] /\ g.home = [f.home EXCEPT ![num] = 0]
  BY <1>4, <1>5 DEF FileFields
<1>9. /\ DOMAIN g.objs = DOMAIN f.objs /\ DOMAIN g.home = DOMAIN f.objs
      /\ g.objs[num] = new /\ g.home[num] = 0
      /\ \A k \in DOMAIN f.objs : k # num => g.objs[k] = f.objs[k] /\ g.home[k] = f.home[k]
  BY <1>1, <1>4, <1>8
<1> QED
  BY <1>1, <1>3, <1>6, <1>7, <1>8, <1>9 DEF g, num, now

(* A revision leaves a file as sound as it was, and says the new version.   *)
LEMMA UpdateKeeps ==
    ASSUME NEW f, NEW n \in Nat, NEW h \in Holders, NEW t \in [Ids -> Int], NEW b \in BOOLEAN,
           FileInv(f, n, h, t, b),
           NEW pw \in Passwords, opened(f, pw).state = "open", ~opened(f, pw).ctx.encrypted,
           NEW id \in Ids
    PROVE  FileInv(Changed(f, id, t[id] + 1), n + 1, h, [t EXCEPT ![id] = @ + 1], b \/ f.encrypt # 0)
<1> DEFINE v == t[id] + 1
           g == Changed(f, id, v)
           num == NumberOf(f, id)
           t1 == [t EXCEPT ![id] = @ + 1]
           b1 == b \/ f.encrypt # 0
           R == Rightful(f)
<1>1. FileOK(f, n) /\ Understood(f) /\ (f.encrypt # 0 => Exposed(f) /\ MadeFor(f, h))
  BY OpenReads DEF FileInv
<1>2. f.maker = "oxide" => f.encrypt = 0
  BY <1>1 DEF FileInv, Exposed
<1>3. \A j \in Ids : ReadOK(f, j, t[j], b)
  BY <1>1 DEF FileInv
<1>4. v \in Int /\ t1[id] = v /\ \A j \in Ids : j # id => t1[j] = t[j]
  OBVIOUS
<1> HIDE DEF v, t1
<1>5. /\ DOMAIN g = FileFields /\ g.encrypt = f.encrypt /\ g.dict = f.dict /\ g.id = f.id
      /\ g.maker = f.maker /\ DOMAIN g.objs = DOMAIN f.objs /\ DOMAIN g.home = DOMAIN f.objs
      /\ num \in DOMAIN f.objs
      /\ \A k \in DOMAIN f.objs : k # num => g.objs[k] = f.objs[k] /\ g.home[k] = f.home[k]
      /\ g.home[num] = 0 /\ ObjectOK(g.objs[num], n) /\ g.objs[num].id = id
      /\ g.objs[num].kind = f.objs[num].kind /\ g.objs[num].crypt = f.objs[num].crypt
      /\ Says(id, v) = [text |-> g.objs[num].text, bytes |-> g.objs[num].bytes]
  BY <1>1, <1>4, ChangedIs
<1>6. f.objs[num].id = id /\ f.objs[num].kind \notin {"xref", "objstm"}
  BY <1>1, NumberIs
<1> HIDE DEF g, num
<1>7. \A k \in DOMAIN f.objs : /\ g.objs[k].id = f.objs[k].id /\ g.objs[k].kind = f.objs[k].kind
                               /\ g.objs[k].crypt = f.objs[k].crypt
  BY <1>5, <1>6
<1>8. \A k \in DOMAIN f.objs : ObjectOK(g.objs[k], n + 1)
  <2>1. \A k \in DOMAIN f.objs : ObjectOK(g.objs[k], n)
    BY <1>1, <1>5 DEF FileOK
  <2> QED
    BY <2>1, CellsGrow DEF ObjectOK
<1>9. FileOK(g, n + 1)
  <2>1. /\ DOMAIN g = {"objs", "home", "encrypt", "dict", "id", "maker"} /\ g.id \in 0 .. n + 1
        /\ DOMAIN g.objs \subseteq Nat \ {0} /\ DOMAIN g.home = DOMAIN g.objs
        /\ \E top \in DOMAIN g.objs : \A k \in DOMAIN g.objs : k <= top
        /\ g.encrypt \in {0} \cup DOMAIN g.objs
    BY <1>1, <1>5 DEF FileOK, FileFields
  <2>2. ASSUME NEW k \in DOMAIN g.objs, g.home[k] # 0
        PROVE  /\ g.home[k] \in DOMAIN g.objs /\ g.objs[k].kind \notin Streams
               /\ g.objs[g.home[k]].kind = "objstm" /\ g.objs[g.home[k]].crypt = Absent
    <3>1. k \in DOMAIN f.objs /\ g.home[k] = f.home[k] /\ f.home[k] # 0
      BY <1>5, <2>2
    <3>2. /\ f.home[k] \in DOMAIN f.objs /\ f.objs[k].kind \notin Streams
          /\ f.objs[f.home[k]].kind = "objstm" /\ f.objs[f.home[k]].crypt = Absent
      BY <1>1, <3>1 DEF FileOK
    <3> QED
      BY <1>5, <1>7, <3>1, <3>2
  <2>3. ASSUME NEW j \in Ids
        PROVE  \E k \in DOMAIN g.objs :
                 /\ g.objs[k].id = j /\ g.objs[k].kind \notin {"xref", "objstm"}
                 /\ \A i \in DOMAIN g.objs : g.objs[i].id = j => i = k
    <3>1. PICK k \in DOMAIN f.objs :
            /\ f.objs[k].id = j /\ f.objs[k].kind \notin {"xref", "objstm"}
            /\ \A i \in DOMAIN f.objs : f.objs[i].id = j => i = k
      BY <1>1 DEF FileOK
    <3> QED
      BY <1>5, <1>7, <3>1
  <2> QED
    BY <1>5, <1>8, <2>1, <2>2, <2>3 DEF FileOK
<1>10. Understood(g) /\ (g.encrypt # 0 => MadeFor(g, h)) /\ Rightful(g) = R
  <2>1. Understood(g)
    BY <1>1, <1>5 DEF Understood, FileOK
  <2>2. MadeFor(f, h) => MadeFor(g, h)
    BY <1>5 DEF MadeFor
  <2>3. Rightful(g) = R
    BY <1>5 DEF Rightful
  <2> QED
    BY <1>1, <1>5, <2>1, <2>2, <2>3
<1> HIDE DEF R
<1>11. ASSUME NEW j \in Ids
       PROVE  ReadOK(g, j, t1[j], b1)
  <2> DEFINE k == NumberOf(f, j)
  <2>1. k \in DOMAIN f.objs /\ f.objs[k].id = j /\ ReadOK(f, j, t[j], b)
    BY <1>1, <1>3, NumberIs
  <2>2. NumberOf(g, j) = k
    <3>1. /\ NumberOf(g, j) \in DOMAIN g.objs
          /\ \A i \in DOMAIN g.objs : g.objs[i].id = j => i = NumberOf(g, j)
      BY <1>9, NumberIs
    <3> QED
      BY <1>5, <1>7, <2>1, <3>1
  <2>3. CASE j # id
    <3>1. k # num
      BY <1>6, <2>1, <2>3
    <3> HIDE DEF k
    <3>2. g.objs[k] = f.objs[k] /\ g.home[k] = f.home[k] /\ t1[j] = t[j]
      BY <1>4, <1>5, <2>1, <2>3, <3>1
    <3>3. f.home[k] # 0 => g.objs[f.home[k]] = f.objs[f.home[k]]
      <4>1. f.home[k] # 0 => f.home[k] \in DOMAIN f.objs /\ f.objs[f.home[k]].kind = "objstm"
        BY <1>1, <2>1 DEF FileOK
      <4> QED
        BY <1>5, <1>6, <4>1
    <3>4. Holds(f, R, j, t[j]) => Holds(g, R, j, t1[j])
      <4>1. get_object(g, R, k) = get_object(f, R, k)
        BY <3>2 DEF get_object
      <4>2. Readable(f, R, k) => Readable(g, R, k)
        BY <3>2, <3>3 DEF Readable
      <4> QED
        BY <2>2, <3>2, <4>1, <4>2 DEF Holds, k
    <3> QED
      BY <1>5, <1>10, <2>1, <2>2, <3>2, <3>4 DEF ReadOK, R, k
  <2>4. CASE j = id
    <3> DEFINE o == g.objs[num]
               p == get_object(g, R, num)
    <3>1. k = num /\ t1[j] = v
      BY <1>4, <2>4 DEF num
    <3>2. Readable(g, R, num) /\ p = decrypt_object(o, num, R)
      BY <1>5 DEF Readable, get_object
    <3>3. Says(j, v) = [text |-> o.text, bytes |-> o.bytes] /\ ObjectOK(o, n)
      BY <1>5, <2>4
    <3>4. CASE f.encrypt = 0
      <4>1. R = NoContext
        BY <3>4 DEF R, Rightful
      <4>2. p = o
        BY <3>2, <4>1, ClearContext
      <4>3. CASE o.crypt \in {Absent, "Identity"}
        <5>1. Decodes(p, R)
          BY <4>2, <4>3 DEF Decodes
        <5>2. Holds(g, R, j, v)
          BY <2>2, <3>1, <3>2, <3>3, <4>2, <5>1 DEF Holds
        <5> QED
          BY <1>10, <3>1, <5>2 DEF ReadOK, R
      <4>4. CASE o.crypt \notin {Absent, "Identity"}
        <5>1. ~Holds(f, R, j, t[j])
          <6>1. get_object(f, R, k) = f.objs[k]
            BY <4>1, ClearContext DEF get_object
          <6>2. ~Decodes(f.objs[k], R)
            BY <1>5, <3>1, <4>1, <4>4 DEF Decodes, NoContext
          <6> QED
            BY <6>1, <6>2 DEF Holds
        <5>2. (Special(f.objs[k]) /\ b) \/ f.maker = "oxide"
          BY <2>1, <5>1 DEF ReadOK, R
        <5>3. Special(o) /\ o.crypt # Absent
          BY <4>4 DEF Special
        <5> QED
          BY <1>5, <2>2, <3>1, <5>2, <5>3 DEF ReadOK
      <4> QED
        BY <4>3, <4>4
    <3>5. CASE f.encrypt # 0
      <4>1. CASE Special(o)
        BY <2>2, <3>1, <3>5, <4>1 DEF ReadOK
      <4>2. CASE ~Special(o)
        <5>1. o.kind # "embedded" /\ o.crypt \in {Absent, "Identity"}
          BY <4>2 DEF Special
        <5> HIDE DEF o, p
        <5>2. p.text = o.text /\ p.bytes = o.bytes /\ p.crypt = o.crypt
          BY <1>1, <3>2, <3>3, <3>5, <5>1, ExposedObject DEF R
        <5>3. Decodes(p, R)
          BY <5>1, <5>2 DEF Decodes
        <5>4. Holds(g, R, j, v)
          BY <2>2, <3>1, <3>2, <3>3, <5>2, <5>3 DEF Holds, p
        <5> QED
          BY <1>10, <3>1, <5>4 DEF ReadOK, R
      <4> QED
        BY <4>1, <4>2
    <3> QED
      BY <3>4, <3>5
  <2> QED
    BY <2>3, <2>4
<1>12. FileInv(g, n + 1, h, t1, b1)
  <2>1. g.maker = "oxide" => g.encrypt = 0
    BY <1>2, <1>5
  <2> HIDE DEF b1
  <2> QED
    BY <1>9, <1>10, <1>11, <2>1 DEF FileInv
<1> QED
  BY <1>12 DEF g, v, t1

-----------------------------------------------------------------------------
(* The invariant holds of every file to start from.                         *)
LEMMA IInvInit == Init => IInv
<1> SUFFICES ASSUME Init PROVE IInv
  OBVIOUS
<1>1. PICK original \in Originals : file = original.file /\ holders = original.holders
  BY DEF Init
<1>2. /\ original.holders \in Holders
      /\ FileOK(file, 0) /\ file.maker # "oxide"
      /\ Understood(file) =>
           /\ file.encrypt # 0 => MadeFor(file, holders)
           /\ \A id \in Ids : Holds(file, Rightful(file), id, 1)
  BY <1>1, OriginalsAssumption DEF Holders
<1>3. truth = [id \in Ids |-> 1] /\ blind = FALSE /\ calls = 0 /\ session = Closed
  BY DEF Init
<1>4. MaxCalls \in Nat /\ MaxVersion \in Nat \ {0}
  BY EncryptionAssumption
<1>5. calls \in 0 .. MaxCalls /\ blind \in BOOLEAN /\ truth \in [Ids -> 1 .. MaxVersion] /\ holders \in Holders
  <2>1. blind \in BOOLEAN
    BY <1>3
  <2>2. truth \in [Ids -> 1 .. MaxVersion]
    <3>1. 1 \in 1 .. MaxVersion
      BY <1>4
    <3> QED
      BY <1>3, <3>1
  <2>3. calls \in 0 .. MaxCalls
    BY <1>3, <1>4
  <2>4. holders \in Holders
    BY <1>1, <1>2
  <2> QED
    BY <2>1, <2>2, <2>3, <2>4
<1>6. Understood(file) => \A id \in Ids : ReadOK(file, id, truth[id], blind)
  BY <1>2, <1>3 DEF ReadOK
<1>7. FileInv(file, calls, holders, truth, blind)
  BY <1>2, <1>3, <1>6 DEF FileInv
<1>8. SessionInv(session, file)
  BY <1>3 DEF SessionInv
<1> QED
  BY <1>5, <1>7, <1>8 DEF IInv

(* An open session is the reader that opening the file now would give.      *)
LEMMA SessionIs ==
    ASSUME NEW s, NEW f, SessionInv(s, f), s # Closed
    PROVE  \E pw \in Passwords : s = opened(f, pw)
BY DEF SessionInv

(* A closed session is as it is defined.                                    *)
LEMMA ClosedIs == Closed.state = "closed" /\ Closed.password = NoPassword
BY DEF Closed

(* Every step keeps the invariant.                                          *)
LEMMA IInvStep == IInv /\ [Next]_vars => IInv'
<1> SUFFICES ASSUME IInv, [Next]_vars PROVE IInv'
  OBVIOUS
<1>1. /\ calls \in 0 .. MaxCalls /\ blind \in BOOLEAN /\ truth \in [Ids -> 1 .. MaxVersion] /\ holders \in Holders
      /\ FileInv(file, calls, holders, truth, blind) /\ SessionInv(session, file)
      /\ MaxCalls \in Nat /\ MaxVersion \in Nat \ {0} /\ calls \in Nat /\ truth \in [Ids -> Int]
  <2>1. MaxCalls \in Nat /\ MaxVersion \in Nat \ {0}
    BY EncryptionAssumption
  <2> QED
    BY <2>1 DEF IInv
<1>2. ASSUME NEW password \in Passwords, Open(password)
      PROVE  IInv'
  <2>1. session' = opened(file, password) /\ UNCHANGED <<file, truth, holders, blind, calls>>
    BY <1>2 DEF Open
  <2>2. SessionInv(session', file')
    BY <2>1 DEF SessionInv
  <2> QED
    BY <1>1, <2>1, <2>2 DEF IInv
<1>3. CASE Close
  <2>1. session' = Closed /\ UNCHANGED <<file, truth, holders, blind, calls>>
    BY <1>3 DEF Close
  <2>2. SessionInv(session', file')
    BY <2>1 DEF SessionInv
  <2> QED
    BY <1>1, <2>1, <2>2 DEF IInv
<1>4. ASSUME NEW f, Saved(f)
      PROVE  /\ \E pw \in Passwords : session = opened(file, pw) /\ opened(file, pw).state = "open"
             /\ calls + 1 \in 0 .. MaxCalls /\ calls' = calls + 1 /\ file' = f
             /\ SessionInv(session', file')
             /\ blind' = (blind \/ (file.encrypt # 0 /\ ~session.ctx.encrypted)) /\ blind' \in BOOLEAN
  <2>1. /\ session.state = "open" /\ calls < MaxCalls /\ file' = f /\ session' = Closed
        /\ blind' = (blind \/ (file.encrypt # 0 /\ ~session.ctx.encrypted)) /\ calls' = calls + 1
    BY <1>4 DEF Saved, Locked
  <2>2. session # Closed
    BY <2>1, ClosedIs
  <2>3. SessionInv(session', file')
    BY <2>1 DEF SessionInv
  <2>4. blind' \in BOOLEAN
    BY <2>1
  <2> QED
    BY <1>1, <2>1, <2>2, <2>3, <2>4, SessionIs
<1>5. ASSUME NEW p \in Params, NEW mode \in Modes, Encrypt(p, mode)
      PROVE  IInv'
  <2> DEFINE n == calls + 1
             state == build_encryption(p, n)
             w == write(rewrite_document_objects(file, session.ctx), state, mode, n)
  <2>1. Saved(w) /\ holders' = Requester(p) /\ truth' = truth
    BY <1>5 DEF Encrypt, Requester
  <2>2. PICK pw \in Passwords : session = opened(file, pw) /\ opened(file, pw).state = "open"
    BY <1>4, <2>1
  <2>3. /\ calls' = n /\ n \in 0 .. MaxCalls /\ file' = w /\ SessionInv(session', file')
        /\ blind' = (blind \/ (file.encrypt # 0 /\ ~session.ctx.encrypted)) /\ blind' \in BOOLEAN
    BY <1>4, <2>1
  <2>4. n \in Nat /\ n # 0 /\ n \in 0 .. n
    BY <1>1
  <2>5. IsBuilt(state, n, Requester(p)) /\ Requester(p) \in Holders
    BY <2>4, Built
  <2> HIDE DEF state
  <2>6. FileInv(w, calls + 1, Requester(p), truth, blind \/ (file.encrypt # 0 /\ ~session.ctx.encrypted))
    <3> DEFINE ctx == opened(file, pw).ctx
               g == write(rewrite_document_objects(file, ctx), state, mode, calls + 1)
               h == Requester(p)
    <3>1. h \in Holders /\ IsBuilt(state, calls + 1, h) /\ calls + 1 \in 0 .. calls + 1
      BY <2>4, <2>5
    <3> HIDE DEF h
    <3>2. FileInv(g, calls + 1, h, truth, blind \/ (file.encrypt # 0 /\ ~ctx.encrypted))
      BY <1>1, <2>2, <3>1, RewriteKeeps
    <3>3. w = g /\ session.ctx = ctx
      BY <2>2
    <3> QED
      BY <3>2, <3>3 DEF h
  <2> HIDE DEF w
  <2>7. FileInv(file', calls', holders', truth', blind')
    BY <2>1, <2>3, <2>6
  <2> QED
    BY <1>1, <2>1, <2>3, <2>5, <2>7 DEF IInv
<1>6. ASSUME NEW mode \in Modes, Rewrite(mode)
      PROVE  IInv'
  <2> DEFINE n == calls + 1
             h == [user |-> NoPassword, owner |-> NoPassword]
             id == file.id
             w == write(rewrite_document_objects(file, session.ctx), NoState, mode, id)
  <2>1. Saved(w) /\ holders' = h /\ truth' = truth
    BY <1>6 DEF Rewrite
  <2>2. PICK pw \in Passwords : session = opened(file, pw) /\ opened(file, pw).state = "open"
    BY <1>4, <2>1
  <2>3. /\ calls' = n /\ n \in 0 .. MaxCalls /\ file' = w /\ SessionInv(session', file')
        /\ blind' = (blind \/ (file.encrypt # 0 /\ ~session.ctx.encrypted)) /\ blind' \in BOOLEAN
    BY <1>4, <2>1
  <2>4. id \in 0 .. calls + 1
    BY <1>1 DEF FileInv, FileOK
  <2>5. h \in Holders
    BY EncryptionAssumption DEF Holders
  <2> HIDE DEF h, id
  <2>6. FileInv(w, calls + 1, h, truth, blind \/ (file.encrypt # 0 /\ ~session.ctx.encrypted))
    <3> DEFINE ctx == opened(file, pw).ctx
               g == write(rewrite_document_objects(file, ctx), NoState, mode, id)
    <3>1. FileInv(g, calls + 1, h, truth, blind \/ (file.encrypt # 0 /\ ~ctx.encrypted))
      BY <1>1, <2>2, <2>4, RewriteKeeps
    <3>2. w = g /\ session.ctx = ctx
      BY <2>2
    <3> QED
      BY <3>1, <3>2
  <2> HIDE DEF w
  <2>7. FileInv(file', calls', holders', truth', blind')
    BY <2>1, <2>3, <2>6
  <2> QED
    BY <1>1, <2>1, <2>3, <2>5, <2>7 DEF IInv
<1>7. ASSUME NEW id \in Ids, Update(id)
      PROVE  IInv'
  <2> DEFINE n == calls + 1
             v == truth[id] + 1
             w == Changed(file, id, v)
             t == [truth EXCEPT ![id] = @ + 1]
  <2>1. Saved(w) /\ holders' = holders /\ truth' = t /\ ~session.ctx.encrypted /\ truth[id] < MaxVersion
    BY <1>7 DEF Update, Changed
  <2>2. PICK pw \in Passwords : session = opened(file, pw) /\ opened(file, pw).state = "open"
    BY <1>4, <2>1
  <2>3. /\ calls' = n /\ n \in 0 .. MaxCalls /\ file' = w /\ SessionInv(session', file')
        /\ blind' = (blind \/ (file.encrypt # 0 /\ ~session.ctx.encrypted)) /\ blind' \in BOOLEAN
    BY <1>4, <2>1
  <2>4. t \in [Ids -> 1 .. MaxVersion]
    BY <1>1, <2>1
  <2>5. ~opened(file, pw).ctx.encrypted
    BY <2>1, <2>2
  <2>6. FileInv(w, calls + 1, holders, t, blind \/ file.encrypt # 0)
    BY <1>1, <2>2, <2>5, UpdateKeeps
  <2>7. blind' = (blind \/ file.encrypt # 0)
    BY <2>1, <2>3
  <2> HIDE DEF w, t
  <2>8. FileInv(file', calls', holders', truth', blind')
    BY <2>1, <2>3, <2>6, <2>7
  <2> QED
    BY <1>1, <2>1, <2>3, <2>4, <2>8 DEF IInv
<1>8. CASE UNCHANGED vars
  BY <1>1, <1>8 DEF vars, IInv
<1> QED
  BY <1>2, <1>3, <1>5, <1>6, <1>7, <1>8 DEF Next

(* The invariant holds throughout: whatever files are opened, rewritten, edited *)
(* and enciphered again, the file's keys are its holders', its cells are sealed *)
(* once it is enciphered, and an open reader is one of those the file gives. *)
THEOREM EncryptionHolds == Spec => []IInv
<1> QED
  BY IInvInit, IInvStep, PTL DEF Spec

(* Readers and files have their form; every object of the document has exactly *)
(* one number, and no number refers to an object stream that is not there (the *)
(* writer allots numbers in write_modern, the rewriter in its remap).       *)
THEOREM TypeCorrect == Spec => []TypeOK
<1>1. IInv => TypeOK
  <2> SUFFICES ASSUME IInv PROVE TypeOK
    OBVIOUS
  <2>1. /\ calls \in 0 .. MaxCalls /\ blind \in BOOLEAN /\ truth \in [Ids -> 1 .. MaxVersion] /\ holders \in Holders
        /\ FileOK(file, calls) /\ SessionInv(session, file) /\ FileInv(file, calls, holders, truth, blind)
    BY DEF IInv, FileInv
  <2>2. session.state \in {"closed", "open", "refused"} /\ session.password \in Passwords
    <3>1. CASE session = Closed
      BY <3>1, ClosedIs, EncryptionAssumption
    <3>2. CASE session # Closed
      <4>1. PICK pw \in Passwords : session = opened(file, pw)
        BY <2>1, <3>2, SessionIs
      <4>2. Understood(file) /\ file.encrypt # 0 => MadeFor(file, holders)
        BY <2>1 DEF FileInv
      <4>3. opened(file, pw).state \in {"open", "refused"} /\ opened(file, pw).password = pw
        BY <2>1, <4>2, OpenedIs
      <4> QED
        BY <4>1, <4>3
    <3> QED
      BY <3>1, <3>2
  <2>3. \A id \in Ids : Cardinality({n \in DOMAIN file.objs : file.objs[n].id = id}) = 1
    <3> SUFFICES ASSUME NEW id \in Ids
                 PROVE  Cardinality({n \in DOMAIN file.objs : file.objs[n].id = id}) = 1
      OBVIOUS
    <3> DEFINE k == NumberOf(file, id)
    <3>1. k \in DOMAIN file.objs /\ file.objs[k].id = id /\ \A j \in DOMAIN file.objs : file.objs[j].id = id => j = k
      BY <2>1, NumberIs
    <3> HIDE DEF k
    <3>2. {n \in DOMAIN file.objs : file.objs[n].id = id} = {k}
      BY <3>1
    <3> QED
      BY <3>2, FS_Singleton
  <2>4. /\ DOMAIN file.home = DOMAIN file.objs
        /\ \A n \in DOMAIN file.objs : file.home[n] # 0 => file.objs[file.home[n]].kind = "objstm"
        /\ file.encrypt \in {0} \cup DOMAIN file.objs
    BY <2>1 DEF FileOK
  <2> QED
    BY <2>1, <2>2, <2>3, <2>4 DEF TypeOK, Holders
<1> QED
  BY <1>1, EncryptionHolds, PTL

(* Once the writer has enciphered a file, everything in it but the dictionary and *)
(* xref streams is under its own object's key or in an object stream that is, *)
(* whatever modes and later saves there were (writer.rs).                   *)
THEOREM NothingIsInClear == Spec => []NothingInClear
<1>1. IInv => NothingInClear
  <2> SUFFICES ASSUME IInv, file.maker = "oxide", file.encrypt # 0,
                      NEW n \in DOMAIN file.objs \ {file.encrypt},
                      file.objs[n].kind # "xref", file.home[n] = 0
               PROVE  \A c \in {file.objs[n].text, file.objs[n].bytes} :
                        c = Empty \/ (c.under # <<>> /\ Last(c.under).num \in {0, n})
    BY DEF NothingInClear
  <2>1. AllSealed(file)
    BY DEF IInv, FileInv
  <2> QED
    BY <2>1 DEF AllSealed, SealedObject, SealedCell
<1> QED
  BY <1>1, EncryptionHolds, PTL

(* from_bytes_with_password opens a file with the passwords it was made for and *)
(* with no others, as far as the handler tells passwords apart (reader.rs). *)
THEOREM HoldersGetIn == Spec => []OpensForHolders
<1>1. IInv => OpensForHolders
  <2> SUFFICES ASSUME IInv, file.encrypt # 0
               PROVE  LET entitled == Entitled(file, holders, session.password)
                      IN  /\ session.state = "open" =>
                               \/ entitled /\ session.ctx.encrypted
                               \/ Locked /\ {Methods(file.dict).stream, Methods(file.dict).string} = {"None"}
                          /\ session.state = "refused" =>
                               ~entitled \/ file.home[file.encrypt] # 0 \/ ~Supported(file.dict)
    BY DEF OpensForHolders, Entitled
  <2>1. /\ holders \in Holders /\ SessionInv(session, file)
        /\ Understood(file) /\ file.encrypt # 0 => MadeFor(file, holders)
    BY DEF IInv, FileInv
  <2>2. CASE session = Closed
    BY <2>2, ClosedIs
  <2>3. CASE session # Closed
    <3>1. PICK pw \in Passwords : session = opened(file, pw)
      BY <2>1, <2>3, SessionIs
    <3>2. /\ session.password = pw
          /\ session.state = "open" =>
               \/ Entitled(file, holders, pw) /\ session.ctx.encrypted
               \/ Exposed(file) /\ ~session.ctx.encrypted
          /\ session.state = "refused" => (Understood(file) => ~Entitled(file, holders, pw))
      BY <2>1, <3>1, OpenedIs
    <3>3. Exposed(file) => {Methods(file.dict).stream, Methods(file.dict).string} = {"None"}
      BY DEF Exposed
    <3> QED
      BY <3>2, <3>3 DEF Locked, Understood
  <2> QED
    BY <2>2, <2>3
<1> QED
  BY <1>1, EncryptionHolds, PTL

(* Opening what was enciphered gives back what was last written, through every *)
(* sequence of rewrites, packings, revisions and new keys, with the two exceptions *)
(* that ReadsBack names.                                                    *)
THEOREM WhatWasWrittenIsRead == Spec => []ReadsBack
<1>1. IInv /\ TypeOK => ReadsBack
  <2> SUFFICES ASSUME IInv, TypeOK, session.state = "open", NEW id \in Ids
               PROVE  LET o == file.objs[NumberOf(file, id)]
                      IN  \/ (o.kind = "embedded" \/ o.crypt \notin {Absent, "Identity"}) /\ (Locked \/ blind)
                          \/ o.crypt # Absent /\ file.maker = "oxide"
                          \/ Holds(file, session.ctx, id, truth[id])
    BY DEF ReadsBack
  <2>1. /\ calls \in Nat /\ holders \in Holders /\ SessionInv(session, file)
        /\ FileInv(file, calls, holders, truth, blind)
    BY DEF IInv
  <2>2. session # Closed
    BY ClosedIs
  <2>3. PICK pw \in Passwords : session = opened(file, pw)
    BY <2>1, <2>2, SessionIs
  <2>4. Reads(file, session.ctx, id, truth[id], blind)
    BY <2>1, <2>3, OpenReads
  <2> QED
    BY <2>4 DEF Reads, Special, Locked
<1> QED
  BY <1>1, EncryptionHolds, TypeCorrect, PTL
=============================================================================
