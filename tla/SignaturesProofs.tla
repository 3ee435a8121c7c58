-------------------------- MODULE SignaturesProofs ---------------------------
(***************************************************************************)
(* Proofs about signing and verification, for every set of identities,     *)
(* anchors, certificates, material, reservations and original files, and   *)
(* any number of calls.                                                    *)
(*                                                                         *)
(* The invariant follows each signature from the file it is returned in    *)
(* (MadeOK: its byte range is that file but for a gap, the gap holds its   *)
(* blob and zeros, its digest is over the rest) through what the later     *)
(* calls make of that file (Past: they leave it the beginning of theirs,   *)
(* or they write the very first cell anew).  A verdict is then a matter of *)
(* comparing one file with another.                                        *)
(***************************************************************************)
EXTENDS Signatures, FiniteSetTheorems, SequenceTheorems, WellFoundedInduction, TLAPS

\* s is the beginning of t, cell by cell.
Begins(s, t) == Len(s) <= Len(t) /\ \A k \in 1 .. Len(s) : t[k] = s[k]

\* The records of the signatures made.
CmsRecords == [bytes : Seq(Cells), digest : Seq(Cells), cert : Certs,
               chain : {i.chain : i \in Identities}, timestamp : BOOLEAN]
MadeRecords == [cms : CmsRecords, file : Seq(Cells), revision : Nat]
FieldRecords == [range : Seq(Int), contents : Seq(Cells)]

\* If a full save wrote the first cell of s, it was one of the first n revisions.
FirstIsOld(s, n) ==
  s # <<>> /\ s[1].t = "rewritten" => \E m \in 1 .. n : s[1].v = <<m>>

\* The bytes s under sign_document's hands: the file f, then revision n with the
\* signature dictionary in it, whose /ByteRange is `range` and whose /Contents
\* has room for R bytes.
Laid(f, s, R, n, range) ==
  /\ s \in Seq(Cells)
  /\ Len(s) = Len(f) + R + Margin + 5
  /\ Begins(f, s)
  /\ s[Len(f) + 1] = Cell("revision", <<n>>)
  /\ s[Len(f) + 2] = Cell("range", range)
  /\ \A k \in 1 .. R + 2 : s[Len(f) + 2 + k] = contents_placeholder(R)[k]

\* All but the /Contents string.
Around(f, R) == <<0, Len(f) + 2, (Len(f) + 2) + (R + 2), Margin + 1>>

JobOK(j) == j.reserved \in Nat \ {0} /\ j.identity \in Identities /\ j.timestamp \in BOOLEAN

\* The blob of signature n over the bytes s.
CmsOK(c, s, range, R, n) ==
  /\ c \in CmsRecords
  /\ c.digest = extract_signed_bytes(s, range)
  /\ \E size \in 1 .. R, zero \in BOOLEAN : c.bytes = Der(n, size, zero)

Signing ==
  /\ pc \in {"idle", "staged", "ranged", "built"}
  /\ pc = "idle" => staged = <<>>
  /\ pc # "idle" => JobOK(job) /\ sig_at = Len(file) + 1 /\ revisions < calls
  /\ pc = "staged" => Laid(file, staged, job.reserved, revisions + 1, <<>>)
  /\ pc \in {"ranged", "built"} =>
       /\ byte_range = Around(file, job.reserved)
       /\ Laid(file, staged, job.reserved, revisions + 1, byte_range)
  /\ pc = "built" => CmsOK(cms, staged, byte_range, job.reserved, Len(made) + 1)

\* Signature f as it was returned: its range is all but a gap within the file, its
\* digest is over that range, and the gap holds its blob and zeros.
Gapped(m, sig) ==
  \E g \in 1 .. Len(m.file), n \in 1 .. Len(m.file) :
    g + n <= Len(m.file) /\ sig.range = <<0, g, g + n, Len(m.file) - (g + n)>>
Filled(f, m, sig) ==
  \E size \in 1 .. Len(sig.contents), zero \in BOOLEAN :
    /\ m.cms.bytes = Der(f, size, zero)
    /\ \A k \in 1 .. Len(sig.contents) :
         sig.contents[k] = IF k <= size THEN Der(f, size, zero)[k] ELSE Zero
MadeOK(f, m, sig, n) ==
  /\ Gapped(m, sig)
  /\ Filled(f, m, sig)
  /\ m.cms.digest = extract_signed_bytes(m.file, sig.range)
  /\ m.revision \in 1 .. n
  /\ FirstIsOld(m.file, n)

Newlines(s) == {k \in DOMAIN s : s[k].t = "newline"}

\* What became of the file a signature was returned in, n revisions after the
\* start: s begins with it and goes on with line ends or with revisions, or s was
\* written anew.
FollowedBy(m, s, n) ==
  /\ Begins(m.file, s)
  /\ m.revision = n =>
       /\ \A k \in Len(m.file) + 1 .. Len(s) : s[k].t = "newline"
       /\ Len(s) > Len(m.file) => Cardinality(Newlines(s)) <= Margin
  /\ m.revision # n => Len(s) > Len(m.file) + Margin
WrittenAnew(m, s) == Len(s) > 0 /\ s[1] # m.file[1]
Past(m, s, n) == FollowedBy(m, s, n) \/ WrittenAnew(m, s)

IInv ==
  /\ file \in Seq(Cells)
  /\ made \in Seq(MadeRecords)
  /\ fields \in Seq(FieldRecords) /\ Len(fields) = Len(made)
  /\ calls \in 0 .. MaxCalls /\ revisions \in 0 .. calls
  /\ FirstIsOld(file, revisions)
  /\ Signing
  /\ \A f \in 1 .. Len(made) : MadeOK(f, made[f], fields[f], revisions) /\ Past(made[f], file, revisions)
  /\ \A e \in dss.vri : e.crls = dss.crls

\* What is assumed of the constants.
LEMMA Constant ==
    /\ Reservations \subseteq Nat /\ PageCount \in Nat /\ CmsSize \in Nat \ {0}
    /\ MaxRangeField \in Nat \ {0} /\ MaxCalls \in Nat /\ Margin = 3
    /\ \A o \in Originals : o \in Seq(Cells) /\ \A k \in DOMAIN o : o[k].t # "rewritten"
    /\ \A i \in Identities : i.cert \in ToSet(i.chain)
    /\ \A m \in Materials : m.index \in Nat
BY SignaturesAssumption DEF Margin

\* The cells that occur in the model.
LEMMA CellParts == \A t, v : Cell(t, v).t = t /\ Cell(t, v).v = v
BY DEF Cell

\* They are cells.
LEMMA KnownCells ==
    /\ Zero \in Cells
    /\ Cell("<", <<>>) \in Cells /\ Cell(">", <<>>) \in Cells
    /\ Cell("range", <<>>) \in Cells /\ Cell("newline", <<>>) \in Cells
    /\ \A r \in Seq(Int) : Cell("range", r) \in Cells
    /\ \A n \in Int : Cell("revision", <<n>>) \in Cells /\ Cell("rewritten", <<n>>) \in Cells
    /\ \A m, n \in Int : Cell("byte", <<m, n>>) \in Cells
<1>1. <<>> \in Seq(Int) /\ (\A n \in Int : <<n>> \in Seq(Int)) /\ (\A m, n \in Int : <<m, n>> \in Seq(Int))
  OBVIOUS
<1>2. \A v \in Seq(Int) : /\ Cell("<", v) \in Cells /\ Cell(">", v) \in Cells
                          /\ Cell("range", v) \in Cells /\ Cell("newline", v) \in Cells
                          /\ Cell("revision", v) \in Cells /\ Cell("rewritten", v) \in Cells
                          /\ Cell("byte", v) \in Cells
  BY DEF Cell, Cells, CellKinds
<1>3. Zero \in Cells
  <2>1. <<0>> \in Seq(Int)
    OBVIOUS
  <2> QED
    BY <1>2, <2>1 DEF Zero
<1> QED
  BY <1>1, <1>2, <1>3

\* Two sequences in a row.
IsJoin(r, s, t) ==
  /\ r \in Seq(Cells) /\ Len(r) = Len(s) + Len(t)
  /\ \A i \in 1 .. Len(s) + Len(t) : r[i] = IF i <= Len(s) THEN s[i] ELSE t[i - Len(s)]

\* The concatenation of two files is one after the other.
LEMMA Joined == \A s, t \in Seq(Cells) : IsJoin(s \o t, s, t)
<1> TAKE s, t \in Seq(Cells)
<1> QED
  BY ConcatProperties DEF IsJoin

\* A beginning is a prefix.
LEMMA BeginsIsPrefix ==
    ASSUME NEW s \in Seq(Cells), NEW t \in Seq(Cells)
    PROVE  IsPrefix(s, t) <=> Begins(s, t)
<1>1. CASE Len(s) <= Len(t)
  <2>1. SubSeq(s, 1, Len(s)) = s
    OBVIOUS
  <2>2. SubSeq(t, 1, Len(s)) \in Seq(Cells) /\ Len(SubSeq(t, 1, Len(s))) = Len(s)
        /\ \A k \in 1 .. Len(s) : SubSeq(t, 1, Len(s))[k] = t[k]
    BY <1>1
  <2>3. SubSeq(t, 1, Len(s)) = s <=> \A k \in 1 .. Len(s) : t[k] = s[k]
    BY <2>2
  <2> DEFINE a == SubSeq(s, 1, Len(s))
             b == SubSeq(t, 1, Len(s))
  <2>4. IsPrefix(s, t) <=> a = b
    BY <1>1 DEF IsPrefix
  <2>5. Begins(s, t) <=> b = a
    BY <1>1, <2>1, <2>3 DEF Begins
  <2> HIDE DEF a, b
  <2> QED
    BY <2>4, <2>5
<1>2. CASE ~(Len(s) <= Len(t))
  BY <1>2 DEF IsPrefix, Begins
<1> QED
  BY <1>1, <1>2

\* Beginning with a file is reflexive and transitive, and an appended file
\* begins with the one before.
LEMMA BeginsAll ==
    /\ \A s \in Seq(Cells) : Begins(s, s)
    /\ \A s, t \in Seq(Cells) : Begins(s, s \o t)
    /\ \A s, t, u \in Seq(Cells) : Begins(s, t) /\ Begins(t, u) => Begins(s, u)
BY DEF Begins

\* The cells from an offset on.
LEMMA AtCells ==
    ASSUME NEW s \in Seq(Cells), NEW o \in Nat, NEW n \in Nat, o + n <= Len(s)
    PROVE  /\ At(s, o, n) \in Seq(Cells) /\ Len(At(s, o, n)) = n
           /\ \A i \in 1 .. n : At(s, o, n)[i] = s[o + i]
<1>1. /\ SubSeq(s, o + 1, o + n) \in Seq(Cells) /\ Len(SubSeq(s, o + 1, o + n)) = n
      /\ \A i \in 1 .. n : SubSeq(s, o + 1, o + n)[i] = s[o + i]
  OBVIOUS
<1> QED
  BY <1>1 DEF At

\* A patch replaces the cells it covers and leaves the others.
LEMMA PatchedCells ==
    ASSUME NEW s \in Seq(Cells), NEW o \in Nat, NEW c \in Seq(Cells)
    PROVE  /\ Patched(s, o, c) \in Seq(Cells) /\ Len(Patched(s, o, c)) = Len(s)
           /\ \A k \in 1 .. Len(s) : Patched(s, o, c)[k] =
                IF k > o /\ k <= o + Len(c) THEN c[k - o] ELSE s[k]
<1>1. \A k \in 1 .. Len(s) : k - o \in DOMAIN c <=> k > o /\ k <= o + Len(c)
  OBVIOUS
<1> DEFINE p == [k \in 1 .. Len(s) |-> IF k - o \in DOMAIN c THEN c[k - o] ELSE s[k]]
<1>2. Patched(s, o, c) = p
  BY DEF Patched
<1>3. \A k \in 1 .. Len(s) : p[k] \in Cells
  <2>1. \A k \in 1 .. Len(s) : s[k] \in Cells
    OBVIOUS
  <2>2. \A k \in DOMAIN c : c[k] \in Cells
    OBVIOUS
  <2> QED
    BY <2>1, <2>2
<1>4. p \in Seq(Cells) /\ Len(p) = Len(s)
  BY <1>3
<1> QED
  BY <1>1, <1>2, <1>4

\* A cell over and over.
LEMMA RepeatCells ==
    ASSUME NEW c \in Cells, NEW n \in Nat
    PROVE  /\ Repeat(c, n) \in Seq(Cells) /\ Len(Repeat(c, n)) = n
           /\ \A k \in 1 .. n : Repeat(c, n)[k] = c
BY DEF Repeat

\* The placeholder of /Contents: its reserved bytes are zero.
LEMMA PlaceholderCells ==
    ASSUME NEW n \in Nat
    PROVE  /\ contents_placeholder(n) \in Seq(Cells) /\ Len(contents_placeholder(n)) = n + 2
           /\ \A k \in 1 .. n : contents_placeholder(n)[k + 1] = Zero
<1>1. /\ <<Cell("<", <<>>)>> \in Seq(Cells) /\ Len(<<Cell("<", <<>>)>>) = 1
      /\ <<Cell(">", <<>>)>> \in Seq(Cells) /\ Len(<<Cell(">", <<>>)>>) = 1
  <2>1. Cell("<", <<>>) \in Cells /\ Cell(">", <<>>) \in Cells
    BY KnownCells
  <2> QED
    BY <2>1
<1>2. /\ Repeat(Zero, n) \in Seq(Cells) /\ Len(Repeat(Zero, n)) = n
      /\ \A k \in 1 .. n : Repeat(Zero, n)[k] = Zero
  BY RepeatCells, KnownCells
<1> DEFINE a == <<Cell("<", <<>>)>>
           b == Repeat(Zero, n)
           c == <<Cell(">", <<>>)>>
<1>3. contents_placeholder(n) = a \o b \o c
  BY DEF contents_placeholder
<1> HIDE DEF a, b, c
<1>4. a \in Seq(Cells) /\ b \in Seq(Cells) /\ c \in Seq(Cells) /\ Len(a) = 1 /\ Len(b) = n /\ Len(c) = 1
  BY <1>1, <1>2 DEF a, b, c
<1> DEFINE ab == a \o b
           abc == ab \o c
<1>j. IsJoin(ab, a, b)
  BY <1>4, Joined
<1> HIDE DEF ab
<1>5. ab \in Seq(Cells) /\ Len(ab) = n + 1 /\ \A k \in 1 .. n : ab[1 + k] = b[k]
  BY <1>4, <1>j DEF IsJoin
<1>k. IsJoin(abc, ab, c)
  BY <1>4, <1>5, Joined
<1> HIDE DEF abc
<1>6. /\ abc \in Seq(Cells) /\ Len(abc) = n + 2
      /\ \A k \in 1 .. n + 1 : abc[k] = ab[k]
  BY <1>4, <1>5, <1>k DEF IsJoin
<1>7. \A k \in 1 .. n : abc[k + 1] = Zero
  <2>1. \A k \in 1 .. n : k + 1 \in 1 .. n + 1 /\ k + 1 = 1 + k
    OBVIOUS
  <2> QED
    BY <1>2, <1>5, <1>6, <2>1 DEF b
<1> QED
  BY <1>3, <1>6, <1>7 DEF ab, abc

\* A revision that holds no signature.
LEMMA RevisionCells ==
    ASSUME NEW n \in Nat
    PROVE  /\ PlainRevision(n) \in Seq(Cells) /\ Len(PlainRevision(n)) = Margin + 1
           /\ \A k \in 1 .. Margin + 1 : PlainRevision(n)[k] = Cell("revision", <<n>>)
<1>1. Cell("revision", <<n>>) \in Cells
  BY KnownCells
<1>2. Margin + 1 \in Nat
  BY Constant
<1> QED
  BY <1>1, <1>2, RepeatCells DEF PlainRevision

\* A revision that holds a signature: the placeholders lie behind its first
\* cell.
LEMMA SignedCells ==
    ASSUME NEW o, o.reserved \in Nat, NEW n \in Nat
    PROVE  LET r == SignedRevision(o, n)
               m == contents_placeholder(o.reserved)
           IN  /\ r \in Seq(Cells) /\ Len(r) = o.reserved + Margin + 5
               /\ r[1] = Cell("revision", <<n>>)
               /\ r[2] = Cell("range", <<>>)
               /\ \A k \in 1 .. o.reserved + 2 : r[2 + k] = m[k]
<1> DEFINE m == contents_placeholder(o.reserved)
           a == <<Cell("revision", <<n>>)>>
           b == RangePlaceholder
           p == PlainRevision(n)
<1>1. a \in Seq(Cells) /\ Len(a) = 1 /\ a[1] = Cell("revision", <<n>>)
  <2>1. <<n>> \in Seq(Int)
    OBVIOUS
  <2>2. Cell("revision", <<n>>) \in Cells
    BY <2>1, KnownCells
  <2> QED
    BY <2>2
<1>2. b \in Seq(Cells) /\ Len(b) = 1 /\ b[1] = Cell("range", <<>>)
  <2>1. Cell("range", <<>>) \in Cells
    BY KnownCells
  <2> QED
    BY <2>1 DEF RangePlaceholder
<1>3. m \in Seq(Cells) /\ Len(m) = o.reserved + 2
  BY PlaceholderCells
<1>4. p \in Seq(Cells) /\ Len(p) = Margin + 1 /\ Margin = 3
  BY RevisionCells, Constant
<1>5. SignedRevision(o, n) = ((a \o b) \o m) \o p
  BY DEF SignedRevision
<1> HIDE DEF m, a, b, p
<1> DEFINE ab == a \o b
           abm == ab \o m
           r == abm \o p
<1>i. IsJoin(ab, a, b)
  BY <1>1, <1>2, Joined
<1> HIDE DEF ab
<1>6. ab \in Seq(Cells) /\ Len(ab) = 2 /\ ab[1] = a[1] /\ ab[2] = b[1]
  BY <1>1, <1>2, <1>i DEF IsJoin
<1>j. IsJoin(abm, ab, m)
  BY <1>3, <1>6, Joined
<1> HIDE DEF abm
<1>7. /\ abm \in Seq(Cells) /\ Len(abm) = o.reserved + 4 /\ abm[1] = a[1] /\ abm[2] = b[1]
      /\ \A k \in 1 .. o.reserved + 2 : abm[2 + k] = m[k]
  <2>1. \A N \in Nat : 2 + (N + 2) = N + 4
    OBVIOUS
  <2>2. Len(ab) + Len(m) = o.reserved + 4
    BY <1>3, <1>6, <2>1
  <2>3. abm \in Seq(Cells) /\ Len(abm) = o.reserved + 4
    BY <1>j, <2>2 DEF IsJoin
  <2>4. \A i \in 1 .. o.reserved + 4 : abm[i] = IF i <= 2 THEN ab[i] ELSE m[i - 2]
    BY <1>6, <1>j, <2>2 DEF IsJoin
  <2>5. \A N \in Nat : /\ \A k \in 1 .. N + 2 : 2 + k \in 1 .. N + 4 /\ ~(2 + k <= 2) /\ (2 + k) - 2 = k
                       /\ 1 \in 1 .. N + 4 /\ 2 \in 1 .. N + 4
    OBVIOUS
  <2>6. /\ \A k \in 1 .. o.reserved + 2 : 2 + k \in 1 .. o.reserved + 4 /\ ~(2 + k <= 2) /\ (2 + k) - 2 = k
        /\ 1 \in 1 .. o.reserved + 4 /\ 2 \in 1 .. o.reserved + 4
    BY <2>5
  <2>7. abm[1] = a[1] /\ abm[2] = b[1]
    BY <1>6, <2>4, <2>6
  <2>8. \A k \in 1 .. o.reserved + 2 : abm[2 + k] = m[k]
    BY <2>4, <2>6
  <2> QED
    BY <2>3, <2>7, <2>8
<1>k. IsJoin(r, abm, p)
  BY <1>4, <1>7, Joined
<1>9. SignedRevision(o, n) = r
  BY <1>5 DEF abm, ab
<1> HIDE DEF r
<1>8. /\ r \in Seq(Cells) /\ Len(r) = o.reserved + 8
      /\ \A k \in 1 .. o.reserved + 4 : r[k] = abm[k]
  <2>1. \A N \in Nat : (N + 4) + (3 + 1) = N + 8 /\ \A k \in 1 .. N + 4 : k \in 1 .. N + 8 /\ k <= N + 4
    OBVIOUS
  <2>2. Len(abm) + Len(p) = o.reserved + 8
    BY <1>4, <1>7, <2>1
  <2>3. r \in Seq(Cells) /\ Len(r) = o.reserved + 8
    BY <1>k, <2>2 DEF IsJoin
  <2>4. \A i \in 1 .. o.reserved + 8 : r[i] = IF i <= o.reserved + 4 THEN abm[i] ELSE p[i - (o.reserved + 4)]
    BY <1>7, <1>k, <2>2 DEF IsJoin
  <2> QED
    BY <2>1, <2>3, <2>4
<1>10. \A k \in 1 .. o.reserved + 2 : 2 + k \in 1 .. o.reserved + 4
  OBVIOUS
<1>11. 1 \in 1 .. o.reserved + 4 /\ 2 \in 1 .. o.reserved + 4
  OBVIOUS
<1>12. \A k \in 1 .. o.reserved + 2 : r[2 + k] = m[k]
  BY <1>7, <1>8, <1>10
<1>13. r[1] = Cell("revision", <<n>>) /\ r[2] = Cell("range", <<>>)
  BY <1>1, <1>2, <1>7, <1>8, <1>11
<1>14. o.reserved + 8 = o.reserved + Margin + 5
  BY <1>4
<1> QED
  BY <1>8, <1>9, <1>12, <1>13, <1>14, Zenon DEF m

\* e is what a byte range with a gap takes from s: g cells, then h cells after n.
IsExtract(e, s, g, n, h) ==
  /\ e \in Seq(Cells) /\ Len(e) = g + h
  /\ \A i \in 1 .. g + h : e[i] = IF i <= g THEN s[i] ELSE s[i + n]

\* extract_signed_bytes takes just that.
LEMMA ExtractCells ==
    ASSUME NEW s \in Seq(Cells), NEW g \in Nat, NEW n \in Nat, NEW h \in Nat,
           g + n + h <= Len(s)
    PROVE  IsExtract(extract_signed_bytes(s, <<0, g, g + n, h>>), s, g, n, h)
<1> DEFINE a == At(s, 0, g)
           b == At(s, g + n, h)
<1>1. extract_signed_bytes(s, <<0, g, g + n, h>>) = a \o b
  BY DEF extract_signed_bytes
<1>2. a \in Seq(Cells) /\ Len(a) = g /\ \A i \in 1 .. g : a[i] = s[i]
  <2>1. 0 + g <= Len(s) /\ \A i \in 1 .. g : 0 + i = i
    OBVIOUS
  <2>2. a \in Seq(Cells) /\ Len(a) = g /\ \A i \in 1 .. g : a[i] = s[0 + i]
    <3>1. 0 \in Nat /\ g \in Nat
      OBVIOUS
    <3> QED
      BY <2>1, <3>1, AtCells, Zenon
  <2> HIDE DEF a
  <2> QED
    BY <2>1, <2>2
<1>3. b \in Seq(Cells) /\ Len(b) = h /\ \A i \in 1 .. h : b[i] = s[g + n + i]
  <2> DEFINE o == g + n
  <2>1. o \in Nat /\ o + h <= Len(s)
    OBVIOUS
  <2> HIDE DEF o
  <2>2. At(s, o, h) \in Seq(Cells) /\ Len(At(s, o, h)) = h /\ \A i \in 1 .. h : At(s, o, h)[i] = s[o + i]
    BY <2>1, AtCells
  <2> QED
    BY <2>2 DEF o
<1> HIDE DEF a, b
<1> DEFINE e == a \o b
<1>j. IsJoin(e, a, b)
  BY <1>2, <1>3, Joined
<1> HIDE DEF e
<1>4. e \in Seq(Cells) /\ Len(e) = g + h /\ \A i \in 1 .. g + h : e[i] = IF i <= g THEN a[i] ELSE b[i - g]
  BY <1>2, <1>3, <1>j DEF IsJoin
<1>5. \A i \in 1 .. g + h : i <= g => e[i] = s[i]
  BY <1>2, <1>4
<1>6. \A i \in 1 .. g + h : ~(i <= g) => e[i] = s[i + n]
  <2>1. \A i \in 1 .. g + h : ~(i <= g) => i - g \in 1 .. h /\ g + n + (i - g) = i + n
    OBVIOUS
  <2> QED
    BY <1>3, <1>4, <2>1
<1>7. extract_signed_bytes(s, <<0, g, g + n, h>>) = e
  BY <1>1 DEF e
<1>8. IsExtract(e, s, g, n, h)
  BY <1>4, <1>5, <1>6 DEF IsExtract
<1> QED
  BY <1>7, <1>8

\* Two files that agree outside the gap.
\* s and t are the same but for the gap.
AgreeOutside(s, t, g, n, h) ==
  /\ g + n + h <= Len(s) /\ g + n + h <= Len(t)
  /\ \A i \in 1 .. g + n + h : i <= g \/ i > g + n => s[i] = t[i]

\* Files that agree outside the gap give the same bytes to a digest.
LEMMA ExtractSame ==
    ASSUME NEW s \in Seq(Cells), NEW t \in Seq(Cells),
           NEW g \in Nat, NEW n \in Nat, NEW h \in Nat, AgreeOutside(s, t, g, n, h)
    PROVE  extract_signed_bytes(s, <<0, g, g + n, h>>) = extract_signed_bytes(t, <<0, g, g + n, h>>)
<1>0. /\ g + n + h <= Len(s) /\ g + n + h <= Len(t)
      /\ \A i \in 1 .. g + n + h : i <= g \/ i > g + n => s[i] = t[i]
  BY DEF AgreeOutside
<1> DEFINE e == extract_signed_bytes(s, <<0, g, g + n, h>>)
           d == extract_signed_bytes(t, <<0, g, g + n, h>>)
<1>1. IsExtract(e, s, g, n, h)
  BY <1>0, ExtractCells
<1>2. IsExtract(d, t, g, n, h)
  BY <1>0, ExtractCells
<1> HIDE DEF e, d
<1>3. \A i \in 1 .. g + h : IF i <= g THEN i \in 1 .. g + n + h ELSE i + n \in 1 .. g + n + h /\ i + n > g + n
  OBVIOUS
<1>4. \A i \in 1 .. g + h : e[i] = d[i]
  BY <1>0, <1>1, <1>2, <1>3 DEF IsExtract
<1>5. e = d
  BY <1>1, <1>2, <1>4 DEF IsExtract
<1> QED
  BY <1>5 DEF e, d

\* A range that ends behind the file.
LEMMA ExtractNothing ==
    ASSUME NEW s \in Seq(Cells), NEW g \in Nat, NEW n \in Nat, NEW h \in Nat,
           ~(g + n + h <= Len(s))
    PROVE  extract_signed_bytes(s, <<0, g, g + n, h>>) = <<>>
BY DEF extract_signed_bytes

\* trim_trailing_zeros takes all after the last byte that is not zero.
LEMMA TrimCells ==
    ASSUME NEW s \in Seq(Cells), NEW m \in 0 .. Len(s),
           m > 0 => s[m] # Zero,
           \A k \in m + 1 .. Len(s) : s[k] = Zero
    PROVE  /\ trim_trailing_zeros(s) \in Seq(Cells) /\ Len(trim_trailing_zeros(s)) = m
           /\ \A k \in 1 .. m : trim_trailing_zeros(s)[k] = s[k]
<1> DEFINE kept == {k \in DOMAIN s : \E l \in k .. Len(s) : s[l] # Zero}
<1>1. kept = 1 .. m
  <2>1. ASSUME NEW k \in kept
        PROVE  k \in 1 .. m
    <3>1. PICK l \in k .. Len(s) : s[l] # Zero
      OBVIOUS
    <3>2. k \in 1 .. Len(s)
      OBVIOUS
    <3>3. ~(l \in m + 1 .. Len(s))
      BY <3>1
    <3> QED
      BY <3>2, <3>3
  <2>2. ASSUME NEW k \in 1 .. m
        PROVE  k \in kept
    <3>1. m \in k .. Len(s) /\ s[m] # Zero /\ k \in DOMAIN s
      OBVIOUS
    <3> QED
      BY <3>1
  <2> QED
    BY <2>1, <2>2
<1>2. Cardinality(1 .. m) = m
  <2>1. 1 \in Int /\ m \in Int /\ (IF 1 > m THEN 0 ELSE m - 1 + 1) = m
    OBVIOUS
  <2> QED
    BY <2>1, FS_Interval
<1>3. trim_trailing_zeros(s) = SubSeq(s, 1, m)
  BY <1>1, <1>2 DEF trim_trailing_zeros
<1> QED
  BY <1>3

\* The bytes of a blob, and which signature it is of.
LEMMA DerCells ==
    ASSUME NEW f \in Nat, NEW size \in Nat \ {0}, NEW zero \in BOOLEAN
    PROVE  /\ Der(f, size, zero) \in Seq(Cells) /\ Len(Der(f, size, zero)) = size
           /\ \A k \in 1 .. size : /\ Der(f, size, zero)[k].t = "byte"
                                   /\ Der(f, size, zero)[k] = Zero <=> zero /\ k = size
           /\ ~zero \/ size > 1 => Der(f, size, zero)[1].v = <<f, 1>>
<1>1. \A k \in 1 .. size : (IF zero /\ k = size THEN Zero ELSE Cell("byte", <<f, k>>)) \in Cells
  BY KnownCells
<1>2. \A k \in 1 .. size : Cell("byte", <<f, k>>) # Zero
  <2>1. \A k \in 1 .. size : <<f, k>> # <<0>>
    OBVIOUS
  <2> QED
    BY <2>1, CellParts DEF Zero
<1>3. \A k \in 1 .. size : (IF zero /\ k = size THEN Zero ELSE Cell("byte", <<f, k>>)).t = "byte"
  BY CellParts DEF Zero
<1>4. Der(f, size, zero) \in Seq(Cells) /\ Len(Der(f, size, zero)) = size
  BY <1>1 DEF Der
<1>5. \A k \in 1 .. size : Der(f, size, zero)[k] = IF zero /\ k = size THEN Zero ELSE Cell("byte", <<f, k>>)
  BY DEF Der
<1>6. \A k \in 1 .. size : /\ Der(f, size, zero)[k].t = "byte"
                           /\ Der(f, size, zero)[k] = Zero <=> zero /\ k = size
  BY <1>2, <1>3, <1>5
<1>7. ASSUME ~zero \/ size > 1
      PROVE  Der(f, size, zero)[1].v = <<f, 1>>
  <2>1. 1 \in 1 .. size /\ ~(zero /\ 1 = size)
    BY <1>7
  <2>2. Der(f, size, zero)[1] = Cell("byte", <<f, 1>>)
    BY <1>5, <2>1
  <2> QED
    BY <2>2, CellParts
<1> QED
  BY <1>4, <1>6, <1>7

\* Blobs of different signatures, or lengths, differ, when they do not end in zero.
LEMMA DerDiffer ==
    ASSUME NEW f \in Nat, NEW size \in Nat \ {0}, NEW zero \in BOOLEAN,
           NEW g \in Nat, NEW length \in Nat \ {0}, NEW last \in BOOLEAN,
           ~zero, Der(f, size, zero) = Der(g, length, last)
    PROVE  f = g
<1>0. \A i \in Nat, n \in Nat \ {0}, z \in BOOLEAN :
        /\ Len(Der(i, n, z)) = n
        /\ \A k \in 1 .. n : Der(i, n, z)[k] = Zero <=> z /\ k = n
        /\ ~z => Der(i, n, z)[1].v = <<i, 1>>
  BY DerCells
<1> DEFINE d == Der(f, size, zero)
           e == Der(g, length, last)
<1>1. /\ Len(d) = size
      /\ \A k \in 1 .. size : d[k] = Zero <=> zero /\ k = size
      /\ ~zero => d[1].v = <<f, 1>>
  BY <1>0
<1>2. /\ Len(e) = length
      /\ \A k \in 1 .. length : e[k] = Zero <=> last /\ k = length
      /\ ~last => e[1].v = <<g, 1>>
  BY <1>0
<1>3. d = e
  OBVIOUS
<1> HIDE DEF d, e
<1>4. size = length
  BY <1>1, <1>2, <1>3
<1>5. ~last
  <2>1. length \in 1 .. length
    OBVIOUS
  <2> QED
    BY <1>1, <1>2, <1>3, <1>4, <2>1
<1>6. <<f, 1>> = <<g, 1>>
  BY <1>1, <1>2, <1>3, <1>5
<1> QED
  BY <1>6

\* What is appended does not change the first cell.
LEMMA FirstIsOldGrows ==
    ASSUME NEW s \in Seq(Cells), NEW t \in Seq(Cells), NEW n \in Nat, NEW m \in Nat,
           n <= m, FirstIsOld(s, n), Begins(s, t),
           s = <<>> => t = <<>> \/ t[1].t # "rewritten"
    PROVE  FirstIsOld(t, m)
<1>1. CASE s = <<>>
  BY <1>1 DEF FirstIsOld
<1>2. CASE s # <<>>
  <2>1. t[1] = s[1]
    BY <1>2 DEF Begins
  <2>2. ASSUME t[1].t = "rewritten"
        PROVE  \E k \in 1 .. m : t[1].v = <<k>>
    <3>1. PICK k \in 1 .. n : s[1].v = <<k>>
      BY <1>2, <2>1, <2>2 DEF FirstIsOld
    <3>2. k \in 1 .. m
      OBVIOUS
    <3> QED
      BY <2>1, <3>1, <3>2
  <2> QED
    BY <2>2 DEF FirstIsOld
<1> QED
  BY <1>1, <1>2

\* A revision after a signature: the file still begins with the signed one and
\* is longer than compute_coverage tolerates.
LEMMA PastAfter ==
    ASSUME NEW m, m.file \in Seq(Cells), m.file # <<>>, NEW s \in Seq(Cells), NEW t \in Seq(Cells),
           NEW n \in Nat, m.revision \in 1 .. n,
           Past(m, s, n), Begins(s, t), Len(t) > Len(s) + Margin
    PROVE  Past(m, t, n + 1)
<1>1. CASE FollowedBy(m, s, n)
  <2>1. Begins(m.file, t) /\ Len(m.file) <= Len(s)
    BY <1>1, BeginsAll DEF FollowedBy, Begins
  <2>2. Len(t) > Len(m.file) + Margin
    BY <2>1, Constant
  <2>3. m.revision # n + 1
    OBVIOUS
  <2> QED
    BY <2>1, <2>2, <2>3 DEF Past, FollowedBy
<1>2. CASE WrittenAnew(m, s)
  <2>1. Len(t) > 0 /\ t[1] = s[1]
    BY <1>2, Constant DEF WrittenAnew, Begins
  <2> QED
    BY <1>2, <2>1 DEF Past, WrittenAnew
<1> QED
  BY <1>1, <1>2 DEF Past

\* A line end after a signature: there are never more of them than
\* compute_coverage tolerates.
LEMMA PastLineEnd ==
    ASSUME NEW m, m.file \in Seq(Cells), NEW s \in Seq(Cells), NEW n \in Nat,
           Past(m, s, n), Cardinality(Newlines(s)) < Margin
    PROVE  Past(m, Append(s, Cell("newline", <<>>)), n)
<1> DEFINE c == Cell("newline", <<>>)
           t == Append(s, c)
<1>1. c \in Cells /\ c.t = "newline"
  BY KnownCells, CellParts
<1> HIDE DEF c
<1>2. t \in Seq(Cells) /\ Len(t) = Len(s) + 1 /\ t[Len(s) + 1] = c
      /\ \A k \in 1 .. Len(s) : t[k] = s[k]
  BY <1>1
<1> HIDE DEF t
<1>3. Begins(s, t)
  BY <1>2 DEF Begins
<1>4. Newlines(t) = Newlines(s) \cup {Len(s) + 1}
  <2>1. \A k : k \in DOMAIN t <=> k \in DOMAIN s \/ k = Len(s) + 1
    BY <1>2
  <2>2. \A k \in DOMAIN s : t[k] = s[k]
    BY <1>2
  <2> QED
    BY <1>1, <1>2, <2>1, <2>2 DEF Newlines
<1>5. Cardinality(Newlines(t)) <= Margin
  <2>1. IsFiniteSet(Newlines(s))
    <3>1. Newlines(s) \subseteq 1 .. Len(s)
      BY DEF Newlines
    <3>2. IsFiniteSet(1 .. Len(s))
      BY FS_Interval
    <3> QED
      BY <3>1, <3>2, FS_Subset
  <2>2. Len(s) + 1 \notin Newlines(s)
    BY DEF Newlines
  <2>3. Cardinality(Newlines(t)) = Cardinality(Newlines(s)) + 1
    BY <1>4, <2>1, <2>2, FS_AddElement
  <2>4. Cardinality(Newlines(s)) \in Nat
    BY <2>1, FS_CardinalityType
  <2> QED
    BY <2>3, <2>4, Constant
<1>6. CASE FollowedBy(m, s, n)
  <2>1. Begins(m.file, t)
    BY <1>2, <1>3, <1>6, BeginsAll DEF FollowedBy
  <2>2. Len(m.file) <= Len(s)
    BY <1>6 DEF FollowedBy, Begins
  <2>3. ASSUME m.revision = n, NEW k \in Len(m.file) + 1 .. Len(t)
        PROVE  t[k].t = "newline"
    <3>1. CASE k = Len(s) + 1
      BY <1>1, <1>2, <3>1
    <3>2. CASE k # Len(s) + 1
      <4>1. k \in Len(m.file) + 1 .. Len(s) /\ k \in 1 .. Len(s)
        BY <1>2, <2>2, <3>2
      <4>2. s[k].t = "newline"
        BY <1>6, <2>3, <4>1 DEF FollowedBy
      <4> QED
        BY <1>2, <4>1, <4>2
    <3> QED
      BY <3>1, <3>2
  <2>4. m.revision # n => Len(t) > Len(m.file) + Margin
    BY <1>2, <1>6, Constant DEF FollowedBy
  <2> QED
    BY <1>5, <2>1, <2>3, <2>4 DEF Past, FollowedBy, t, c
<1>7. CASE WrittenAnew(m, s)
  <2>1. Len(t) > 0 /\ t[1] = s[1]
    BY <1>2, <1>7 DEF WrittenAnew
  <2> QED
    BY <1>7, <2>1 DEF Past, WrittenAnew, t, c
<1> QED
  BY <1>6, <1>7 DEF Past

\* The bytes of a full save.
LEMMA RewrittenCells ==
    ASSUME NEW r \in Nat, NEW n \in Nat \ {0}
    PROVE  /\ Repeat(Cell("rewritten", <<r>>), n) \in Seq(Cells)
           /\ Len(Repeat(Cell("rewritten", <<r>>), n)) = n
           /\ Repeat(Cell("rewritten", <<r>>), n)[1] = Cell("rewritten", <<r>>)
<1>1. Cell("rewritten", <<r>>) \in Cells /\ 1 \in 1 .. n
  BY KnownCells
<1> QED
  BY <1>1, RepeatCells

\* A full save after a signature: the first cell is a new one.
LEMMA PastRewrite ==
    ASSUME NEW m, m.file \in Seq(Cells), m.file # <<>>, NEW r \in Nat, NEW n \in Nat \ {0},
           FirstIsOld(m.file, r), NEW k
    PROVE  Past(m, Repeat(Cell("rewritten", <<r + 1>>), n), k)
<1> DEFINE t == Repeat(Cell("rewritten", <<r + 1>>), n)
<1>1. Len(t) = n /\ t[1] = Cell("rewritten", <<r + 1>>)
  BY RewrittenCells
<1> HIDE DEF t
<1>2. t[1].t = "rewritten" /\ t[1].v = <<r + 1>>
  BY <1>1, CellParts
<1>3. t[1] # m.file[1]
  <2>1. SUFFICES ASSUME t[1] = m.file[1]
                 PROVE  FALSE
    OBVIOUS
  <2>2. PICK l \in 1 .. r : m.file[1].v = <<l>>
    BY <1>2, <2>1 DEF FirstIsOld
  <2>3. <<l>> = <<r + 1>>
    BY <1>2, <2>1, <2>2
  <2>4. l = r + 1
    BY <2>3
  <2> QED
    BY <2>4
<1>4. WrittenAnew(m, t)
  BY <1>1, <1>3 DEF WrittenAnew
<1> QED
  BY <1>4 DEF Past, t

\* Where a placeholder is found when it occurs once.
LEMMA FoundAt ==
    ASSUME NEW s \in Seq(Cells), NEW needle \in Seq(Cells), NEW o \in Nat,
           o + Len(needle) <= Len(s),
           \A k \in 1 .. Len(needle) : s[o + k] = needle[k]
    PROVE  o \in Found(s, needle)
<1>1. At(s, o, Len(needle)) = needle
  <2> DEFINE a == At(s, o, Len(needle))
  <2>1. a \in Seq(Cells) /\ Len(a) = Len(needle) /\ \A i \in 1 .. Len(needle) : a[i] = s[o + i]
    BY AtCells
  <2> HIDE DEF a
  <2>2. a = needle
    BY <2>1
  <2> QED
    BY <2>2 DEF a
<1>2. o \in 0 .. Len(s) - Len(needle)
  OBVIOUS
<1> QED
  BY <1>1, <1>2 DEF Found

\* find_unique answers nothing else.
LEMMA UniqueIsFound ==
    ASSUME NEW s, NEW needle, NEW o \in Found(s, needle), NEW at \in find_unique(s, needle)
    PROVE  at = o
<1>1. PICK p \in Found(s, needle) : Found(s, needle) = {p}
  BY DEF find_unique
<1> QED
  BY <1>1 DEF find_unique

\* The staged bytes.
LEMMA StagedIsLaid ==
    ASSUME NEW f \in Seq(Cells), NEW o, o.reserved \in Nat \ {0}, NEW n \in Nat
    PROVE  Laid(f, f \o SignedRevision(o, n), o.reserved, n, <<>>)
<1> DEFINE r == SignedRevision(o, n)
           m == contents_placeholder(o.reserved)
           R == o.reserved
<1>1. /\ r \in Seq(Cells) /\ Len(r) = R + Margin + 5
      /\ r[1] = Cell("revision", <<n>>)
      /\ r[2] = Cell("range", <<>>)
      /\ \A k \in 1 .. R + 2 : r[2 + k] = m[k]
  BY SignedCells
<1> HIDE DEF r, m
<1> DEFINE s == f \o r
<1>j. IsJoin(s, f, r)
  BY <1>1, Joined
<1> HIDE DEF s
<1>2. s \in Seq(Cells) /\ Len(s) = Len(f) + R + Margin + 5
  BY <1>1, <1>j, Constant DEF IsJoin
<1>3. \A i \in 1 .. Len(s) : s[i] = IF i <= Len(f) THEN f[i] ELSE r[i - Len(f)]
  BY <1>1, <1>2, <1>j, Constant DEF IsJoin
<1>4. Begins(f, s)
  <2>1. Len(f) <= Len(s)
    BY <1>2, Constant
  <2>2. \A k \in 1 .. Len(f) : s[k] = f[k]
    <3>1. \A k \in 1 .. Len(f) : k \in 1 .. Len(s) /\ k <= Len(f)
      BY <2>1
    <3> QED
      BY <1>3, <3>1
  <2> QED
    BY <2>1, <2>2 DEF Begins
<1>5. s[Len(f) + 1] = r[1] /\ s[Len(f) + 2] = r[2]
  <2>1. /\ Len(f) + 1 \in 1 .. Len(s) /\ ~(Len(f) + 1 <= Len(f)) /\ (Len(f) + 1) - Len(f) = 1
        /\ Len(f) + 2 \in 1 .. Len(s) /\ ~(Len(f) + 2 <= Len(f)) /\ (Len(f) + 2) - Len(f) = 2
    BY <1>2, Constant
  <2> QED
    BY <1>3, <2>1
<1>6. \A k \in 1 .. R + 2 : s[Len(f) + 2 + k] = r[2 + k]
  <2>1. ASSUME NEW k \in 1 .. R + 2
        PROVE  /\ Len(f) + 2 + k \in 1 .. Len(s) /\ ~(Len(f) + 2 + k <= Len(f))
               /\ (Len(f) + 2 + k) - Len(f) = 2 + k
    BY <1>2, Constant
  <2> QED
    BY <1>3, <2>1
<1>7. Laid(f, s, R, n, <<>>)
  BY <1>1, <1>2, <1>4, <1>5, <1>6 DEF Laid, m
<1> QED
  BY <1>7 DEF s, r

\* The placeholders of the staged bytes are where they were laid.
LEMMA PlaceholdersFound ==
    ASSUME NEW f \in Seq(Cells), NEW s, NEW R \in Nat \ {0}, NEW n \in Nat, Laid(f, s, R, n, <<>>)
    PROVE  /\ Len(f) + 1 \in Found(s, RangePlaceholder)
           /\ Len(f) + 2 \in Found(s, contents_placeholder(R))
<1>0. Len(f) + 1 \in Nat /\ Len(f) + 2 \in Nat /\ (Len(f) + 1) + 1 = Len(f) + 2
  OBVIOUS
<1>1. s \in Seq(Cells) /\ Len(s) = Len(f) + R + Margin + 5 /\ Margin = 3
  BY Constant DEF Laid
<1>2. RangePlaceholder \in Seq(Cells) /\ Len(RangePlaceholder) = 1
      /\ RangePlaceholder[1] = Cell("range", <<>>)
  <2>1. Cell("range", <<>>) \in Cells
    BY KnownCells
  <2> QED
    BY <2>1 DEF RangePlaceholder
<1>3. Len(f) + 1 \in Found(s, RangePlaceholder)
  <2>1. s[(Len(f) + 1) + 1] = Cell("range", <<>>)
    BY <1>0 DEF Laid
  <2>2. \A k \in 1 .. Len(RangePlaceholder) : s[(Len(f) + 1) + k] = RangePlaceholder[k]
    BY <1>2, <2>1
  <2>3. (Len(f) + 1) + Len(RangePlaceholder) <= Len(s)
    BY <1>1, <1>2
  <2> QED
    BY <1>0, <1>1, <1>2, <2>2, <2>3, FoundAt, Zenon
<1>4. contents_placeholder(R) \in Seq(Cells) /\ Len(contents_placeholder(R)) = R + 2
  BY PlaceholderCells
<1>5. \A k \in 1 .. Len(contents_placeholder(R)) : s[(Len(f) + 2) + k] = contents_placeholder(R)[k]
  BY <1>4 DEF Laid
<1>6. (Len(f) + 2) + Len(contents_placeholder(R)) <= Len(s)
  BY <1>1, <1>4
<1>7. Len(f) + 2 \in Found(s, contents_placeholder(R))
  BY <1>0, <1>1, <1>4, <1>5, <1>6, FoundAt, Zenon
<1> QED
  BY <1>3, <1>7

\* The byte range is written over its placeholder.
LEMMA RangeIsLaid ==
    ASSUME NEW f \in Seq(Cells), NEW s, NEW R \in Nat \ {0}, NEW n \in Nat, Laid(f, s, R, n, <<>>),
           NEW r \in Seq(Int)
    PROVE  Laid(f, Patched(s, Len(f) + 1, <<Cell("range", r)>>), R, n, r)
<1> DEFINE c == <<Cell("range", r)>>
           t == Patched(s, Len(f) + 1, c)
<1>1. s \in Seq(Cells) /\ Len(s) = Len(f) + R + Margin + 5 /\ Margin = 3
  BY Constant DEF Laid
<1>2. c \in Seq(Cells) /\ Len(c) = 1 /\ c[1] = Cell("range", r)
  <2>1. Cell("range", r) \in Cells
    BY KnownCells
  <2> QED
    BY <2>1
<1> HIDE DEF c
<1>3. /\ t \in Seq(Cells) /\ Len(t) = Len(s)
      /\ \A k \in 1 .. Len(s) : t[k] =
           IF k > Len(f) + 1 /\ k <= Len(f) + 1 + Len(c) THEN c[k - (Len(f) + 1)] ELSE s[k]
  <2>1. Len(f) + 1 \in Nat
    OBVIOUS
  <2> QED
    BY <1>1, <1>2, <2>1, PatchedCells, Zenon
<1> HIDE DEF t
<1>4. \A k \in 1 .. Len(s) : k # Len(f) + 2 => t[k] = s[k]
  BY <1>1, <1>2, <1>3
<1>5. t[Len(f) + 2] = Cell("range", r)
  <2>1. /\ Len(f) + 2 \in 1 .. Len(s) /\ Len(f) + 2 > Len(f) + 1
        /\ Len(f) + 2 <= Len(f) + 1 + Len(c) /\ (Len(f) + 2) - (Len(f) + 1) = 1
    BY <1>1, <1>2
  <2> QED
    BY <1>2, <1>3, <2>1
<1>6. Begins(f, t)
  <2>1. Begins(f, s)
    BY DEF Laid
  <2> QED
    BY <1>1, <1>3, <1>4, <2>1 DEF Begins
<1>7. t[Len(f) + 1] = Cell("revision", <<n>>)
  <2>1. Len(f) + 1 \in 1 .. Len(s) /\ Len(f) + 1 # Len(f) + 2
    BY <1>1
  <2> QED
    BY <1>4, <2>1 DEF Laid
<1>8. \A k \in 1 .. R + 2 : t[Len(f) + 2 + k] = contents_placeholder(R)[k]
  <2>1. ASSUME NEW k \in 1 .. R + 2
        PROVE  Len(f) + 2 + k \in 1 .. Len(s) /\ Len(f) + 2 + k # Len(f) + 2
    BY <1>1
  <2> QED
    BY <1>4, <2>1 DEF Laid
<1>9. Laid(f, t, R, n, r)
  BY <1>1, <1>3, <1>5, <1>6, <1>7, <1>8 DEF Laid
<1> QED
  BY <1>9 DEF t, c

\* The blob and zeros are written over the placeholder of /Contents.
Signed(t, f, s, R, bytes) ==
  /\ t \in Seq(Cells) /\ Len(t) = Len(s)
  /\ \A k \in 1 .. Len(s) : (k <= Len(f) + 3 \/ k > Len(f) + 3 + R) => t[k] = s[k]
  /\ \A k \in 1 .. R : t[Len(f) + 3 + k] = IF k <= Len(bytes) THEN bytes[k] ELSE Zero

\* patch_contents_hex does that.
LEMMA BlobIsLaid ==
    ASSUME NEW f \in Seq(Cells), NEW s, NEW R \in Nat \ {0}, NEW n \in Nat, NEW range,
           Laid(f, s, R, n, range), NEW bytes \in Seq(Cells), Len(bytes) <= R
    PROVE  Signed(Patched(s, Len(f) + 3, bytes \o Repeat(Zero, R - Len(bytes))), f, s, R, bytes)
<1> DEFINE z == Repeat(Zero, R - Len(bytes))
           c == bytes \o z
           t == Patched(s, Len(f) + 3, c)
<1>1. s \in Seq(Cells) /\ Len(s) = Len(f) + R + Margin + 5 /\ Margin = 3
  BY Constant DEF Laid
<1>2. z \in Seq(Cells) /\ Len(z) = R - Len(bytes) /\ \A k \in 1 .. R - Len(bytes) : z[k] = Zero
  <2>1. R - Len(bytes) \in Nat
    OBVIOUS
  <2> QED
    BY <2>1, KnownCells, RepeatCells
<1> HIDE DEF z
<1>j. IsJoin(c, bytes, z)
  BY <1>2, Joined
<1> HIDE DEF c
<1>3. /\ c \in Seq(Cells) /\ Len(c) = R
      /\ \A k \in 1 .. R : c[k] = IF k <= Len(bytes) THEN bytes[k] ELSE Zero
  <2>1. Len(bytes) + Len(z) = R
    BY <1>2
  <2>2. \A k \in 1 .. R : ~(k <= Len(bytes)) => k - Len(bytes) \in 1 .. R - Len(bytes)
    OBVIOUS
  <2> QED
    BY <1>2, <1>j, <2>1, <2>2 DEF IsJoin
<1>4. /\ t \in Seq(Cells) /\ Len(t) = Len(s)
      /\ \A k \in 1 .. Len(s) : t[k] =
           IF k > Len(f) + 3 /\ k <= Len(f) + 3 + Len(c) THEN c[k - (Len(f) + 3)] ELSE s[k]
  <2>1. Len(f) + 3 \in Nat
    OBVIOUS
  <2> QED
    BY <1>1, <1>3, <2>1, PatchedCells, Zenon
<1> HIDE DEF t
<1>5. \A k \in 1 .. Len(s) : (k <= Len(f) + 3 \/ k > Len(f) + 3 + R) => t[k] = s[k]
  BY <1>1, <1>3, <1>4
<1>6. \A k \in 1 .. R : t[Len(f) + 3 + k] = c[k]
  <2>1. ASSUME NEW k \in 1 .. R
        PROVE  /\ Len(f) + 3 + k \in 1 .. Len(s) /\ Len(f) + 3 + k > Len(f) + 3
               /\ Len(f) + 3 + k <= Len(f) + 3 + R /\ (Len(f) + 3 + k) - (Len(f) + 3) = k
    BY <1>1
  <2> QED
    BY <1>3, <1>4, <2>1
<1>7. Signed(t, f, s, R, bytes)
  BY <1>3, <1>4, <1>5, <1>6 DEF Signed
<1> QED
  BY <1>7 DEF t, c, z

\* The range of staged bytes covers all of them but the /Contents string.
LEMMA LaidRange ==
    ASSUME NEW f \in Seq(Cells), NEW s, NEW R \in Nat \ {0}, NEW n \in Nat, NEW range, Laid(f, s, R, n, range)
    PROVE  /\ s \in Seq(Cells) /\ Len(s) = Len(f) + R + 8 /\ Margin = 3
           /\ Around(f, R) = <<0, Len(f) + 2, (Len(f) + 2) + (R + 2), 4>>
           /\ (Len(f) + 2) + (R + 2) + 4 = Len(s)
<1>1. s \in Seq(Cells) /\ Len(s) = Len(f) + R + 8 /\ Margin = 3
  BY Constant DEF Laid
<1>2. Margin + 1 = 4
  BY <1>1
<1> QED
  BY <1>1, <1>2 DEF Around

\* The signed bytes have the digest of the staged ones.
LEMMA DigestIsKept ==
    ASSUME NEW f \in Seq(Cells), NEW s, NEW R \in Nat \ {0}, NEW n \in Nat, NEW range,
           Laid(f, s, R, n, range), NEW t, NEW bytes, Signed(t, f, s, R, bytes)
    PROVE  extract_signed_bytes(t, Around(f, R)) = extract_signed_bytes(s, Around(f, R))
<1> DEFINE g == Len(f) + 2
           m == R + 2
           h == 4
           a == Around(f, R)
<1>1. /\ s \in Seq(Cells) /\ Len(s) = Len(f) + R + 8
      /\ a = <<0, g, g + m, h>> /\ g + m + h = Len(s)
      /\ g \in Nat /\ m \in Nat /\ h \in Nat
  <2>1. /\ s \in Seq(Cells) /\ Len(s) = Len(f) + R + 8
        /\ Around(f, R) = <<0, Len(f) + 2, (Len(f) + 2) + (R + 2), 4>>
        /\ (Len(f) + 2) + (R + 2) + 4 = Len(s)
    BY LaidRange
  <2>2. Len(f) + 2 \in Nat /\ R + 2 \in Nat
    OBVIOUS
  <2> QED
    BY <2>1, <2>2
<1>2. t \in Seq(Cells) /\ Len(t) = Len(s)
  BY DEF Signed
<1>3. \A i \in 1 .. g + m + h : i <= g \/ i > g + m => t[i] = s[i]
  <2>1. ASSUME NEW i \in 1 .. g + m + h, i <= g \/ i > g + m
        PROVE  i \in 1 .. Len(s) /\ (i <= Len(f) + 3 \/ i > Len(f) + 3 + R)
    BY <1>1, <2>1
  <2> QED
    BY <2>1 DEF Signed
<1> HIDE DEF g, m, h, a
<1>4. g + m + h <= Len(s) /\ g + m + h <= Len(t)
  BY <1>1, <1>2
<1>5. extract_signed_bytes(t, <<0, g, g + m, h>>) = extract_signed_bytes(s, <<0, g, g + m, h>>)
  <2>1. s \in Seq(Cells) /\ t \in Seq(Cells) /\ g \in Nat /\ m \in Nat /\ h \in Nat
    BY <1>1, <1>2
  <2>2. AgreeOutside(t, s, g, m, h)
    BY <1>3, <1>4 DEF AgreeOutside
  <2> QED
    BY <2>1, <2>2, ExtractSame
<1>6. extract_signed_bytes(t, a) = extract_signed_bytes(s, a)
  BY <1>1, <1>5
<1> QED
  BY <1>6 DEF a

\* A signature and the file it is returned in.
LEMMA SignatureMade ==
    ASSUME NEW f \in Seq(Cells), NEW s, NEW R \in Nat \ {0}, NEW n \in Nat \ {0},
           Laid(f, s, R, n, Around(f, R)), FirstIsOld(f, n),
           NEW k \in Nat, NEW c, CmsOK(c, s, Around(f, R), R, k),
           NEW t, Signed(t, f, s, R, c.bytes),
           NEW m, m = [cms |-> c, file |-> t, revision |-> n],
           NEW sig, sig = [range |-> t[Len(f) + 2].v, contents |-> At(t, Len(f) + 3, R)]
    PROVE  /\ Begins(f, t) /\ Len(t) > Len(f) + Margin
           /\ FirstIsOld(t, n)
           /\ m \in MadeRecords /\ sig \in FieldRecords
           /\ MadeOK(k, m, sig, n)
           /\ Past(m, t, n)
<1>1. /\ s \in Seq(Cells) /\ Len(s) = Len(f) + R + 8 /\ Margin = 3
      /\ Around(f, R) = <<0, Len(f) + 2, (Len(f) + 2) + (R + 2), 4>>
      /\ (Len(f) + 2) + (R + 2) + 4 = Len(s)
  BY LaidRange
<1>2. t \in Seq(Cells) /\ Len(t) = Len(s)
  BY DEF Signed
<1>3. \A i \in 1 .. Len(f) + 3 : t[i] = s[i]
  BY <1>1 DEF Signed
<1>4. Begins(f, t) /\ Len(t) > Len(f) + Margin
  BY <1>1, <1>2, <1>3 DEF Laid, Begins
<1>5. t[Len(f) + 1].t = "revision"
  <2>1. t[Len(f) + 1] = Cell("revision", <<n>>)
    BY <1>3 DEF Laid
  <2> QED
    BY <2>1, CellParts
<1>6. FirstIsOld(t, n)
  <2>1. f = <<>> => t[1].t # "rewritten"
    BY <1>5
  <2> QED
    BY <1>2, <1>4, <2>1, FirstIsOldGrows
<1>7. sig.range = Around(f, R)
  <2>1. Len(f) + 2 \in 1 .. Len(f) + 3
    OBVIOUS
  <2>2. t[Len(f) + 2] = Cell("range", Around(f, R))
    BY <1>3, <2>1 DEF Laid
  <2> QED
    BY <2>2, CellParts
<1>8. /\ sig.contents \in Seq(Cells) /\ Len(sig.contents) = R
      /\ \A i \in 1 .. R : sig.contents[i] = t[Len(f) + 3 + i]
  <2>1. Len(f) + 3 \in Nat /\ Len(f) + 3 + R <= Len(t)
    BY <1>1, <1>2
  <2> DEFINE o == Len(f) + 3
  <2>2. sig.contents = At(t, o, R)
    OBVIOUS
  <2>3. o \in Nat /\ o + R <= Len(t)
    BY <2>1
  <2> HIDE DEF o
  <2>4. /\ At(t, o, R) \in Seq(Cells) /\ Len(At(t, o, R)) = R
        /\ \A i \in 1 .. R : At(t, o, R)[i] = t[o + i]
    BY <1>2, <2>3, AtCells
  <2> QED
    BY <2>2, <2>4 DEF o
<1>9. sig \in FieldRecords
  <2>1. Around(f, R) \in Seq(Int)
    BY <1>1
  <2>2. sig = [range |-> sig.range, contents |-> sig.contents]
    OBVIOUS
  <2> QED
    BY <1>7, <1>8, <2>1, <2>2 DEF FieldRecords
<1>10. m \in MadeRecords
  BY <1>2 DEF MadeRecords, CmsOK
<1>11. Gapped(m, sig)
  <2> DEFINE g == Len(f) + 2
             d == R + 2
  <2>1. g \in 1 .. Len(t) /\ d \in 1 .. Len(t) /\ g + d <= Len(t) /\ Len(t) - (g + d) = 4
    BY <1>1, <1>2
  <2>2. sig.range = <<0, g, g + d, Len(t) - (g + d)>>
    BY <1>1, <1>7, <2>1
  <2> HIDE DEF g, d
  <2>3. m.file = t
    OBVIOUS
  <2> QED
    BY <2>1, <2>2, <2>3 DEF Gapped
<1>12. Filled(k, m, sig)
  <2>1. PICK size \in 1 .. R, zero \in BOOLEAN : c.bytes = Der(k, size, zero)
    BY DEF CmsOK
  <2>2. Len(c.bytes) = size
    BY <2>1, DerCells
  <2>3. \A i \in 1 .. R : sig.contents[i] = IF i <= size THEN c.bytes[i] ELSE Zero
    BY <1>8, <2>2 DEF Signed
  <2>4. m.cms = c
    OBVIOUS
  <2>5. size \in 1 .. Len(sig.contents)
    BY <1>8
  <2>6. \A i \in 1 .. Len(sig.contents) :
          sig.contents[i] = IF i <= size THEN Der(k, size, zero)[i] ELSE Zero
    BY <1>8, <2>1, <2>3
  <2>7. m.cms.bytes = Der(k, size, zero)
    BY <2>1, <2>4
  <2> QED
    BY <2>5, <2>6, <2>7, Zenon DEF Filled
<1>13. m.cms.digest = extract_signed_bytes(m.file, sig.range)
  <2>1. c.digest = extract_signed_bytes(s, Around(f, R))
    BY DEF CmsOK
  <2> QED
    BY <1>7, <2>1, DigestIsKept
<1>14. MadeOK(k, m, sig, n)
  BY <1>6, <1>11, <1>12, <1>13 DEF MadeOK
<1>15. Past(m, t, n)
  <2>1. Begins(m.file, t) /\ m.revision = n /\ m.file = t
    BY <1>2, BeginsAll
  <2> QED
    BY <1>2, <2>1 DEF Past, FollowedBy
<1> QED
  BY <1>4, <1>6, <1>9, <1>10, <1>14, <1>15

\* A signature stays as it was made whatever revisions follow.
LEMMA MadeLater ==
    ASSUME NEW f, NEW m, m.file \in Seq(Cells), NEW sig, NEW n \in Nat, MadeOK(f, m, sig, n)
    PROVE  MadeOK(f, m, sig, n + 1)
<1>1. FirstIsOld(m.file, n + 1)
  <2>1. Begins(m.file, m.file) /\ n <= n + 1 /\ n + 1 \in Nat
    BY BeginsAll
  <2>2. FirstIsOld(m.file, n)
    BY DEF MadeOK
  <2>3. m.file = <<>> => m.file = <<>> \/ m.file[1].t # "rewritten"
    OBVIOUS
  <2> QED
    BY <2>1, <2>2, <2>3, FirstIsOldGrows
<1>2. m.revision \in 1 .. n + 1
  BY DEF MadeOK
<1> QED
  BY <1>1, <1>2 DEF MadeOK

\* The invariant, for one signature.
LEMMA MadeFacts ==
    ASSUME IInv, NEW f \in 1 .. Len(made)
    PROVE  /\ made[f] \in MadeRecords /\ fields[f] \in FieldRecords
           /\ made[f].file \in Seq(Cells) /\ made[f].file # <<>>
           /\ made[f].revision \in 1 .. revisions
           /\ MadeOK(f, made[f], fields[f], revisions)
           /\ Past(made[f], file, revisions)
<1>1. made[f] \in MadeRecords /\ fields[f] \in FieldRecords
  BY DEF IInv
<1>2. MadeOK(f, made[f], fields[f], revisions) /\ Past(made[f], file, revisions)
  BY DEF IInv
<1>3. made[f].file \in Seq(Cells)
  BY <1>1 DEF MadeRecords
<1>4. made[f].file # <<>>
  <2>1. PICK g \in 1 .. Len(made[f].file) : TRUE
    BY <1>2 DEF MadeOK, Gapped
  <2> QED
    BY <1>3, <2>1
<1> QED
  BY <1>1, <1>2, <1>3, <1>4 DEF MadeOK

\* The invariant holds of the original file.
LEMMA InitOK ==
    ASSUME Init
    PROVE  IInv
<1>1. file \in Seq(Cells)
  BY Constant DEF Init
<1>2. FirstIsOld(file, revisions)
  <2>1. file # <<>> => 1 \in DOMAIN file
    BY <1>1
  <2> QED
    BY <2>1, Constant DEF Init, FirstIsOld
<1>3. made \in Seq(MadeRecords) /\ fields \in Seq(FieldRecords) /\ Len(fields) = 0 /\ Len(made) = 0
  BY DEF Init
<1>4. calls \in 0 .. MaxCalls /\ revisions \in 0 .. calls
  BY Constant DEF Init
<1>5. Signing
  BY DEF Init, Signing
<1>6. \A e \in dss.vri : e.crls = dss.crls
  BY DEF Init, NoDss
<1> QED
  BY <1>1, <1>2, <1>3, <1>4, <1>5, <1>6 DEF IInv

\* A call leaves room for its revision under the bound on the calls.
LEMMA CalledOK ==
    ASSUME IInv, Called
    PROVE  /\ pc = "idle" /\ calls' \in 0 .. MaxCalls
           /\ revisions \in 0 .. calls' /\ revisions + 1 \in 0 .. calls'
           /\ revisions \in Nat
BY Constant DEF IInv, Called

\* Staging a signature keeps the invariant.
LEMMA StageOK ==
    ASSUME IInv, NEW o \in Jobs, Stage(o)
    PROVE  IInv'
<1>1. JobOK(job')
  BY Constant DEF Stage, Jobs, JobOK
<1>2. /\ pc' = "staged" /\ sig_at' = Len(file) + 1 /\ revisions < calls'
      /\ calls' \in 0 .. MaxCalls /\ revisions \in 0 .. calls'
  BY CalledOK DEF Stage
<1>3. Laid(file, staged', job'.reserved, revisions + 1, <<>>)
  <2>1. o.reserved \in Nat \ {0} /\ job' = o /\ revisions + 1 \in Nat /\ file \in Seq(Cells)
    BY <1>1 DEF Stage, JobOK, IInv
  <2> QED
    BY <2>1, StagedIsLaid DEF Stage
<1>4. Signing'
  BY <1>1, <1>2, <1>3 DEF Signing, Stage
<1> QED
  BY <1>2, <1>4 DEF IInv, Stage

\* A call that fails leaves the invariant.
LEMMA FailedOK ==
    ASSUME IInv, Failed
    PROVE  IInv'
<1>1. Signing'
  BY DEF Signing, Failed
<1> QED
  BY <1>1 DEF IInv, Failed

\* Patching the byte range keeps the invariant: the placeholders found are
\* those of this signature.
LEMMA PatchRangeOK ==
    ASSUME IInv, PatchRange
    PROVE  IInv'
<1>1. /\ file \in Seq(Cells) /\ JobOK(job) /\ sig_at = Len(file) + 1 /\ revisions < calls
      /\ Laid(file, staged, job.reserved, revisions + 1, <<>>)
      /\ revisions + 1 \in Nat
  BY DEF IInv, Signing, PatchRange
<1>2. PICK at \in find_unique(staged, RangePlaceholder), gap \in find_unique(staged, Marker) :
        /\ staged' = Patched(staged, at, <<Cell("range", RangeAround(gap))>>)
        /\ byte_range' = RangeAround(gap)
  BY DEF PatchRange
<1>3. at = Len(file) + 1 /\ gap = Len(file) + 2
  BY <1>1, PlaceholdersFound, UniqueIsFound DEF Marker, JobOK
<1>4. RangeAround(gap) = Around(file, job.reserved)
  <2>1. Len(staged) = Len(file) + job.reserved + 8 /\ Margin = 3 /\ job.reserved \in Nat
    BY <1>1, LaidRange DEF JobOK
  <2>2. Len(Marker) = job.reserved + 2
    BY <2>1, PlaceholderCells DEF Marker
  <2>3. Len(staged) - ((Len(file) + 2) + (job.reserved + 2)) = Margin + 1
    BY <1>1, <2>1
  <2> QED
    BY <1>3, <2>2, <2>3 DEF RangeAround, Around
<1>5. Around(file, job.reserved) \in Seq(Int)
  BY <1>1, Constant DEF Around, JobOK
<1>6. Laid(file, staged', job.reserved, revisions + 1, Around(file, job.reserved))
  BY <1>1, <1>2, <1>3, <1>4, <1>5, RangeIsLaid DEF JobOK
<1>7. Signing'
  BY <1>1, <1>2, <1>4, <1>6 DEF Signing, PatchRange
<1> QED
  BY <1>7 DEF IInv, PatchRange

\* Building the blob keeps the invariant, and so does a reservation that is too
\* small.
LEMMA BuildCmsOK ==
    ASSUME IInv, NEW zero \in BOOLEAN, BuildCms(zero)
    PROVE  IInv'
<1> DEFINE size == CmsSize + (IF job.timestamp THEN 1 ELSE 0)
           c == [bytes |-> Der(Len(made) + 1, size, zero),
                 digest |-> extract_signed_bytes(staged, byte_range),
                 cert |-> job.identity.cert, chain |-> job.identity.chain,
                 timestamp |-> job.timestamp]
<1>1. CASE Failed
  BY <1>1, FailedOK
<1>2. CASE ~Failed
  <2>1. /\ ~(size > job.reserved) /\ cms' = c /\ pc' = "built"
        /\ UNCHANGED <<file, fields, dss, job, staged, sig_at, byte_range, made, calls, revisions>>
    BY <1>2 DEF BuildCms
  <2>2. /\ file \in Seq(Cells) /\ JobOK(job) /\ sig_at = Len(file) + 1 /\ revisions < calls
        /\ byte_range = Around(file, job.reserved)
        /\ Laid(file, staged, job.reserved, revisions + 1, byte_range)
        /\ revisions + 1 \in Nat /\ made \in Seq(MadeRecords)
    BY DEF IInv, Signing, BuildCms
  <2>3. size \in 1 .. job.reserved
    BY <2>1, <2>2, Constant DEF JobOK
  <2>4. c.bytes \in Seq(Cells)
    <3>1. Len(made) + 1 \in Nat /\ size \in Nat \ {0}
      BY <2>2, <2>3
    <3> HIDE DEF size
    <3>2. Der(Len(made) + 1, size, zero) \in Seq(Cells)
      BY <3>1, DerCells
    <3> QED
      BY <3>2
  <2>5. extract_signed_bytes(staged, byte_range) \in Seq(Cells)
    <3> DEFINE g == Len(file) + 2
               n == job.reserved + 2
               h == 4
    <3>1. /\ staged \in Seq(Cells) /\ byte_range = <<0, g, g + n, h>> /\ g + n + h <= Len(staged)
          /\ g \in Nat /\ n \in Nat /\ h \in Nat
      <4> DEFINE R == job.reserved
                 r == byte_range
      <4>1. R \in Nat \ {0} /\ file \in Seq(Cells) /\ r = Around(file, R)
            /\ Laid(file, staged, R, revisions + 1, r) /\ revisions + 1 \in Nat
        BY <2>2 DEF JobOK
      <4>2. n = R + 2
        OBVIOUS
      <4> HIDE DEF R, r, n
      <4>3. /\ staged \in Seq(Cells) /\ Around(file, R) = <<0, g, g + (R + 2), h>>
            /\ g + (R + 2) + h = Len(staged)
        BY <4>1, LaidRange
      <4>4. g \in Nat /\ R + 2 \in Nat /\ h \in Nat
        BY <4>1
      <4>5. g + n + h <= Len(staged)
        BY <4>2, <4>3, <4>4
      <4> QED
        BY <4>1, <4>2, <4>3, <4>4, <4>5 DEF r
    <3> HIDE DEF g, n, h
    <3>2. IsExtract(extract_signed_bytes(staged, <<0, g, g + n, h>>), staged, g, n, h)
      BY <3>1, ExtractCells
    <3> QED
      BY <3>1, <3>2 DEF IsExtract
  <2>6. c.cert \in Certs /\ c.chain \in {i.chain : i \in Identities}
    <3>1. job.identity \in Identities
      BY <2>2 DEF JobOK
    <3>2. job.identity.cert \in {job.identity.cert} \cup ToSet(job.identity.chain)
      OBVIOUS
    <3>3. job.identity.cert \in Certs
      BY <3>1, <3>2, Zenon DEF Certs
    <3> QED
      BY <3>1, <3>3
  <2>7. c \in CmsRecords
    BY <2>2, <2>4, <2>5, <2>6 DEF CmsRecords, JobOK
  <2>8. CmsOK(c, staged, byte_range, job.reserved, Len(made) + 1)
    <3>1. c.digest = extract_signed_bytes(staged, byte_range)
      OBVIOUS
    <3>2. c.bytes = Der(Len(made) + 1, size, zero)
      OBVIOUS
    <3> QED
      BY <2>3, <2>7, <3>1, <3>2 DEF CmsOK
  <2>9. Signing'
    <3>1. Laid(file, staged, job.reserved, revisions + 1, byte_range)'
      BY <2>1, <2>2
    <3> HIDE DEF c
    <3> QED
      BY <2>1, <2>2, <2>8 DEF Signing
  <2> HIDE DEF c, size
  <2> QED
    BY <2>1, <2>9 DEF IInv
<1> QED
  BY <1>1, <1>2

\* Returning the signed bytes keeps the invariant; the file given is their
\* beginning.
LEMMA PatchContentsOK ==
    ASSUME IInv, PatchContents
    PROVE  IInv' /\ Begins(file, file')
<1> DEFINE R == job.reserved
           n == revisions + 1
           k == Len(made) + 1
           t == Patched(staged, byte_range[2] + 1,
                        cms.bytes \o Repeat(Zero, job.reserved - Len(cms.bytes)))
           m == [cms |-> cms, file |-> t, revision |-> n]
           sig == [range |-> t[Len(file) + 2].v, contents |-> At(t, Len(file) + 3, R)]
<1>1. /\ file \in Seq(Cells) /\ JobOK(job) /\ R \in Nat \ {0}
      /\ sig_at = Len(file) + 1 /\ revisions < calls
      /\ byte_range = Around(file, R)
      /\ Laid(file, staged, R, n, Around(file, R))
      /\ CmsOK(cms, staged, Around(file, R), R, k)
      /\ n \in Nat \ {0} /\ k \in Nat /\ n \in 0 .. calls /\ calls \in 0 .. MaxCalls
      /\ FirstIsOld(file, revisions) /\ revisions \in Nat
      /\ made \in Seq(MadeRecords) /\ fields \in Seq(FieldRecords) /\ Len(fields) = Len(made)
  BY DEF IInv, Signing, PatchContents, JobOK
<1>2. FirstIsOld(file, n)
  <2>1. Begins(file, file) /\ revisions <= n /\ n \in Nat
    BY <1>1, BeginsAll
  <2>2. file = <<>> => file = <<>> \/ file[1].t # "rewritten"
    OBVIOUS
  <2> QED
    BY <1>1, <2>1, <2>2, FirstIsOldGrows
<1>3. Signed(t, file, staged, R, cms.bytes)
  <2>1. cms.bytes \in Seq(Cells) /\ Len(cms.bytes) <= R
    <3>1. PICK size \in 1 .. R, zero \in BOOLEAN : cms.bytes = Der(k, size, zero)
      BY <1>1 DEF CmsOK
    <3>2. size \in Nat \ {0} /\ size <= R
      BY <1>1
    <3> QED
      BY <1>1, <3>1, <3>2, DerCells
  <2>2. byte_range[2] + 1 = Len(file) + 3
    BY <1>1 DEF Around
  <2>3. t = Patched(staged, Len(file) + 3, cms.bytes \o Repeat(Zero, R - Len(cms.bytes)))
    BY <2>2
  <2> HIDE DEF t, R, n, k
  <2> QED
    BY <1>1, <2>1, <2>3, BlobIsLaid
<1>4. /\ file' = t /\ fields' = Append(fields, sig) /\ made' = Append(made, m)
      /\ revisions' = n /\ pc' = "idle" /\ staged' = <<>> /\ calls' = calls
      /\ dss' = dss
  <2>1. sig_at + 1 = Len(file) + 2 /\ sig_at + 2 = Len(file) + 3
    BY <1>1
  <2>2. ReadBack(t) = sig
    BY <2>1 DEF ReadBack
  <2> QED
    BY <2>2 DEF PatchContents, ClonedDss
<1>5. m = [cms |-> cms, file |-> t, revision |-> n]
      /\ sig = [range |-> t[Len(file) + 2].v, contents |-> At(t, Len(file) + 3, R)]
  OBVIOUS
<1>6. m.file = t /\ m.revision = n
  OBVIOUS
<1> HIDE DEF t, m, sig, R, n, k
<1>7. /\ Begins(file, t) /\ Len(t) > Len(file) + Margin
      /\ FirstIsOld(t, n)
      /\ m \in MadeRecords /\ sig \in FieldRecords
      /\ MadeOK(k, m, sig, n)
      /\ Past(m, t, n)
  <2>1. file \in Seq(Cells) /\ R \in Nat \ {0} /\ n \in Nat \ {0} /\ k \in Nat
    BY <1>1
  <2>2. Laid(file, staged, R, n, Around(file, R)) /\ CmsOK(cms, staged, Around(file, R), R, k)
    BY <1>1
  <2> QED
    BY <1>2, <1>3, <1>5, <2>1, <2>2, SignatureMade
<1>8. t \in Seq(Cells)
  BY <1>3 DEF Signed
<1>9. /\ made' \in Seq(MadeRecords) /\ fields' \in Seq(FieldRecords) /\ Len(made') = k /\ Len(fields') = k
      /\ made'[k] = m /\ fields'[k] = sig
      /\ \A f \in 1 .. Len(made) : made'[f] = made[f] /\ fields'[f] = fields[f]
  BY <1>1, <1>4, <1>7 DEF k
<1>10. ASSUME NEW f \in 1 .. Len(made')
       PROVE  MadeOK(f, made'[f], fields'[f], n) /\ Past(made'[f], t, n)
  <2>1. CASE f = k
    BY <1>7, <1>9, <2>1
  <2>2. CASE f # k
    <3>1. f \in 1 .. Len(made)
      BY <1>1, <1>9, <2>2 DEF k
    <3>2. /\ made[f].file \in Seq(Cells) /\ made[f].file # <<>>
          /\ made[f].revision \in 1 .. revisions
          /\ MadeOK(f, made[f], fields[f], revisions) /\ Past(made[f], file, revisions)
      BY <3>1, MadeFacts
    <3>3. MadeOK(f, made[f], fields[f], revisions + 1)
      BY <1>1, <3>2, MadeLater
    <3>4. Past(made[f], t, revisions + 1)
      BY <1>1, <1>7, <1>8, <3>2, PastAfter
    <3> QED
      BY <1>9, <3>1, <3>3, <3>4 DEF n
  <2> QED
    BY <2>1, <2>2
<1>11. Signing'
  BY <1>4 DEF Signing
<1>12. \A e \in dss'.vri : e.crls = dss'.crls
  BY <1>4 DEF IInv
<1> QED
  BY <1>1, <1>4, <1>7, <1>8, <1>9, <1>10, <1>11, <1>12 DEF IInv

\* The other calls leave sign_document's locals alone.
LEMMA IdleSigning ==
    ASSUME Signing, pc = "idle", UNCHANGED Locals
    PROVE  Signing'
BY DEF Signing, Locals

\* A call that appends a revision.
LEMMA RevisionOK ==
    ASSUME IInv, Called, file' = file \o PlainRevision(revisions + 1), revisions' = revisions + 1,
           UNCHANGED <<fields, made, Locals>>, \A e \in dss'.vri : e.crls = dss'.crls
    PROVE  IInv' /\ Begins(file, file')
<1> DEFINE r == PlainRevision(revisions + 1)
           t == file \o r
<1>1. /\ pc = "idle" /\ calls' \in 0 .. MaxCalls /\ revisions' \in 0 .. calls'
      /\ revisions \in Nat /\ revisions + 1 \in Nat /\ file \in Seq(Cells) /\ FirstIsOld(file, revisions)
  BY CalledOK DEF IInv
<1>2. /\ r \in Seq(Cells) /\ Len(r) = Margin + 1 /\ Margin = 3
      /\ \A k \in 1 .. Margin + 1 : r[k] = Cell("revision", <<revisions + 1>>)
  BY <1>1, RevisionCells, Constant
<1> HIDE DEF r
<1>j. IsJoin(t, file, r)
  BY <1>1, <1>2, Joined
<1>3. file' = t
  BY DEF r
<1> HIDE DEF t
<1>4. /\ t \in Seq(Cells) /\ Len(t) = Len(file) + 4
      /\ \A k \in 1 .. Len(file) : t[k] = file[k]
      /\ t[Len(file) + 1] = r[1]
  BY <1>1, <1>2, <1>j DEF IsJoin
<1>5. Begins(file, t) /\ Len(t) > Len(file) + Margin
  BY <1>1, <1>2, <1>4 DEF Begins
<1>6. FirstIsOld(t, revisions + 1)
  <2>1. file = <<>> => t[1].t # "rewritten"
    <3>1. r[1].t = "revision"
      BY <1>2, CellParts
    <3> QED
      BY <1>4, <3>1
  <2> QED
    BY <1>1, <1>4, <1>5, <2>1, FirstIsOldGrows
<1>7. ASSUME NEW f \in 1 .. Len(made)
      PROVE  MadeOK(f, made[f], fields[f], revisions + 1) /\ Past(made[f], t, revisions + 1)
  <2>1. /\ made[f].file \in Seq(Cells) /\ made[f].file # <<>>
        /\ made[f].revision \in 1 .. revisions
        /\ MadeOK(f, made[f], fields[f], revisions) /\ Past(made[f], file, revisions)
    BY MadeFacts
  <2> QED
    BY <1>1, <1>4, <1>5, <2>1, MadeLater, PastAfter
<1>8. Signing'
  BY <1>1, IdleSigning DEF IInv
<1> QED
  BY <1>1, <1>3, <1>4, <1>5, <1>6, <1>7, <1>8 DEF IInv

\* Adding material keeps the invariant and the bytes before it.
LEMMA AddLtvOK ==
    ASSUME IInv, NEW m \in Materials, AddLtv(m)
    PROVE  IInv' /\ Begins(file, file')
<1>1. \A e \in dss'.vri : e.crls = dss'.crls
  BY DEF AddLtv
<1> QED
  BY <1>1, RevisionOK DEF AddLtv

\* An incremental save keeps the invariant and the bytes before it.
LEMMA ReviseOK ==
    ASSUME IInv, Revise
    PROVE  IInv' /\ Begins(file, file')
<1>1. \A e \in dss'.vri : e.crls = dss'.crls
  BY DEF Revise, IInv
<1> QED
  BY <1>1, RevisionOK DEF Revise

\* A line end keeps the invariant and the bytes before it.
LEMMA EndLineOK ==
    ASSUME IInv, EndLine
    PROVE  IInv' /\ Begins(file, file')
<1> DEFINE c == Cell("newline", <<>>)
           t == Append(file, c)
<1>1. /\ pc = "idle" /\ calls' \in 0 .. MaxCalls /\ revisions \in 0 .. calls'
      /\ revisions \in Nat /\ file \in Seq(Cells) /\ FirstIsOld(file, revisions)
  BY CalledOK DEF IInv, EndLine
<1>2. c \in Cells /\ c.t = "newline"
  BY KnownCells, CellParts
<1>3. file' = t
  BY DEF EndLine
<1>4. ASSUME NEW f \in 1 .. Len(made)
      PROVE  Past(made[f], t, revisions)
  <2>1. Cardinality(Newlines(file)) < Margin
    BY DEF EndLine, Newlines
  <2> QED
    BY <1>1, <2>1, MadeFacts, PastLineEnd
<1> HIDE DEF c
<1>5. t \in Seq(Cells) /\ Begins(file, t)
  BY <1>1, <1>2 DEF Begins
<1>6. FirstIsOld(t, revisions)
  <2>1. file = <<>> => t[1].t # "rewritten"
    BY <1>2
  <2> HIDE DEF t
  <2> QED
    BY <1>1, <1>5, <2>1, FirstIsOldGrows
<1> HIDE DEF t
<1>7. Signing'
  BY <1>1, IdleSigning DEF IInv, EndLine
<1> QED
  BY <1>1, <1>3, <1>4, <1>5, <1>6, <1>7 DEF IInv, EndLine

\* A full save keeps the invariant.
LEMMA RewriteOK ==
    ASSUME IInv, NEW n \in {1, MaxRangeField}, Rewrite(n)
    PROVE  IInv'
<1> DEFINE t == Repeat(Cell("rewritten", <<revisions + 1>>), n)
<1>1. /\ pc = "idle" /\ calls' \in 0 .. MaxCalls /\ revisions + 1 \in 0 .. calls'
      /\ revisions \in Nat /\ n \in Nat \ {0}
  BY CalledOK, Constant DEF Rewrite
<1>2. file' = t /\ revisions' = revisions + 1
  BY DEF Rewrite
<1>3. t \in Seq(Cells) /\ t[1] = Cell("rewritten", <<revisions + 1>>)
  BY <1>1, RewrittenCells
<1>4. ASSUME NEW f \in 1 .. Len(made)
      PROVE  MadeOK(f, made[f], fields[f], revisions + 1) /\ Past(made[f], t, revisions + 1)
  <2>1. /\ made[f].file \in Seq(Cells) /\ made[f].file # <<>>
        /\ MadeOK(f, made[f], fields[f], revisions)
    BY MadeFacts
  <2>2. FirstIsOld(made[f].file, revisions)
    BY <2>1 DEF MadeOK
  <2> QED
    BY <1>1, <2>1, <2>2, MadeLater, PastRewrite
<1> HIDE DEF t
<1>5. FirstIsOld(t, revisions + 1)
  <2>1. t[1].v = <<revisions + 1>> /\ revisions + 1 \in 1 .. revisions + 1
    BY <1>1, <1>3, CellParts
  <2> QED
    BY <2>1 DEF FirstIsOld
<1>6. Signing'
  BY <1>1, IdleSigning DEF IInv, Rewrite
<1> QED
  BY <1>1, <1>2, <1>3, <1>4, <1>5, <1>6 DEF IInv, Rewrite

\* A step that changes nothing keeps the invariant.
LEMMA Stutter ==
    ASSUME IInv, UNCHANGED vars
    PROVE  IInv'
<1>1. Signing'
  BY DEF IInv, vars, Signing
<1> QED
  BY <1>1 DEF IInv, vars

\* Every signature returned stays what it was made to be: its digest, its byte
\* range and its blob fit the file it came in, and the present file either goes
\* on from that file or was written anew.
THEOREM SignaturesHold == Spec => []IInv
<1>1. Init => IInv
  BY InitOK
<1>2. IInv /\ [Next]_vars => IInv'
  <2> SUFFICES ASSUME IInv, [Next]_vars
               PROVE  IInv'
    OBVIOUS
  <2>1. ASSUME NEW o \in Jobs, Stage(o)
        PROVE  IInv'
    BY <2>1, StageOK
  <2>2. CASE PatchRange
    BY <2>2, PatchRangeOK
  <2>3. CASE PatchRangeFails
    BY <2>3, FailedOK DEF PatchRangeFails
  <2>4. ASSUME NEW zero \in BOOLEAN, BuildCms(zero)
        PROVE  IInv'
    BY <2>4, BuildCmsOK
  <2>5. CASE PatchContents
    BY <2>5, PatchContentsOK
  <2>6. ASSUME NEW m \in Materials, AddLtv(m)
        PROVE  IInv'
    BY <2>6, AddLtvOK
  <2>7. CASE Revise
    BY <2>7, ReviseOK
  <2>8. CASE EndLine
    BY <2>8, EndLineOK
  <2>9. ASSUME NEW n \in {1, MaxRangeField}, Rewrite(n)
        PROVE  IInv'
    BY <2>9, RewriteOK
  <2>10. CASE UNCHANGED vars
    BY <2>10, Stutter
  <2> QED
    BY <2>1, <2>2, <2>3, <2>4, <2>5, <2>6, <2>7, <2>8, <2>9, <2>10 DEF Next
<1> QED
  BY <1>1, <1>2, PTL DEF Spec

\* Every call but a full save returns the bytes it was given as a prefix,
\* whatever placeholders they hold: find_unique fails rather than patch an
\* older one.
THEOREM PriorBytesAreKept == Spec => PriorBytesKept
<1>1. IInv /\ IInv' /\ [Next]_vars => [IsPrefix(file, file') \/ \E n \in {1, MaxRangeField} : Rewrite(n)]_vars
  <2> SUFFICES ASSUME IInv, IInv', Next
               PROVE  IsPrefix(file, file') \/ \E n \in {1, MaxRangeField} : Rewrite(n)
    OBVIOUS
  <2>1. file \in Seq(Cells) /\ file' \in Seq(Cells)
    BY DEF IInv
  <2>2. UNCHANGED file => Begins(file, file')
    BY <2>1, BeginsAll
  <2>3. ASSUME NEW o \in Jobs, Stage(o)
        PROVE  UNCHANGED file
    BY <2>3 DEF Stage
  <2>4. PatchRange \/ PatchRangeFails => UNCHANGED file
    BY DEF PatchRange, PatchRangeFails, Failed
  <2>5. ASSUME NEW zero \in BOOLEAN, BuildCms(zero)
        PROVE  UNCHANGED file
    BY <2>5 DEF BuildCms, Failed
  <2>6. ASSUME NEW m \in Materials, AddLtv(m)
        PROVE  Begins(file, file')
    BY <2>6, AddLtvOK
  <2>7. PatchContents \/ Revise \/ EndLine => Begins(file, file')
    BY PatchContentsOK, ReviseOK, EndLineOK
  <2>8. Begins(file, file') => IsPrefix(file, file')
    BY <2>1, BeginsIsPrefix
  <2> QED
    BY <2>2, <2>3, <2>4, <2>5, <2>6, <2>7, <2>8 DEF Next
<1>2. Spec => []IInv
  BY SignaturesHold
<1> QED
  BY <1>1, <1>2, PTL DEF Spec, PriorBytesKept

\* An intact file goes on from the signed one, any other was written anew.
LEMMA IntactOrAnew ==
    ASSUME IInv, NEW f \in 1 .. Len(made)
    PROVE  /\ Intact(f) => FollowedBy(made[f], file, revisions)
           /\ ~Intact(f) => WrittenAnew(made[f], file)
<1>1. made[f].file \in Seq(Cells) /\ made[f].file # <<>> /\ Past(made[f], file, revisions)
  BY MadeFacts
<1>2. file \in Seq(Cells)
  BY DEF IInv
<1>3. Intact(f) <=> Begins(made[f].file, file)
  BY <1>1, <1>2, BeginsIsPrefix DEF Intact
<1>4. Begins(made[f].file, file) => ~WrittenAnew(made[f], file)
  BY <1>1 DEF Begins, WrittenAnew
<1> QED
  BY <1>1, <1>3, <1>4 DEF Past, FollowedBy

\* The numbers of a signature's byte range.
LEMMA RangeNumbers ==
    ASSUME IInv, NEW f \in 1 .. Len(made)
    PROVE  \E g \in Nat \ {0}, n \in Nat, h \in Nat :
             /\ g + n + h = Len(made[f].file)
             /\ fields[f].range = <<0, g, g + n, h>>
<1>1. MadeOK(f, made[f], fields[f], revisions) /\ made[f].file \in Seq(Cells)
  BY MadeFacts
<1> DEFINE L == Len(made[f].file)
<1>2. PICK g \in 1 .. L, n \in 1 .. L :
        g + n <= L /\ fields[f].range = <<0, g, g + n, L - (g + n)>>
  BY <1>1 DEF MadeOK, Gapped
<1>3. L \in Nat
  BY <1>1
<1> HIDE DEF L
<1>4. g \in Nat \ {0} /\ n \in Nat /\ L - (g + n) \in Nat /\ g + n + (L - (g + n)) = L
  BY <1>2, <1>3
<1> QED
  BY <1>2, <1>4 DEF L

\* The signed bytes are found again exactly in an intact file.
LEMMA SignedBytes ==
    ASSUME IInv, NEW f \in 1 .. Len(made)
    PROVE  /\ Intact(f) => /\ extract_signed_bytes(file, fields[f].range) = made[f].cms.digest
                           /\ extract_signed_bytes(file, fields[f].range) # <<>>
           /\ extract_signed_bytes(file, fields[f].range) # <<>>
              /\ extract_signed_bytes(file, fields[f].range) = made[f].cms.digest => Intact(f)
<1> DEFINE s == made[f].file
           r == fields[f].range
<1>1. s \in Seq(Cells) /\ file \in Seq(Cells) /\ made[f].cms.digest = extract_signed_bytes(s, r)
  BY MadeFacts DEF MadeOK, IInv
<1>2. PICK g \in Nat \ {0}, n \in Nat, h \in Nat : g + n + h = Len(s) /\ r = <<0, g, g + n, h>>
  BY RangeNumbers
<1> HIDE DEF r, s
<1> DEFINE e == extract_signed_bytes(s, r)
           d == extract_signed_bytes(file, r)
<1>3. IsExtract(e, s, g, n, h)
  <2>1. g \in Nat /\ g + n + h <= Len(s)
    BY <1>2
  <2>2. IsExtract(extract_signed_bytes(s, <<0, g, g + n, h>>), s, g, n, h)
    BY <1>1, <2>1, ExtractCells
  <2> QED
    BY <1>2, <2>2
<1>4. CASE ~(g + n + h <= Len(file))
  <2>1. extract_signed_bytes(file, <<0, g, g + n, h>>) = <<>>
    BY <1>1, <1>4, ExtractNothing
  <2>2. d = <<>>
    BY <1>2, <2>1
  <2>3. ~Intact(f)
    <3>1. ~Begins(s, file)
      BY <1>2, <1>4 DEF Begins
    <3> QED
      BY <3>1, IntactOrAnew DEF FollowedBy, s
  <2> QED
    BY <2>2, <2>3 DEF r
<1>5. CASE g + n + h <= Len(file)
  <2>1. IsExtract(d, file, g, n, h)
    <3>1. g \in Nat
      OBVIOUS
    <3>2. IsExtract(extract_signed_bytes(file, <<0, g, g + n, h>>), file, g, n, h)
      BY <1>1, <1>5, <3>1, ExtractCells
    <3> QED
      BY <1>2, <3>2
  <2> HIDE DEF d, e
  <2>2. ASSUME Intact(f)
        PROVE  d = e /\ d # <<>>
    <3>1. Begins(s, file)
      BY <2>2, IntactOrAnew DEF FollowedBy, s
    <3>2. \A i \in 1 .. g + h : IF i <= g THEN i \in 1 .. Len(s) ELSE i + n \in 1 .. Len(s)
      BY <1>2
    <3>3. \A i \in 1 .. Len(s) : file[i] = s[i]
      BY <3>1 DEF Begins
    <3>4. \A i \in 1 .. g + h : d[i] = e[i]
      BY <1>3, <2>1, <3>2, <3>3 DEF IsExtract
    <3>5. Len(d) = g + h /\ Len(e) = g + h /\ d \in Seq(Cells) /\ e \in Seq(Cells) /\ g + h # 0
      BY <1>3, <2>1 DEF IsExtract
    <3> QED
      BY <3>4, <3>5
  <2>3. ASSUME d = e
        PROVE  Intact(f)
    <3>1. 1 \in 1 .. g + h /\ 1 <= g
      OBVIOUS
    <3>2. e[1] = s[1] /\ d[1] = file[1]
      BY <1>3, <2>1, <3>1 DEF IsExtract
    <3>3. ~WrittenAnew(made[f], file)
      BY <2>3, <3>2 DEF WrittenAnew, s
    <3> QED
      BY <3>3, IntactOrAnew
  <2> QED
    BY <1>1, <2>2, <2>3 DEF d, e, r
<1> QED
  BY <1>4, <1>5

\* The /Contents of a signature: its blob, then zeros.
LEMMA BlobOf ==
    ASSUME IInv, NEW f \in 1 .. Len(made)
    PROVE  \E size \in Nat \ {0}, zero \in BOOLEAN :
             /\ made[f].cms.bytes = Der(f, size, zero)
             /\ size <= Len(fields[f].contents)
             /\ \A k \in 1 .. Len(fields[f].contents) :
                  fields[f].contents[k] = IF k <= size THEN Der(f, size, zero)[k] ELSE Zero
<1>1. Filled(f, made[f], fields[f])
  BY MadeFacts DEF MadeOK
<1>2. Len(fields[f].contents) \in Nat
  <2>1. fields[f].contents \in Seq(Cells)
    BY MadeFacts DEF FieldRecords
  <2> QED
    BY <2>1
<1>3. \A size \in 1 .. Len(fields[f].contents) : size \in Nat \ {0} /\ size <= Len(fields[f].contents)
  BY <1>2
<1> QED
  BY <1>1, <1>3, Zenon DEF Filled

\* A signature is read back from its own /Contents unless it ends in a zero.
LEMMA ReadsItself ==
    ASSUME IInv, NEW f \in 1 .. Len(made)
    PROVE  Parsed(fields[f].contents) = IF EndsInZero(f) THEN {} ELSE {f}
<1> DEFINE s == fields[f].contents
           t == trim_trailing_zeros(s)
<1>1. s \in Seq(Cells)
  BY MadeFacts DEF FieldRecords
<1>2. PICK size \in Nat \ {0}, zero \in BOOLEAN :
        /\ made[f].cms.bytes = Der(f, size, zero)
        /\ size <= Len(s)
        /\ \A k \in 1 .. Len(s) : s[k] = IF k <= size THEN Der(f, size, zero)[k] ELSE Zero
  BY BlobOf
<1> HIDE DEF s
<1> DEFINE b == Der(f, size, zero)
<1>3. /\ b \in Seq(Cells) /\ Len(b) = size
      /\ \A k \in 1 .. size : b[k] = Zero <=> zero /\ k = size
      /\ ~zero \/ size > 1 => b[1].v = <<f, 1>>
  BY DerCells
<1> HIDE DEF b
<1>4. made[f].cms.bytes = b /\ \A k \in 1 .. Len(s) : s[k] = IF k <= size THEN b[k] ELSE Zero
  BY <1>2 DEF b
<1>5. EndsInZero(f) <=> zero
  <2>1. Last(b) = b[size]
    BY <1>3 DEF Last
  <2>2. size \in 1 .. size
    OBVIOUS
  <2>3. Last(b) = Zero <=> zero
    BY <1>3, <2>1, <2>2
  <2> QED
    BY <1>4, <2>3 DEF EndsInZero
<1>6. DOMAIN made = 1 .. Len(made) /\ made \in Seq(MadeRecords)
  BY DEF IInv
<1>7. \A k : k \in Parsed(s) <=> k \in 1 .. Len(made) /\ made[k].cms.bytes = t
  BY <1>6 DEF Parsed
<1>8. CASE ~zero
  <2>1. t = b
    <3>1. size > 0 => s[size] # Zero
      BY <1>2, <1>3, <1>4, <1>8
    <3>2. \A k \in size + 1 .. Len(s) : s[k] = Zero
      BY <1>1, <1>4
    <3>3. size \in 0 .. Len(s)
      BY <1>1, <1>2
    <3>4. t \in Seq(Cells) /\ Len(t) = size /\ \A k \in 1 .. size : t[k] = s[k]
      BY <1>1, <3>1, <3>2, <3>3, TrimCells
    <3> HIDE DEF t
    <3>5. \A k \in 1 .. size : t[k] = b[k]
      BY <1>1, <1>2, <1>4, <3>4
    <3> QED
      BY <1>3, <3>4, <3>5
  <2>2. ASSUME NEW k \in 1 .. Len(made), made[k].cms.bytes = t
        PROVE  k = f
    <3>1. PICK length \in Nat \ {0}, last \in BOOLEAN : made[k].cms.bytes = Der(k, length, last)
      BY BlobOf
    <3>2. Der(f, size, zero) = Der(k, length, last)
      BY <2>1, <2>2, <3>1 DEF b
    <3>3. f \in Nat /\ k \in Nat
      OBVIOUS
    <3> QED
      BY <1>8, <3>2, <3>3, DerDiffer
  <2>3. made[f].cms.bytes = t
    BY <1>4, <2>1
  <2> HIDE DEF t
  <2>4. Parsed(s) = {f}
    BY <1>7, <2>2, <2>3
  <2> QED
    BY <1>5, <1>8, <2>4 DEF s
<1>9. CASE zero
  <2>1. t \in Seq(Cells) /\ Len(t) = size - 1 /\ \A k \in 1 .. size - 1 : t[k] = s[k]
    <3>1. size - 1 > 0 => s[size - 1] # Zero
      <4>1. ASSUME size - 1 > 0
            PROVE  size - 1 \in 1 .. Len(s) /\ size - 1 \in 1 .. size /\ size - 1 # size /\ size - 1 <= size
        BY <1>1, <1>2, <4>1
      <4> QED
        BY <1>3, <1>4, <4>1
    <3>2. \A k \in (size - 1) + 1 .. Len(s) : s[k] = Zero
      <4>1. ASSUME NEW k \in (size - 1) + 1 .. Len(s)
            PROVE  k \in 1 .. Len(s) /\ (k <= size => k = size /\ k \in 1 .. size)
        BY <1>1
      <4> QED
        BY <1>3, <1>4, <1>9, <4>1
    <3>3. size - 1 \in 0 .. Len(s)
      BY <1>1, <1>2
    <3> QED
      BY <1>1, <3>1, <3>2, <3>3, TrimCells
  <2> HIDE DEF t
  <2>2. ASSUME NEW k \in 1 .. Len(made), made[k].cms.bytes = t
        PROVE  FALSE
    <3>1. PICK length \in Nat \ {0}, last \in BOOLEAN : made[k].cms.bytes = Der(k, length, last)
      BY BlobOf
    <3> DEFINE d == Der(k, length, last)
    <3>2. /\ Len(d) = length
          /\ \A i \in 1 .. length : d[i] = Zero <=> last /\ i = length
          /\ ~last \/ length > 1 => d[1].v = <<k, 1>>
      BY DerCells
    <3> HIDE DEF d
    <3>3. t = d
      BY <2>2, <3>1 DEF d
    <3>4. length = size - 1
      BY <2>1, <3>2, <3>3
    <3>5. \A i \in 1 .. size - 1 : d[i] = b[i]
      BY <1>1, <1>2, <1>4, <2>1, <3>3
    <3>6. ~last
      <4>1. length \in 1 .. length /\ length \in 1 .. size - 1 /\ length \in 1 .. size /\ length # size
        BY <3>4
      <4> QED
        BY <1>3, <3>2, <3>5, <4>1
    <3>7. <<k, 1>> = <<f, 1>>
      <4>1. size > 1 /\ 1 \in 1 .. size - 1
        BY <3>4
      <4> QED
        BY <1>3, <3>2, <3>5, <3>6, <4>1
    <3>8. t = b
      BY <1>4, <2>2, <3>7
    <3> QED
      BY <1>3, <2>1, <3>8
  <2>3. Parsed(s) = {}
    BY <1>7, <2>2
  <2> QED
    BY <1>5, <1>9, <2>3 DEF s
<1> QED
  BY <1>8, <1>9

\* What verify_one finds of signature f.
LEMMA VerdictOf ==
    ASSUME IInv, NEW f \in 1 .. Len(made), NEW anchors
    PROVE  LET v == verify_one(f, anchors)
               c == made[f].cms
               revoked == \E crl \in Material(f).crls : c.cert \in crl
               trust == evaluate_trust(c.cert, c.chain, anchors, revoked)
               coverage == compute_coverage(fields[f].range)
           IN  /\ v.validity \in {"Valid", "Invalid", "Error"}
               /\ v.validity = "Valid" <=> Intact(f) /\ ~EndsInZero(f)
               /\ Intact(f) => v.coverage = coverage
               /\ v.status = IF v.validity = "Valid" THEN overall_status("Valid", trust, coverage)
                             ELSE v.validity
<1> DEFINE v == verify_one(f, anchors)
           c == made[f].cms
           revoked == \E crl \in Material(f).crls : c.cert \in crl
           trust == evaluate_trust(c.cert, c.chain, anchors, revoked)
           coverage == compute_coverage(fields[f].range)
           signed == extract_signed_bytes(file, fields[f].range)
           parsed == Parsed(fields[f].contents)
<1>1. parsed = IF EndsInZero(f) THEN {} ELSE {f}
  BY ReadsItself
<1>2. /\ Intact(f) => signed = c.digest /\ signed # <<>>
      /\ signed # <<>> /\ signed = c.digest => Intact(f)
  BY SignedBytes
<1>3. CASE signed = <<>>
  <2>1. v = Error("ModifiedAfterSigning")
    BY <1>3 DEF verify_one
  <2>2. v.validity = "Error" /\ v.status = "Error"
    BY <2>1 DEF Error
  <2> QED
    BY <1>2, <1>3, <2>2
<1>4. CASE signed # <<>> /\ EndsInZero(f)
  <2>1. v = Error(coverage)
    BY <1>1, <1>4 DEF verify_one
  <2> HIDE DEF coverage
  <2>2. v.validity = "Error" /\ v.status = "Error" /\ v.coverage = coverage
    BY <2>1 DEF Error
  <2> QED
    BY <1>4, <2>2 DEF coverage
<1>5. CASE signed # <<>> /\ ~EndsInZero(f)
  <2> DEFINE validity == IF c.digest = signed THEN "Valid" ELSE "Invalid"
  <2>1. parsed = {f} /\ (CHOOSE k \in {f} : TRUE) = f
    BY <1>1, <1>5
  <2>2. v = [validity |-> validity, trust |-> trust, coverage |-> coverage,
             status |-> overall_status(validity, trust, coverage), level |-> PadesLevel(f)]
    BY <1>5, <2>1, Zenon DEF verify_one
  <2> HIDE DEF v, trust, coverage, signed, c
  <2>3. /\ v.validity = validity /\ v.coverage = coverage
        /\ v.status = overall_status(validity, trust, coverage)
    BY <2>2
  <2>4. overall_status("Invalid", trust, coverage) = "Invalid"
    BY DEF overall_status
  <2>5. v.validity = "Valid" <=> Intact(f)
    BY <1>2, <1>5, <2>3
  <2> QED
    BY <1>5, <2>3, <2>4, <2>5 DEF v, trust, coverage, signed, c
<1> QED
  BY <1>3, <1>4, <1>5

\* compute_coverage tells of an intact file whether a revision came after the
\* signature.
LEMMA CoverageOf ==
    ASSUME IInv, NEW f \in 1 .. Len(made), Intact(f)
    PROVE  compute_coverage(fields[f].range) = "WholeFile" <=> made[f].revision = revisions
<1> DEFINE L == Len(made[f].file)
<1>1. /\ made[f].file \in Seq(Cells) /\ L \in Nat /\ Margin = 3
      /\ file \in Seq(Cells) /\ made[f].revision \in 1 .. revisions
  BY MadeFacts, Constant DEF IInv
<1>2. FollowedBy(made[f], file, revisions)
  BY IntactOrAnew
<1>3. compute_coverage(fields[f].range) = "WholeFile" <=> L + Margin >= Len(file)
  <2>1. PICK g \in Nat \ {0}, n \in Nat, h \in Nat : g + n + h = L /\ fields[f].range = <<0, g, g + n, h>>
    BY RangeNumbers
  <2> HIDE DEF L
  <2>2. fields[f].range[3] + fields[f].range[4] = L
    BY <2>1
  <2> QED
    BY <2>2 DEF compute_coverage
<1>4. CASE made[f].revision # revisions
  <2>1. Len(file) > L + Margin
    BY <1>2, <1>4 DEF FollowedBy
  <2> HIDE DEF L
  <2> QED
    BY <1>1, <1>3, <1>4, <2>1
<1>5. CASE made[f].revision = revisions
  <2>1. /\ \A k \in L + 1 .. Len(file) : file[k].t = "newline"
        /\ Len(file) > L => Cardinality(Newlines(file)) <= Margin
        /\ L <= Len(file)
    BY <1>2, <1>5 DEF FollowedBy, Begins
  <2> HIDE DEF L
  <2>2. CASE Len(file) > L
    <3> DEFINE I == L + 1 .. Len(file)
    <3>1. I \subseteq Newlines(file)
      <4>1. ASSUME NEW k \in I
            PROVE  k \in 1 .. Len(file)
        BY <1>1
      <4>2. DOMAIN file = 1 .. Len(file)
        BY <1>1
      <4> QED
        BY <2>1, <4>1, <4>2 DEF Newlines
    <3>2. Newlines(file) \subseteq 1 .. Len(file) /\ IsFiniteSet(1 .. Len(file))
      <4>1. DOMAIN file = 1 .. Len(file) /\ Len(file) \in Int
        BY <1>1
      <4> QED
        BY <4>1, FS_Interval DEF Newlines
    <3>3. IsFiniteSet(Newlines(file))
      BY <3>2, FS_Subset
    <3>4. Cardinality(I) <= Cardinality(Newlines(file)) /\ Cardinality(Newlines(file)) \in Nat
      BY <3>1, <3>3, FS_Subset, FS_CardinalityType
    <3>5. Cardinality(I) = Len(file) - L
      <4>1. L + 1 \in Int /\ Len(file) \in Int /\ ~(L + 1 > Len(file)) /\ Len(file) - (L + 1) + 1 = Len(file) - L
        BY <1>1, <2>2
      <4> QED
        BY <4>1, FS_Interval
    <3> HIDE DEF I
    <3>6. Len(file) \in Nat
      BY <1>1
    <3>7. L + Margin >= Len(file)
      BY <1>1, <2>1, <2>2, <3>4, <3>5, <3>6
    <3> QED
      BY <1>3, <1>5, <3>7
  <2>3. CASE ~(Len(file) > L)
    BY <1>1, <1>3, <1>5, <2>3
  <2> QED
    BY <2>2, <2>3
<1> QED
  BY <1>4, <1>5

\* The types of the state.
LEMMA TypesOK ==
    ASSUME IInv
    PROVE  TypeOK
<1>1. /\ pc \in {"idle", "staged", "ranged", "built"}
      /\ pc = "idle" => staged = <<>>
  BY DEF IInv, Signing
<1>2. pc # "idle" => staged # <<>>
  <2>1. SUFFICES ASSUME pc # "idle"
                 PROVE  staged # <<>>
    OBVIOUS
  <2>2. /\ file \in Seq(Cells) /\ JobOK(job) /\ revisions + 1 \in Nat
        /\ \E range : Laid(file, staged, job.reserved, revisions + 1, range)
    BY <2>1 DEF IInv, Signing
  <2>3. staged \in Seq(Cells) /\ Len(staged) = Len(file) + job.reserved + 8 /\ job.reserved \in Nat
    BY <2>2, LaidRange DEF JobOK
  <2> QED
    BY <2>2, <2>3
<1>3. calls \in 0 .. MaxCalls /\ revisions \in 0 .. MaxCalls /\ Len(fields) = Len(made)
  BY Constant DEF IInv
<1>4. ASSUME NEW f \in DOMAIN fields
      PROVE  /\ Len(fields[f].range) = 4
             /\ \A k \in DOMAIN fields[f].contents : fields[f].contents[k].t = "byte"
  <2>1. f \in 1 .. Len(made)
    BY <1>3 DEF IInv
  <2>2. Len(fields[f].range) = 4
    <3>1. PICK g \in Nat \ {0}, n \in Nat, h \in Nat : fields[f].range = <<0, g, g + n, h>>
      BY <2>1, RangeNumbers
    <3> QED
      BY <3>1
  <2>3. ASSUME NEW k \in DOMAIN fields[f].contents
        PROVE  fields[f].contents[k].t = "byte"
    <3>1. PICK size \in Nat \ {0}, zero \in BOOLEAN :
            \A l \in 1 .. Len(fields[f].contents) :
              fields[f].contents[l] = IF l <= size THEN Der(f, size, zero)[l] ELSE Zero
      BY <2>1, BlobOf
    <3>2. k \in 1 .. Len(fields[f].contents)
      <4>1. fields[f].contents \in Seq(Cells)
        BY <2>1, MadeFacts DEF FieldRecords
      <4> QED
        BY <4>1
    <3>3. Zero.t = "byte"
      BY CellParts DEF Zero
    <3>4. ASSUME k <= size
          PROVE  Der(f, size, zero)[k].t = "byte"
      <4>1. Len(fields[f].contents) \in Nat
        BY <2>1, MadeFacts DEF FieldRecords
      <4>2. k \in 1 .. size /\ f \in Nat
        BY <2>1, <3>2, <3>4, <4>1
      <4> QED
        BY <4>2, DerCells
    <3> QED
      BY <3>1, <3>2, <3>3, <3>4
  <2> QED
    BY <2>2, <2>3
<1> QED
  BY <1>1, <1>2, <1>3, <1>4 DEF TypeOK

\* verify_one calls a signature valid exactly as long as the file it was made
\* in is the beginning of the present one (and its blob does not end in a zero
\* byte), and tells whether anything but a line end was added.
THEOREM VerdictsAreTrue == Spec => []VerdictIsTrue
<1>1. IInv => VerdictIsTrue
  <2> SUFFICES ASSUME IInv
               PROVE  VerdictIsTrue
    OBVIOUS
  <2>1. TypeOK
    BY TypesOK
  <2>2. ASSUME NEW f \in DOMAIN fields
        PROVE  /\ verify_one(f, {}).validity = "Valid" <=> Intact(f) /\ ~EndsInZero(f)
               /\ Intact(f) => (verify_one(f, {}).coverage = "WholeFile" <=> made[f].revision = revisions)
    <3>1. f \in 1 .. Len(made)
      BY DEF IInv
    <3>2. verify_one(f, {}).validity = "Valid" <=> Intact(f) /\ ~EndsInZero(f)
      BY <3>1, VerdictOf
    <3>3. Intact(f) => verify_one(f, {}).coverage = compute_coverage(fields[f].range)
      BY <3>1, VerdictOf
    <3> QED
      BY <3>1, <3>2, <3>3, CoverageOf
  <2> QED
    BY <2>1, <2>2 DEF VerdictIsTrue
<1> QED
  BY <1>1, SignaturesHold, PTL

\* Induction: a set of numbers that has 0 and the successor of each of its
\* numbers has them all.
LEMMA NatInduction0 ==
    ASSUME NEW S, 0 \in S, \A n \in Nat : n \in S => n + 1 \in S
    PROVE  Nat \subseteq S
<1> SUFFICES ASSUME NEW m \in Nat, m \notin S PROVE FALSE
  OBVIOUS
<1> DEFINE T == {n \in Nat : n \notin S}
           Less == OpToRel(<, Nat)
<1>1. \A a, b \in Nat : a < b => <<a, b>> \in Less
  BY DEF OpToRel
<1>2. IsWellFoundedOn(Less, Nat)
  BY NatLessThanWellFounded
<1> HIDE DEF Less
<1>3. PICK x \in T : \A y \in T : ~ (<<y, x>> \in Less)
  <2>1. T \subseteq Nat /\ T # {}
    OBVIOUS
  <2> HIDE DEF T
  <2> QED
    BY <1>2, <2>1, WFMin
<1>4. x # 0 /\ x \in Nat
  OBVIOUS
<1>5. x - 1 \in Nat /\ x = (x - 1) + 1 /\ x - 1 < x
  BY <1>4
<1>6. x - 1 \in T
  BY <1>5
<1>7. <<x - 1, x>> \in Less
  BY <1>1, <1>4, <1>5
<1> QED
  BY <1>3, <1>6, <1>7

\* The path to an anchor, step by step: r says of n steps and a certificate
\* whether they may lead to an anchor.
FirstOf(chain, c) ==
  LET Issuers(d) == {k \in DOMAIN chain : chain[k] # d /\ <<d, chain[k]>> \in IssuedBy}
  IN  {chain[k] : k \in {l \in Issuers(c) : \A m \in Issuers(c) : l <= m}}
Leads(chain, anchors, r, n) ==
  [c \in Certs |->
     /\ n > 0
     /\ \/ \E a \in anchors : <<c, a>> \in IssuedBy
        \/ \E i \in FirstOf(chain, c) : i \in anchors \/ r[n - 1][i]]
IsReach(chain, anchors, N, r) == r = [n \in 0 .. N |-> Leads(chain, anchors, r, n)]

\* A step looks at the steps before it only.
LEMMA LeadsAlike ==
    ASSUME NEW chain, NEW anchors, NEW r, NEW s, NEW n \in Nat, n > 0 => r[n - 1] = s[n - 1]
    PROVE  Leads(chain, anchors, r, n) = Leads(chain, anchors, s, n)
<1>1. CASE n > 0
  BY <1>1, Zenon DEF Leads
<1>2. CASE ~(n > 0)
  <2> DEFINE A(c) == \E a \in anchors : <<c, a>> \in IssuedBy
             B(h, c) == \E i \in FirstOf(chain, c) : i \in anchors \/ h[n - 1][i]
  <2>1. /\ Leads(chain, anchors, r, n) = [c \in Certs |-> n > 0 /\ (A(c) \/ B(r, c))]
        /\ Leads(chain, anchors, s, n) = [c \in Certs |-> n > 0 /\ (A(c) \/ B(s, c))]
    BY DEF Leads
  <2> HIDE DEF A, B
  <2> QED
    BY <1>2, <2>1
<1> QED
  BY <1>1, <1>2

\* There is such a path function for every depth.
LEMMA ReachExists ==
    ASSUME NEW chain, NEW anchors, NEW N \in Nat
    PROVE  \E r : IsReach(chain, anchors, N, r)
<1> DEFINE S == {k \in Nat : \E r : IsReach(chain, anchors, k, r)}
<1>1. 0 \in S
  <2> DEFINE r == [n \in 0 .. 0 |-> Leads(chain, anchors, <<>>, n)]
  <2>1. ASSUME NEW n \in 0 .. 0
        PROVE  Leads(chain, anchors, <<>>, n) = Leads(chain, anchors, r, n)
    <3>1. n \in Nat /\ ~(n > 0)
      OBVIOUS
    <3> HIDE DEF r
    <3> QED
      BY <3>1, LeadsAlike
  <2>2. r = [n \in 0 .. 0 |-> Leads(chain, anchors, r, n)]
    BY <2>1, Zenon
  <2> QED
    BY <2>2 DEF IsReach
<1>2. ASSUME NEW k \in Nat, k \in S
      PROVE  k + 1 \in S
  <2>1. PICK r : IsReach(chain, anchors, k, r)
    BY <1>2
  <2> DEFINE s == [n \in 0 .. k + 1 |-> Leads(chain, anchors, r, n)]
  <2>2. \A n \in 0 .. k : s[n] = r[n]
    <3>1. \A n \in 0 .. k : n \in 0 .. k + 1
      OBVIOUS
    <3>2. \A n \in 0 .. k : r[n] = Leads(chain, anchors, r, n)
      BY <2>1, Zenon DEF IsReach
    <3> QED
      BY <3>1, <3>2
  <2>3. ASSUME NEW n \in 0 .. k + 1
        PROVE  Leads(chain, anchors, r, n) = Leads(chain, anchors, s, n)
    <3>1. n \in Nat /\ (n > 0 => n - 1 \in 0 .. k)
      OBVIOUS
    <3> HIDE DEF s
    <3>2. n > 0 => r[n - 1] = s[n - 1]
      BY <2>2, <3>1
    <3> QED
      BY <3>1, <3>2, LeadsAlike
  <2>4. s = [n \in 0 .. k + 1 |-> Leads(chain, anchors, s, n)]
    BY <2>3, Zenon
  <2>5. IsReach(chain, anchors, k + 1, s)
    BY <2>4 DEF IsReach
  <2> QED
    BY <2>5
<1> HIDE DEF S
<1>3. Nat \subseteq S
  BY <1>1, <1>2, NatInduction0
<1> QED
  BY <1>3 DEF S

\* A path of n issuing links from a certificate over the chain to an anchor.
IsPath(path, n, c, chain, anchors) ==
  /\ path \in [0 .. n -> {c} \cup ToSet(chain) \cup anchors]
  /\ path[0] = c /\ path[n] \in anchors
  /\ \A k \in 1 .. n : <<path[k - 1], path[k]>> \in IssuedBy
  /\ \A k \in 1 .. n - 1 : path[k] \in ToSet(chain)

\* An anchor needs no link, and what an anchor issued one.
LEMMA ShortPaths ==
    ASSUME NEW chain, NEW anchors, NEW c
    PROVE  /\ c \in anchors => \E path : IsPath(path, 0, c, chain, anchors)
           /\ \A a \in anchors : <<c, a>> \in IssuedBy => \E path : IsPath(path, 1, c, chain, anchors)
<1>1. ASSUME c \in anchors
      PROVE  \E path : IsPath(path, 0, c, chain, anchors)
  <2> DEFINE p == [k \in 0 .. 0 |-> c]
  <2>1. p \in [0 .. 0 -> {c} \cup ToSet(chain) \cup anchors] /\ p[0] = c
    OBVIOUS
  <2>2. 1 .. 0 = {} /\ 1 .. 0 - 1 = {}
    OBVIOUS
  <2> HIDE DEF p
  <2>3. IsPath(p, 0, c, chain, anchors)
    BY <1>1, <2>1, <2>2 DEF IsPath
  <2> QED
    BY <2>3
<1>2. ASSUME NEW a \in anchors, <<c, a>> \in IssuedBy
      PROVE  \E path : IsPath(path, 1, c, chain, anchors)
  <2> DEFINE p == [k \in 0 .. 1 |-> IF k = 0 THEN c ELSE a]
  <2>1. p \in [0 .. 1 -> {c} \cup ToSet(chain) \cup anchors] /\ p[0] = c /\ p[1] = a
    OBVIOUS
  <2>2. \A k \in 1 .. 1 : k - 1 = 0 /\ k = 1
    OBVIOUS
  <2>3. 1 .. 1 - 1 = {}
    OBVIOUS
  <2> HIDE DEF p
  <2>4. \A k \in 1 .. 1 : <<p[k - 1], p[k]>> \in IssuedBy
    BY <1>2, <2>1, <2>2
  <2>5. IsPath(p, 1, c, chain, anchors)
    BY <2>1, <2>3, <2>4 DEF IsPath
  <2> QED
    BY <2>5
<1> QED
  BY <1>1, <1>2

\* A path from the issuer is one link longer from the certificate.
LEMMA LongerPath ==
    ASSUME NEW chain, NEW anchors, NEW c, NEW i \in ToSet(chain), <<c, i>> \in IssuedBy,
           NEW m \in Nat, NEW path, IsPath(path, m, i, chain, anchors)
    PROVE  \E longer : IsPath(longer, m + 1, c, chain, anchors)
<1> DEFINE q == [k \in 0 .. m + 1 |-> IF k = 0 THEN c ELSE path[k - 1]]
<1>1. /\ path \in [0 .. m -> {i} \cup ToSet(chain) \cup anchors]
      /\ path[0] = i /\ path[m] \in anchors
      /\ \A k \in 1 .. m : <<path[k - 1], path[k]>> \in IssuedBy
      /\ \A k \in 1 .. m - 1 : path[k] \in ToSet(chain)
  BY DEF IsPath
<1>2. \A k \in 0 .. m : path[k] \in {c} \cup ToSet(chain) \cup anchors
  BY <1>1
<1>3. \A k \in 0 .. m + 1 : k # 0 => k - 1 \in 0 .. m
  OBVIOUS
<1>4. q \in [0 .. m + 1 -> {c} \cup ToSet(chain) \cup anchors]
  BY <1>2, <1>3
<1>5. q[0] = c /\ \A k \in 0 .. m : q[k + 1] = path[k]
  <2>1. 0 \in 0 .. m + 1
    OBVIOUS
  <2>2. \A k \in 0 .. m : k + 1 \in 0 .. m + 1 /\ k + 1 # 0 /\ (k + 1) - 1 = k
    OBVIOUS
  <2> QED
    BY <2>1, <2>2
<1> HIDE DEF q
<1>6. q[m + 1] \in anchors
  BY <1>1, <1>5
<1>7. ASSUME NEW k \in 1 .. m + 1
      PROVE  <<q[k - 1], q[k]>> \in IssuedBy
  <2>1. k - 1 \in 0 .. m /\ (k - 1) + 1 = k
    OBVIOUS
  <2>2. q[k] = path[k - 1]
    BY <1>5, <2>1
  <2>3. CASE k = 1
    <3>1. k - 1 = 0
      BY <2>3
    <3>2. q[k - 1] = c /\ q[k] = i
      BY <1>1, <1>5, <2>2, <3>1
    <3> QED
      BY <3>2
  <2>4. CASE k # 1
    <3>1. k - 1 \in 1 .. m /\ k - 2 \in 0 .. m /\ (k - 2) + 1 = k - 1 /\ (k - 1) - 1 = k - 2
      BY <2>4
    <3>2. q[k - 1] = path[k - 2]
      BY <1>5, <3>1
    <3>3. <<path[k - 2], path[k - 1]>> \in IssuedBy
      BY <1>1, <3>1
    <3> QED
      BY <2>2, <3>2, <3>3
  <2> QED
    BY <2>3, <2>4
<1>8. ASSUME NEW k \in 1 .. (m + 1) - 1
      PROVE  q[k] \in ToSet(chain)
  <2>1. k - 1 \in 0 .. m /\ (k - 1) + 1 = k
    OBVIOUS
  <2>2. q[k] = path[k - 1]
    BY <1>5, <2>1
  <2>3. k = 1 => q[k] = i
    BY <1>1, <2>2
  <2>4. k # 1 => k - 1 \in 1 .. m - 1
    OBVIOUS
  <2> QED
    BY <1>1, <2>2, <2>3, <2>4
<1>9. IsPath(q, m + 1, c, chain, anchors)
  BY <1>4, <1>5, <1>6, <1>7, <1>8 DEF IsPath
<1> QED
  BY <1>9

\* What may lead to an anchor within n steps does, over n links at most.
LEMMA ReachIsPath ==
    ASSUME NEW chain, \A k \in DOMAIN chain : chain[k] \in Certs,
           NEW anchors, NEW N \in Nat, NEW r, IsReach(chain, anchors, N, r)
    PROVE  \A c \in Certs : r[N][c] => \E m \in 0 .. N : \E path : IsPath(path, m, c, chain, anchors)
<1> DEFINE Within(n, c) == \E m \in 0 .. n : \E path : IsPath(path, m, c, chain, anchors)
<1> HIDE DEF Within
<1> DEFINE S == {n \in Nat : n <= N => \A c \in Certs : r[n][c] => Within(n, c)}
<1>0. ASSUME NEW n \in 0 .. N
      PROVE  r[n] = Leads(chain, anchors, r, n)
  BY Zenon DEF IsReach
<1>1. 0 \in S
  <2>1. \A c \in Certs : ~r[0][c]
    <3>1. r[0] = Leads(chain, anchors, r, 0) /\ ~(0 > 0)
      BY <1>0
    <3> QED
      BY <3>1, Zenon DEF Leads
  <2> QED
    BY <2>1
<1>2. ASSUME NEW n \in Nat, n \in S
      PROVE  n + 1 \in S
  <2>1. SUFFICES ASSUME n + 1 <= N, NEW c \in Certs, r[n + 1][c]
                 PROVE  Within(n + 1, c)
    OBVIOUS
  <2>2. n + 1 \in 0 .. N /\ n <= N /\ (n + 1) - 1 = n
    BY <2>1
  <2>3. \A d \in Certs : r[n][d] => Within(n, d)
    BY <1>2, <2>2
  <2>4. r[n + 1] = Leads(chain, anchors, r, n + 1)
    BY <1>0, <2>2
  <2>5. \/ \E a \in anchors : <<c, a>> \in IssuedBy
        \/ \E i \in FirstOf(chain, c) : i \in anchors \/ r[n][i]
    <3>1. Leads(chain, anchors, r, n + 1)[c]
      BY <2>1, <2>4
    <3>2. \/ \E a \in anchors : <<c, a>> \in IssuedBy
          \/ \E i \in FirstOf(chain, c) : i \in anchors \/ r[(n + 1) - 1][i]
      BY <3>1, Zenon DEF Leads
    <3> QED
      BY <2>2, <3>2
  <2>6. \A i \in FirstOf(chain, c) : i \in Certs /\ <<c, i>> \in IssuedBy /\ i \in ToSet(chain)
    BY DEF FirstOf, ToSet
  <2>7. 1 \in 0 .. n + 1 /\ \A m \in 0 .. n : m \in Nat /\ m + 1 \in 0 .. n + 1
    OBVIOUS
  <2>8. ASSUME NEW a \in anchors, <<c, a>> \in IssuedBy
        PROVE  Within(n + 1, c)
    BY <2>7, <2>8, ShortPaths DEF Within
  <2>9. ASSUME NEW i \in FirstOf(chain, c), r[n][i]
        PROVE  Within(n + 1, c)
    <3>1. Within(n, i)
      BY <2>3, <2>6, <2>9
    <3>2. PICK m \in 0 .. n : \E path : IsPath(path, m, i, chain, anchors)
      BY <3>1 DEF Within
    <3>3. PICK path : IsPath(path, m, i, chain, anchors)
      BY <3>2
    <3>4. \E longer : IsPath(longer, m + 1, c, chain, anchors)
      BY <2>6, <2>7, <3>3, LongerPath
    <3> QED
      BY <2>7, <3>4 DEF Within
  <2> QED
    BY <2>5, <2>6, <2>8, <2>9
<1> HIDE DEF S
<1>3. N \in S
  BY <1>1, <1>2, NatInduction0
<1> QED
  BY <1>3 DEF S, Within

\* chains_to_anchor finds only anchors to which a path leads.
LEMMA ChainsLead ==
    ASSUME NEW chain, \A k \in DOMAIN chain : chain[k] \in Certs,
           NEW anchors, NEW c \in Certs, chains_to_anchor(c, chain, anchors)
    PROVE  LeadsToAnchor(c, chain, anchors)
<1> DEFINE r == CHOOSE r : IsReach(chain, anchors, MAX_CHAIN_DEPTH, r)
<1>1. MAX_CHAIN_DEPTH \in Nat /\ 0 \in 0 .. MAX_CHAIN_DEPTH
  BY DEF MAX_CHAIN_DEPTH
<1>2. IsReach(chain, anchors, MAX_CHAIN_DEPTH, r)
  BY <1>1, ReachExists, Zenon
<1>3. c \in anchors \/ r[MAX_CHAIN_DEPTH][c]
  BY Zenon DEF chains_to_anchor, IsReach, Leads, FirstOf
<1> HIDE DEF r
<1>4. r[MAX_CHAIN_DEPTH][c] =>
        \E m \in 0 .. MAX_CHAIN_DEPTH : \E path : IsPath(path, m, c, chain, anchors)
  BY <1>1, <1>2, ReachIsPath
<1>5. c \in anchors => \E path : IsPath(path, 0, c, chain, anchors)
  BY ShortPaths
<1>6. PICK m \in 0 .. MAX_CHAIN_DEPTH : \E path : IsPath(path, m, c, chain, anchors)
  BY <1>1, <1>3, <1>4, <1>5
<1>7. PICK path : IsPath(path, m, c, chain, anchors)
  BY <1>6
<1> QED
  BY <1>7, Zenon DEF IsPath, LeadsToAnchor

\* The certificates of a signature.
LEMMA CertsOf ==
    ASSUME IInv, NEW f \in 1 .. Len(made)
    PROVE  /\ made[f].cms.cert \in Certs
           /\ \A k \in DOMAIN made[f].cms.chain : made[f].cms.chain[k] \in Certs
<1>1. made[f].cms \in CmsRecords
  BY MadeFacts DEF MadeRecords
<1>2. made[f].cms.cert \in Certs
  BY <1>1 DEF CmsRecords
<1>3. PICK i \in Identities : made[f].cms.chain = i.chain
  BY <1>1 DEF CmsRecords
<1>4. ASSUME NEW k \in DOMAIN i.chain
      PROVE  i.chain[k] \in Certs
  <2>1. i.chain[k] \in {i.cert} \cup ToSet(i.chain)
    BY DEF ToSet
  <2> QED
    BY <2>1, Zenon DEF Certs
<1> QED
  BY <1>2, <1>3, <1>4

\* evaluate_trust says Trusted only after every other check.
LEMMA TrustedMeans ==
    ASSUME NEW signer, NEW chain, NEW anchors, NEW revoked \in BOOLEAN,
           evaluate_trust(signer, chain, anchors, revoked) = "Trusted"
    PROVE  ~revoked /\ signer \notin ExpiredCerts /\ chains_to_anchor(signer, chain, anchors)
<1>1. CASE revoked
  BY <1>1 DEF evaluate_trust
<1>2. CASE ~revoked /\ anchors = {}
  BY <1>2 DEF evaluate_trust
<1>3. CASE ~revoked /\ anchors # {} /\ signer \in ExpiredCerts
  BY <1>3 DEF evaluate_trust
<1>4. CASE ~revoked /\ anchors # {} /\ signer \notin ExpiredCerts
  <2>1. evaluate_trust(signer, chain, anchors, revoked) =
          IF chains_to_anchor(signer, chain, anchors) THEN "Trusted" ELSE "Untrusted"
    BY <1>4 DEF evaluate_trust
  <2> QED
    BY <1>4, <2>1
<1> QED
  BY <1>1, <1>2, <1>3, <1>4

\* The revocation lists for a signature are those of the document's /DSS.
LEMMA MaterialRevokes ==
    ASSUME IInv, NEW f
    PROVE  Material(f).crls = dss.crls
<1>1. MatchedVri(f) \subseteq dss.vri
  BY DEF MatchedVri
<1>2. CASE MatchedVri(f) = {}
  BY <1>2 DEF Material
<1>3. CASE MatchedVri(f) # {}
  <2>1. Material(f) \in MatchedVri(f)
    BY <1>3 DEF Material
  <2> QED
    BY <1>1, <2>1 DEF IInv
<1> QED
  BY <1>2, <1>3

\* The verdict Trusted is earned: the signed bytes are intact and nothing was
\* added, the certificate is neither expired nor revoked by any list that the
\* document carries, and it leads to an anchor within the depth.
THEOREM TrustHolds == Spec => []TrustIsEarned
<1>1. IInv => TrustIsEarned
  <2> SUFFICES ASSUME IInv, NEW f \in DOMAIN fields, NEW anchors \in AnchorSets,
                      verify_one(f, anchors).status = "Trusted"
               PROVE  LET c == made[f].cms.cert
                      IN  /\ Intact(f) /\ made[f].revision = revisions
                          /\ c \notin ExpiredCerts
                          /\ \A crl \in Material(f).crls \cup dss.crls : c \notin crl
                          /\ LeadsToAnchor(c, made[f].cms.chain, anchors)
    BY DEF TrustIsEarned
  <2> DEFINE c == made[f].cms.cert
             chain == made[f].cms.chain
             revoked == \E crl \in Material(f).crls : c \in crl
             trust == evaluate_trust(c, chain, anchors, revoked)
             coverage == compute_coverage(fields[f].range)
             v == verify_one(f, anchors)
  <2>1. f \in 1 .. Len(made)
    BY DEF IInv
  <2>2. /\ v.validity \in {"Valid", "Invalid", "Error"}
        /\ v.validity = "Valid" <=> Intact(f) /\ ~EndsInZero(f)
        /\ v.status = IF v.validity = "Valid" THEN overall_status("Valid", trust, coverage)
                      ELSE v.validity
    BY <2>1, VerdictOf
  <2>3. v.status = "Trusted"
    OBVIOUS
  <2>4. revoked \in BOOLEAN
    OBVIOUS
  <2>5. coverage = "WholeFile" \/ coverage = "ModifiedAfterSigning"
    BY DEF compute_coverage
  <2> HIDE DEF v, trust, coverage
  <2>6. v.validity = "Valid" /\ overall_status("Valid", trust, coverage) = "Trusted"
    BY <2>2, <2>3
  <2>7. coverage = "WholeFile" /\ trust = "Trusted"
    BY <2>5, <2>6 DEF overall_status
  <2>8. Intact(f) /\ made[f].revision = revisions
    BY <2>1, <2>2, <2>6, <2>7, CoverageOf DEF coverage
  <2>9. ~revoked /\ c \notin ExpiredCerts /\ chains_to_anchor(c, chain, anchors)
    <3> HIDE DEF revoked, c, chain
    <3>1. evaluate_trust(c, chain, anchors, revoked) = "Trusted"
      BY <2>7 DEF trust
    <3> QED
      BY <2>4, <3>1, TrustedMeans
  <2>10. LeadsToAnchor(c, chain, anchors)
    <3>1. c \in Certs /\ \A k \in DOMAIN chain : chain[k] \in Certs
      BY <2>1, CertsOf
    <3> HIDE DEF c, chain
    <3> QED
      BY <2>9, <3>1, ChainsLead
  <2>11. \A crl \in Material(f).crls \cup dss.crls : c \notin crl
    <3>1. Material(f).crls = dss.crls
      BY MaterialRevokes
    <3> QED
      BY <2>9, <3>1
  <2> QED
    BY <2>8, <2>9, <2>10, <2>11
<1> QED
  BY <1>1, SignaturesHold, PTL

\* What add_ltv_material has left: the entries of /VRI hold what the /DSS holds,
\* each under the key of a signature, and a signature that can be read back has
\* one, beside revocation material, exactly if it is among those given.
Key(f) == signature_vri_key(fields[f].contents)
Revocation == dss.ocsps # 0 \/ dss.crls # {}
EntryOK(e) ==
  /\ e.certs = dss.certs /\ e.ocsps = dss.ocsps /\ e.crls = dss.crls
  /\ \E g \in 1 .. Len(made) : e.key = Key(g)
GivenOK(f) ==
  /\ f \in given <=> MatchedVri(f) # {} /\ Revocation
  /\ MatchedVri(f) # {} => dss.certs # {}
LtvInv ==
  /\ given \subseteq 1 .. Len(made)
  /\ \A e \in dss.vri : EntryOK(e)
  /\ \A f \in 1 .. Len(made) : ~EndsInZero(f) => GivenOK(f)

\* A signature that can be read back shares its key with no other.
KeysApart == \A f, g \in 1 .. Len(made) : ~EndsInZero(f) /\ Key(f) = Key(g) => f = g

\* The invariant keeps the keys apart.
LEMMA KeysAreApart ==
    ASSUME IInv
    PROVE  KeysApart
<1> SUFFICES ASSUME NEW f \in 1 .. Len(made), NEW g \in 1 .. Len(made),
                    ~EndsInZero(f), Key(f) = Key(g)
             PROVE  f = g
  BY DEF KeysApart
<1>1. Parsed(fields[f].contents) = Parsed(fields[g].contents)
  BY DEF Key, signature_vri_key, Parsed
<1>2. Parsed(fields[f].contents) = {f}
  BY ReadsItself
<1>3. Parsed(fields[g].contents) \subseteq {g}
  BY ReadsItself
<1> QED
  BY <1>1, <1>2, <1>3

\* A call that leaves signatures and material alone.
LEMMA LtvSame ==
    ASSUME LtvInv, UNCHANGED <<fields, dss, made, given>>
    PROVE  LtvInv'
<1>1. \A e \in dss.vri : EntryOK(e)'
  BY DEF LtvInv, EntryOK, Key
<1>2. \A f \in 1 .. Len(made) : ~EndsInZero(f)' => GivenOK(f)'
  BY DEF LtvInv, GivenOK, MatchedVri, Revocation, EndsInZero
<1> QED
  BY <1>1, <1>2 DEF LtvInv

\* A new signature has no material: the /DSS that it leaves in force has no entry
\* under its key.
LEMMA LtvSigned ==
    ASSUME IInv, KeysApart', LtvInv, PatchContents
    PROVE  LtvInv'
<1>k. PICK k : k = Len(made) + 1
  OBVIOUS
<1>1. /\ Len(made) \in Nat /\ Len(made') = k /\ dss' = dss /\ given' = given
      /\ \A f \in 1 .. Len(made) : made'[f] = made[f] /\ fields'[f] = fields[f]
  BY <1>k DEF PatchContents, ClonedDss, IInv
<1>2. /\ \A f \in 1 .. Len(made) : f \in 1 .. Len(made') /\ f # k
      /\ \A f \in 1 .. Len(made') : f \in 1 .. Len(made) \/ f = k
      /\ k \in 1 .. Len(made')
  BY <1>k, <1>1
<1>3. \A f \in 1 .. Len(made) : Key(f)' = Key(f)
  BY <1>1 DEF Key
<1>4. ASSUME NEW e \in dss.vri
      PROVE  EntryOK(e)'
  BY <1>1, <1>2, <1>3, <1>4 DEF LtvInv, EntryOK
<1>5. ASSUME NEW f \in 1 .. Len(made), ~EndsInZero(f)'
      PROVE  GivenOK(f)'
  <2>1. MatchedVri(f)' = MatchedVri(f)
    BY <1>1 DEF MatchedVri
  <2>2. ~EndsInZero(f)
    BY <1>1, <1>5 DEF EndsInZero
  <2>3. GivenOK(f)
    BY <2>2 DEF LtvInv
  <2> QED
    BY <1>1, <2>1, <2>3 DEF GivenOK, Revocation
<1>6. ASSUME ~EndsInZero(k)'
      PROVE  GivenOK(k)'
  <2>1. ASSUME NEW e \in dss.vri, e.key = Key(k)'
        PROVE  FALSE
    <3>1. PICK g \in 1 .. Len(made) : e.key = Key(g)
      BY DEF LtvInv, EntryOK
    <3>2. Key(k)' = Key(g)'
      BY <1>3, <2>1, <3>1
    <3>3. k \in 1 .. Len(made') /\ g \in 1 .. Len(made') /\ g # k
      BY <1>2
    <3> QED
      BY <1>6, <3>2, <3>3 DEF KeysApart, Key, EndsInZero
  <2>2. MatchedVri(k)' = {}
    BY <1>1, <2>1 DEF MatchedVri, Key
  <2>3. k \notin given
    BY <1>2 DEF LtvInv
  <2> QED
    BY <1>1, <2>2, <2>3 DEF GivenOK
<1>7. given' \subseteq 1 .. Len(made')
  BY <1>1, <1>2 DEF LtvInv
<1>8. \A f \in 1 .. Len(made') : ~EndsInZero(f)' => GivenOK(f)'
  BY <1>2, <1>5, <1>6
<1> QED
  BY <1>1, <1>4, <1>7, <1>8 DEF LtvInv

\* add_ltv_material gives each signature it covers an entry of its own, in which
\* there is a certificate at least: the signer's, out of the blob.
LEMMA LtvGiven ==
    ASSUME IInv, KeysApart, NEW m \in Materials, AddLtv(m)
    PROVE  LtvInv'
<1> DEFINE selected == IF m.index = 0 THEN DOMAIN fields ELSE {m.index}
           embedded == UNION {ToSet(made[k].cms.chain) :
                                k \in UNION {Parsed(fields[f].contents) : f \in selected}}
           certs == m.certs \cup embedded
           Entry(f) == [key |-> Key(f), certs |-> certs, ocsps |-> m.ocsps, crls |-> m.crls]
<1>1. /\ dss' = [present |-> TRUE, certs |-> certs, ocsps |-> m.ocsps, crls |-> m.crls,
                 vri |-> {Entry(f) : f \in selected}]
      /\ given' = IF m.ocsps # 0 \/ m.crls # {} THEN selected ELSE {}
      /\ fields' = fields /\ made' = made
  BY DEF AddLtv, Key
<1>2. selected \subseteq 1 .. Len(made)
  <2>1. DOMAIN fields = 1 .. Len(made) /\ Len(made) \in Nat
    BY DEF IInv
  <2>2. m.index \in Nat /\ m.index <= Len(made)
    BY Constant DEF AddLtv, IInv
  <2> QED
    BY <2>1, <2>2
<1>3. ASSUME NEW f \in selected, ~EndsInZero(f)
      PROVE  certs # {}
  <2>1. f \in 1 .. Len(made)
    BY <1>2, <1>3
  <2>2. f \in Parsed(fields[f].contents)
    BY <1>3, <2>1, ReadsItself
  <2>3. made[f].cms \in CmsRecords
    BY <2>1, MadeFacts DEF MadeRecords
  <2>4. PICK i \in Identities : made[f].cms.chain = i.chain
    BY <2>3 DEF CmsRecords
  <2>5. i.cert \in ToSet(made[f].cms.chain)
    BY <2>4, Constant
  <2>6. f \in UNION {Parsed(fields[g].contents) : g \in selected}
    BY <1>3, <2>2
  <2> HIDE DEF selected
  <2>7. i.cert \in embedded
    BY <2>5, <2>6
  <2> QED
    BY <2>7
<1> HIDE DEF selected, certs
<1>4. /\ dss'.certs = certs /\ dss'.ocsps = m.ocsps /\ dss'.crls = m.crls
      /\ dss'.vri = {Entry(f) : f \in selected}
  BY <1>1
<1>5. \A f : Key(f)' = Key(f) /\ (EndsInZero(f)' <=> EndsInZero(f))
  BY <1>1 DEF Key, EndsInZero
<1>6. ASSUME NEW e \in dss'.vri
      PROVE  EntryOK(e)'
  <2>1. PICK g \in selected : e = Entry(g)
    BY <1>4
  <2>2. e.certs = certs /\ e.ocsps = m.ocsps /\ e.crls = m.crls /\ e.key = Key(g)
    BY <2>1
  <2>3. g \in 1 .. Len(made') /\ e.key = Key(g)'
    BY <1>1, <1>2, <1>5, <2>2
  <2> QED
    BY <1>4, <2>2, <2>3 DEF EntryOK
<1>7. ASSUME NEW f \in 1 .. Len(made), ~EndsInZero(f)
      PROVE  GivenOK(f)'
  <2>1. MatchedVri(f)' # {} <=> f \in selected
    <3>1. MatchedVri(f)' = {e \in dss'.vri : e.key = Key(f)}
      BY <1>1 DEF MatchedVri, Key
    <3>2. ASSUME NEW e \in dss'.vri, e.key = Key(f)
          PROVE  f \in selected
      <4>1. PICK g \in selected : e = Entry(g)
        BY <1>4, <3>2
      <4>2. Key(f) = Key(g)
        BY <3>2, <4>1
      <4> QED
        BY <1>2, <1>7, <4>2 DEF KeysApart
    <3>3. f \in selected => Entry(f) \in dss'.vri /\ Entry(f).key = Key(f)
      BY <1>4
    <3> QED
      BY <3>1, <3>2, <3>3
  <2>2. Revocation' <=> m.ocsps # 0 \/ m.crls # {}
    BY <1>4 DEF Revocation
  <2>3. f \in given' <=> f \in selected /\ (m.ocsps # 0 \/ m.crls # {})
    BY <1>1
  <2>4. f \in selected => dss'.certs # {}
    BY <1>3, <1>4, <1>7
  <2> QED
    BY <2>1, <2>2, <2>3, <2>4 DEF GivenOK
<1>8. given' \subseteq 1 .. Len(made')
  BY <1>1, <1>2
<1> QED
  BY <1>1, <1>5, <1>6, <1>7, <1>8 DEF LtvInv

\* The bytes a signature covers can be read as long as the file is as long as
\* the signed one.
LEMMA ReadableBytes ==
    ASSUME IInv, NEW f \in 1 .. Len(made)
    PROVE  extract_signed_bytes(file, fields[f].range) # <<>> <=> Len(made[f].file) <= Len(file)
<1> DEFINE d == extract_signed_bytes(file, fields[f].range)
<1>1. file \in Seq(Cells)
  BY DEF IInv
<1>2. PICK g \in Nat \ {0}, n \in Nat, h \in Nat :
        g + n + h = Len(made[f].file) /\ fields[f].range = <<0, g, g + n, h>>
  BY RangeNumbers
<1>3. CASE g + n + h <= Len(file)
  <2>1. g \in Nat
    OBVIOUS
  <2>2. IsExtract(extract_signed_bytes(file, <<0, g, g + n, h>>), file, g, n, h)
    BY <1>1, <1>3, <2>1, ExtractCells
  <2>3. IsExtract(d, file, g, n, h)
    BY <1>2, <2>2
  <2> HIDE DEF d
  <2>4. Len(d) = g + h /\ g + h # 0
    BY <2>3 DEF IsExtract
  <2>5. d # <<>>
    BY <2>4
  <2> QED
    BY <1>2, <1>3, <2>5 DEF d
<1>4. CASE ~(g + n + h <= Len(file))
  <2>1. extract_signed_bytes(file, <<0, g, g + n, h>>) = <<>>
    BY <1>1, <1>4, ExtractNothing
  <2> QED
    BY <1>2, <1>4, <2>1
<1> QED
  BY <1>3, <1>4

\* The level of the material, if the bytes and the blob can be read.
LEMMA LevelOf ==
    ASSUME IInv, NEW f \in 1 .. Len(made)
    PROVE  verify_one(f, {}).level =
             IF Len(made[f].file) <= Len(file) /\ ~EndsInZero(f) THEN PadesLevel(f) ELSE "B"
<1> DEFINE v == verify_one(f, {})
           c == made[f].cms
           revoked == \E crl \in Material(f).crls : c.cert \in crl
           trust == evaluate_trust(c.cert, c.chain, {}, revoked)
           coverage == compute_coverage(fields[f].range)
           signed == extract_signed_bytes(file, fields[f].range)
           parsed == Parsed(fields[f].contents)
           validity == IF c.digest = signed THEN "Valid" ELSE "Invalid"
<1>1. parsed = IF EndsInZero(f) THEN {} ELSE {f}
  BY ReadsItself
<1>2. signed # <<>> <=> Len(made[f].file) <= Len(file)
  BY ReadableBytes
<1>3. CASE signed = <<>>
  <2>1. v = Error("ModifiedAfterSigning")
    BY <1>3 DEF verify_one
  <2>2. v.level = "B"
    BY <2>1 DEF Error
  <2> QED
    BY <1>2, <1>3, <2>2
<1>4. CASE signed # <<>> /\ EndsInZero(f)
  <2>1. v = Error(coverage)
    BY <1>1, <1>4 DEF verify_one
  <2> HIDE DEF coverage
  <2>2. v.level = "B"
    BY <2>1 DEF Error
  <2> QED
    BY <1>4, <2>2
<1>5. CASE signed # <<>> /\ ~EndsInZero(f)
  <2>1. parsed = {f} /\ (CHOOSE k \in {f} : TRUE) = f
    BY <1>1, <1>5
  <2>2. v = [validity |-> validity, trust |-> trust, coverage |-> coverage,
             status |-> overall_status(validity, trust, coverage), level |-> PadesLevel(f)]
    BY <1>5, <2>1, Zenon DEF verify_one
  <2> HIDE DEF v, trust, coverage, validity, signed, c
  <2>3. v.level = PadesLevel(f)
    BY <2>2
  <2> QED
    BY <1>2, <1>5, <2>3 DEF v
<1> QED
  BY <1>3, <1>4, <1>5

\* The level of the material is LT for those given and T for the others.
LEMMA MaterialLevel ==
    ASSUME IInv, LtvInv, NEW f \in 1 .. Len(made), ~EndsInZero(f)
    PROVE  PadesLevel(f) = IF ~made[f].cms.timestamp THEN "B"
                           ELSE IF f \in given THEN "LT" ELSE "T"
<1>1. Parsed(fields[f].contents) = {f}
  BY ReadsItself
<1>2. GivenOK(f)
  BY DEF LtvInv
<1>3. CASE MatchedVri(f) = {}
  <2>1. f \notin given
    BY <1>2, <1>3 DEF GivenOK
  <2> QED
    BY <1>1, <1>3, <2>1 DEF PadesLevel
<1>4. CASE MatchedVri(f) # {}
  <2> DEFINE e == Material(f)
  <2>1. e \in dss.vri
    BY <1>4 DEF Material, MatchedVri
  <2>2. e.certs = dss.certs /\ e.ocsps = dss.ocsps /\ e.crls = dss.crls
    BY <2>1 DEF LtvInv, EntryOK
  <2>3. f \in given <=> e.certs # {} /\ (e.ocsps # 0 \/ e.crls # {})
    BY <1>2, <1>4, <2>2 DEF GivenOK, Revocation
  <2> HIDE DEF e
  <2>4. PadesLevel(f) = IF ~made[f].cms.timestamp THEN "B"
                        ELSE IF e.certs # {} /\ (e.ocsps # 0 \/ e.crls # {}) THEN "LT" ELSE "T"
    BY <1>1, <1>4 DEF PadesLevel, e
  <2> QED
    BY <2>3, <2>4
<1> QED
  BY <1>3, <1>4

\* The reported PAdES level is what the calls have earned: no later signature or
\* save takes LT from a signature, and a later call of add_ltv_material leaves
\* it to the signatures that it covers itself.
THEOREM LevelsAreEarned == Spec => []LevelIsEarned
<1>1. IInv => KeysApart
  BY KeysAreApart
<1>2. Init => LtvInv
  BY DEF Init, LtvInv, NoDss
<1>3. IInv /\ KeysApart /\ KeysApart' /\ LtvInv /\ [Next]_vars => LtvInv'
  <2> SUFFICES ASSUME IInv, KeysApart, KeysApart', LtvInv, [Next]_vars
               PROVE  LtvInv'
    OBVIOUS
  <2>1. ASSUME NEW o \in Jobs, Stage(o)
        PROVE  LtvInv'
    BY <2>1, LtvSame DEF Stage
  <2>2. CASE PatchRange \/ PatchRangeFails
    BY <2>2, LtvSame DEF PatchRange, PatchRangeFails, Failed
  <2>3. ASSUME NEW zero \in BOOLEAN, BuildCms(zero)
        PROVE  LtvInv'
    <3>1. UNCHANGED <<fields, dss, made, given>>
      BY <2>3 DEF BuildCms, Failed
    <3> QED
      BY <3>1, LtvSame
  <2>4. CASE PatchContents
    BY <2>4, LtvSigned
  <2>5. ASSUME NEW m \in Materials, AddLtv(m)
        PROVE  LtvInv'
    BY <2>5, LtvGiven
  <2>6. CASE Revise \/ EndLine
    BY <2>6, LtvSame DEF Revise, EndLine
  <2>7. ASSUME NEW n \in {1, MaxRangeField}, Rewrite(n)
        PROVE  LtvInv'
    BY <2>7, LtvSame DEF Rewrite
  <2>8. CASE UNCHANGED vars
    BY <2>8, LtvSame DEF vars
  <2> QED
    BY <2>1, <2>2, <2>3, <2>4, <2>5, <2>6, <2>7, <2>8 DEF Next
<1>4. IInv /\ LtvInv => LevelIsEarned
  <2> SUFFICES ASSUME IInv, LtvInv, NEW f \in DOMAIN fields
               PROVE  verify_one(f, {}).level =
                        IF ~((Len(made[f].file) <= Len(file) /\ ~EndsInZero(f)) /\ made[f].cms.timestamp)
                        THEN "B" ELSE IF f \in given THEN "LT" ELSE "T"
    BY DEF LevelIsEarned
  <2>1. f \in 1 .. Len(made)
    BY DEF IInv
  <2>2. CASE Len(made[f].file) <= Len(file) /\ ~EndsInZero(f)
    <3>1. verify_one(f, {}).level = PadesLevel(f)
      BY <2>1, <2>2, LevelOf
    <3>2. PadesLevel(f) = IF ~made[f].cms.timestamp THEN "B"
                          ELSE IF f \in given THEN "LT" ELSE "T"
      BY <2>1, <2>2, MaterialLevel
    <3> QED
      BY <2>2, <3>1, <3>2
  <2>3. CASE ~(Len(made[f].file) <= Len(file) /\ ~EndsInZero(f))
    BY <2>1, <2>3, LevelOf
  <2> QED
    BY <2>2, <2>3
<1> QED
  BY <1>1, <1>2, <1>3, <1>4, SignaturesHold, PTL DEF Spec
==============================================================================
