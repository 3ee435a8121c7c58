----------------------------- MODULE Signatures -----------------------------
(***************************************************************************)
(* Signing and verification of crates/engine/src/signature.rs.  A file is  *)
(* a sequence of cells: what the signature's byte range can separate.  The *)
(* cells of a signature dictionary are its /ByteRange array (of a fixed    *)
(* width, so one cell) and its /Contents: "<", one cell for each reserved  *)
(* byte, ">".  A digest is the sequence of the cells it covers, a CMS blob *)
(* a sequence of bytes of its own whose last byte may be zero.             *)
(*                                                                         *)
(* sign_document works on a private copy in steps (`pc`); the other calls  *)
(* are one step.  Every call opens the bytes that the last one returned;   *)
(* reading a revision back is the subject of XrefRevisions.                *)
(***************************************************************************)
EXTENDS Integers, Sequences, FiniteSets, SequencesExt

CONSTANTS
  Encrypted,      \* whether the document is encrypted
  PageCount,
  Reservations,   \* the values of contents_reserved_bytes
  MaxRangeField,  \* MAX_BYTE_RANGE_FIELD
  CmsSize,        \* the length of a CMS blob without a timestamp token
  Identities,     \* the signers: a certificate and the chain they embed
  IssuedBy,       \* <<child, issuer>>: names match, the signature verifies
  ExpiredCerts,   \* certificates outside their validity period
  AnchorSets,     \* the trust anchors a verifier may configure
  Materials,      \* what may be passed to add_ltv_material
  Originals,      \* the files to start from
  MaxCalls        \* bound on the calls

MAX_CHAIN_DEPTH == 10
Margin == 3       \* the bytes compute_coverage allows after the signed range
Certs == (UNION {{i.cert} \cup ToSet(i.chain) : i \in Identities})
         \cup (UNION {{p[1], p[2]} : p \in IssuedBy}) \cup (UNION AnchorSets)

\* "plain" is any other content.
CellKinds == {"plain", "revision", "rewritten", "newline", "range", "<", "byte", ">"}
Cells == [t : CellKinds, v : Seq(Int)]

\* A signer embeds its own certificate; a "rewritten" cell is new with every
\* full save, so no original holds one.
ASSUME SignaturesAssumption ==
  /\ Encrypted \in BOOLEAN
  /\ Reservations \subseteq Nat /\ PageCount \in Nat /\ CmsSize \in Nat \ {0}
  /\ MaxRangeField \in Nat \ {0} /\ MaxCalls \in Nat
  /\ \A i \in Identities : i.cert \in ToSet(i.chain)
  /\ \A m \in Materials : m.index \in Nat
  /\ \A o \in Originals : o \in Seq(Cells) /\ \A k \in DOMAIN o : o[k].t # "rewritten"

VARIABLES
  file,     \* the document's bytes
  fields,   \* the signature dictionaries, in the order of /Fields
  dss,      \* the catalog's /DSS
  pc, job, staged, sig_at, byte_range, cms,    \* sign_document's locals
  made,     \* history: every signature returned, with the file it came in
  given,    \* history: the signatures that the last call of add_ltv_material
            \* was to cover, if it brought revocation material
  calls, revisions  \* counters: calls so far, revisions appended so far
vars == <<file, fields, dss, pc, job, staged, sig_at, byte_range, cms, made, given, calls, revisions>>

-----------------------------------------------------------------------------
\* Files.  Offsets count from 0.
Cell(t, v) == [t |-> t, v |-> v]
Zero == Cell("byte", <<0>>)
Repeat(c, n) == [k \in 1 .. n |-> c]
RangePlaceholder == <<Cell("range", <<>>)>>
contents_placeholder(n) == <<Cell("<", <<>>)>> \o Repeat(Zero, n) \o <<Cell(">", <<>>)>>
PlainRevision(n) == Repeat(Cell("revision", <<n>>), Margin + 1)

\* The objects appended by sign_document, as write_incremental_update_raw lays
\* them out: the signature dictionary between others, then table and trailer.
SignedRevision(o, n) ==
  <<Cell("revision", <<n>>)>> \o RangePlaceholder \o contents_placeholder(o.reserved)
    \o PlainRevision(n)

At(s, offset, n) == SubSeq(s, offset + 1, offset + n)
Found(s, needle) ==
  {o \in 0 .. Len(s) - Len(needle) : At(s, o, Len(needle)) = needle}
\* Faulty variant: the first of several placeholders is taken.
FindFirst(s, needle) ==
  {o \in Found(s, needle) : \A p \in Found(s, needle) : o <= p}
\* find_unique: the offset, or nothing when there are two.
find_unique(s, needle) == IF \E o \in Found(s, needle) : Found(s, needle) = {o}
                          THEN Found(s, needle) ELSE {}

\* patch_byte_range and patch_contents_hex: the cells from an offset on.
Patched(s, offset, cells) ==
  [k \in DOMAIN s |-> IF k - offset \in DOMAIN cells THEN cells[k - offset] ELSE s[k]]

\* The bytes in a byte range, or <<>> when it does not lie in the file.
extract_signed_bytes(s, r) ==
  IF r[1] + r[2] > Len(s) \/ r[3] + r[4] > Len(s) \/ r[3] < r[1] + r[2] THEN <<>>
  ELSE At(s, r[1], r[2]) \o At(s, r[3], r[4])

\* trim_trailing_zeros: all of them, those of the blob itself included.
trim_trailing_zeros(bytes) ==
  LET kept == {k \in DOMAIN bytes : \E l \in k .. Len(bytes) : bytes[l] # Zero}
  IN  SubSeq(bytes, 1, Cardinality(kept))

-----------------------------------------------------------------------------
\* Signing.
NoCms == [bytes |-> <<>>, digest |-> <<>>, cert |-> "none", chain |-> <<>>, timestamp |-> FALSE]
NoDss == [present |-> FALSE, certs |-> {}, ocsps |-> 0, crls |-> {}, vri |-> {}]
NoJob == [page |-> 0, reserved |-> 0, timestamp |-> FALSE, identity |-> [cert |-> "none", chain |-> <<>>]]
Jobs == [page : 0 .. PageCount + 1, reserved : Reservations, timestamp : BOOLEAN,
         identity : Identities]

Init ==
  /\ file \in Originals
  /\ fields = <<>>
  /\ dss = NoDss
  /\ pc = "idle" /\ job = NoJob /\ staged = <<>> /\ sig_at = 0
  /\ byte_range = <<0, 0, 0, 0>> /\ cms = NoCms
  /\ made = <<>> /\ given = {} /\ calls = 0 /\ revisions = 0

Called == pc = "idle" /\ calls < MaxCalls /\ calls' = calls + 1
Locals == <<pc, job, staged, sig_at, byte_range, cms>>

\* The checks, and the revision with its placeholders.
Stage(o) ==
  /\ Called
  /\ ~Encrypted
  /\ o.reserved # 0
  /\ o.page \in 1 .. PageCount
  /\ job' = o
  /\ staged' = file \o SignedRevision(o, revisions + 1)
  /\ sig_at' = Len(file) + 1
  /\ pc' = "staged"
  /\ UNCHANGED <<file, fields, dss, byte_range, cms, made, given, revisions>>

\* sign_document returns an error: the caller's bytes are as they were.
Failed ==
  /\ pc' = "idle" /\ job' = NoJob /\ staged' = <<>> /\ sig_at' = 0
  /\ byte_range' = <<0, 0, 0, 0>> /\ cms' = NoCms
  /\ UNCHANGED <<file, fields, dss, made, given, calls, revisions>>

Marker == contents_placeholder(job.reserved)
\* Faulty variant: the second length counts the placeholder too.
RangeWithMarker(at) == <<0, at, at + Len(Marker), Len(staged) - at>>
\* Everything around the /Contents string.
RangeAround(at) == <<0, at, at + Len(Marker), Len(staged) - (at + Len(Marker))>>

\* The placeholders are found and the byte range written over its own.
PatchRange ==
  /\ pc = "staged"
  /\ \E at \in find_unique(staged, RangePlaceholder), gap \in find_unique(staged, Marker) :
       /\ \A k \in 1 .. 4 : RangeAround(gap)[k] <= MaxRangeField
       /\ staged' = Patched(staged, at, <<Cell("range", RangeAround(gap))>>)
       /\ byte_range' = RangeAround(gap)
  /\ pc' = "ranged"
  /\ UNCHANGED <<file, fields, dss, job, sig_at, cms, made, given, calls, revisions>>

\* A placeholder occurs twice, or an offset does not fit its ten digits.
PatchRangeFails ==
  /\ pc = "staged"
  /\ \A at \in find_unique(staged, RangePlaceholder), gap \in find_unique(staged, Marker) :
       \E k \in 1 .. 4 : RangeAround(gap)[k] > MaxRangeField
  /\ Failed

\* The DER bytes of signature n: a token lengthens it, and the last byte of
\* the RSA signature (or of the token) may be zero.
Der(n, size, zero) ==
  [k \in 1 .. size |-> IF zero /\ k = size THEN Zero ELSE Cell("byte", <<n, k>>)]

\* build_detached_cms over the digest of the patched ranges.
BuildCms(zero) ==
  /\ pc = "ranged"
  /\ LET size == CmsSize + (IF job.timestamp THEN 1 ELSE 0)
     IN  IF size > job.reserved THEN Failed
         ELSE /\ cms' = [bytes |-> Der(Len(made) + 1, size, zero),
                         digest |-> extract_signed_bytes(staged, byte_range),
                         cert |-> job.identity.cert, chain |-> job.identity.chain,
                         timestamp |-> job.timestamp]
              /\ pc' = "built"
              /\ UNCHANGED <<file, fields, dss, job, staged, sig_at, byte_range, made, given, calls, revisions>>

\* The signature dictionary as a reader finds it in the returned bytes.
ReadBack(s) == [range |-> s[sig_at + 1].v, contents |-> At(s, sig_at + 2, job.reserved)]

\* Faulty variant: the revision's catalog is built anew.
AnewDss == NoDss
\* The revision's catalog is the one in force with another /AcroForm.
ClonedDss == dss

\* patch_contents_hex, and the bytes are returned.
PatchContents ==
  /\ pc = "built"
  /\ LET signed == Patched(staged, byte_range[2] + 1,
                           cms.bytes \o Repeat(Zero, job.reserved - Len(cms.bytes)))
     IN  /\ file' = signed
         /\ fields' = Append(fields, ReadBack(signed))
         /\ made' = Append(made, [cms |-> cms, file |-> signed, revision |-> revisions + 1])
  /\ revisions' = revisions + 1
  /\ pc' = "idle" /\ job' = NoJob /\ staged' = <<>> /\ sig_at' = 0
  /\ byte_range' = <<0, 0, 0, 0>> /\ cms' = NoCms
  /\ dss' = ClonedDss
  /\ UNCHANGED <<given, calls>>

-----------------------------------------------------------------------------
\* Long-term material and other changes.

\* The blob in a signature's /Contents, if it parses.
Parsed(contents) == {k \in DOMAIN made : made[k].cms.bytes = trim_trailing_zeros(contents)}
\* signature_vri_key: the hash of the trimmed /Contents.
signature_vri_key(contents) == trim_trailing_zeros(contents)

\* add_ltv_material: the catalog gets a /DSS of this call's material.
AddLtv(m) ==
  /\ Called
  /\ ~Encrypted
  /\ m.certs # {} \/ m.ocsps # 0 \/ m.crls # {}
  /\ fields # <<>>
  /\ m.index <= Len(fields)
  /\ LET selected == IF m.index = 0 THEN DOMAIN fields ELSE {m.index}
         embedded == UNION {ToSet(made[k].cms.chain) :
                              k \in UNION {Parsed(fields[f].contents) : f \in selected}}
         certs == m.certs \cup embedded
         Entry(f) == [key |-> signature_vri_key(fields[f].contents),
                      certs |-> certs, ocsps |-> m.ocsps, crls |-> m.crls]
     IN  /\ dss' = [present |-> TRUE, certs |-> certs, ocsps |-> m.ocsps, crls |-> m.crls,
                    vri |-> {Entry(f) : f \in selected}]
         /\ given' = IF m.ocsps # 0 \/ m.crls # {} THEN selected ELSE {}
  /\ file' = file \o PlainRevision(revisions + 1)
  /\ revisions' = revisions + 1
  /\ UNCHANGED <<fields, made, Locals>>

\* An incremental save of the editor.
Revise ==
  /\ Called
  /\ file' = file \o PlainRevision(revisions + 1)
  /\ revisions' = revisions + 1
  /\ UNCHANGED <<fields, dss, made, given, Locals>>

\* A line end that a tool or a transport adds, within the margin.
EndLine ==
  /\ Called
  /\ Cardinality({k \in DOMAIN file : file[k].t = "newline"}) < Margin
  /\ file' = Append(file, Cell("newline", <<>>))
  /\ UNCHANGED <<fields, dss, made, given, revisions, Locals>>

\* A full save: every byte is written anew, the dictionaries are copied.
Rewrite(n) ==
  /\ Called
  /\ file' = Repeat(Cell("rewritten", <<revisions + 1>>), n)
  /\ revisions' = revisions + 1
  /\ UNCHANGED <<fields, dss, made, given, Locals>>

Next ==
  \/ \E o \in Jobs : Stage(o)
  \/ PatchRange
  \/ PatchRangeFails
  \/ \E zero \in BOOLEAN : BuildCms(zero)
  \/ PatchContents
  \/ \E m \in Materials : AddLtv(m)
  \/ Revise
  \/ EndLine
  \/ \E n \in {1, MaxRangeField} : Rewrite(n)
Spec == Init /\ [][Next]_vars

-----------------------------------------------------------------------------
\* Verification: verify_one for field f under a set of trust anchors.

compute_coverage(r) ==
  IF r[3] + r[4] + Margin >= Len(file) THEN "WholeFile" ELSE "ModifiedAfterSigning"

\* The path to an anchor: from each certificate to the first of the embedded
\* ones that issued it, for at most MAX_CHAIN_DEPTH steps.
chains_to_anchor(signer, chain, anchors) ==
  LET Issuers(c) == {k \in DOMAIN chain : chain[k] # c /\ <<c, chain[k]>> \in IssuedBy}
      First(c) == {chain[k] : k \in {l \in Issuers(c) : \A m \in Issuers(c) : l <= m}}
      reaches[n \in 0 .. MAX_CHAIN_DEPTH] ==
        [c \in Certs |->
           /\ n > 0
           /\ \/ \E a \in anchors : <<c, a>> \in IssuedBy
              \/ \E i \in First(c) : i \in anchors \/ reaches[n - 1][i]]
  IN  signer \in anchors \/ reaches[MAX_CHAIN_DEPTH][signer]

evaluate_trust(signer, chain, anchors, revoked) ==
  CASE revoked -> "Revoked"
    [] ~revoked /\ anchors = {} -> "NotVerified"
    [] ~revoked /\ anchors # {} /\ signer \in ExpiredCerts -> "Expired"
    [] OTHER -> IF chains_to_anchor(signer, chain, anchors) THEN "Trusted" ELSE "Untrusted"

overall_status(validity, trust, coverage) ==
  IF validity # "Valid" THEN validity
  ELSE IF coverage = "ModifiedAfterSigning" THEN "ValidButModified"
  ELSE IF trust = "Trusted" THEN "Trusted" ELSE "ValidUntrusted"

\* The material for a signature: its own /VRI entry, else the whole /DSS.
MatchedVri(f) == {e \in dss.vri : e.key = signature_vri_key(fields[f].contents)}
\* Faulty variant: without an entry of its own a signature has no material.
OwnMaterial(f) == IF MatchedVri(f) = {} THEN NoDss ELSE CHOOSE e \in MatchedVri(f) : TRUE
Material(f) == IF MatchedVri(f) = {} THEN dss ELSE CHOOSE e \in MatchedVri(f) : TRUE
PadesLevel(f) ==
  LET timestamped == \E k \in Parsed(fields[f].contents) : made[k].cms.timestamp
      m == Material(f)
  IN  IF ~timestamped THEN "B"
      ELSE IF MatchedVri(f) # {} /\ m.certs # {} /\ (m.ocsps # 0 \/ m.crls # {}) THEN "LT" ELSE "T"

Error(coverage) == [validity |-> "Error", trust |-> "NotVerified", coverage |-> coverage,
                    status |-> "Error", level |-> "B"]

verify_one(f, anchors) ==
  LET sig == fields[f]
      signed == extract_signed_bytes(file, sig.range)
      coverage == compute_coverage(sig.range)
      parsed == Parsed(sig.contents)
  IN  IF signed = <<>> THEN Error("ModifiedAfterSigning")
      ELSE IF parsed = {} THEN Error(coverage)
      ELSE LET c == made[CHOOSE k \in parsed : TRUE].cms
               validity == IF c.digest = signed THEN "Valid" ELSE "Invalid"
               revoked == \E crl \in Material(f).crls : c.cert \in crl
               trust == evaluate_trust(c.cert, c.chain, anchors, revoked)
           IN  [validity |-> validity, trust |-> trust, coverage |-> coverage,
                status |-> overall_status(validity, trust, coverage), level |-> PadesLevel(f)]

-----------------------------------------------------------------------------
\* The types of the state; every signature returned is a field of the file.
TypeOK ==
  /\ pc \in {"idle", "staged", "ranged", "built"}
  /\ pc = "idle" <=> staged = <<>>
  /\ Len(fields) = Len(made)
  /\ calls \in 0 .. MaxCalls /\ revisions \in 0 .. MaxCalls
  /\ \A f \in DOMAIN fields :
       /\ Len(fields[f].range) = 4
       /\ \A k \in DOMAIN fields[f].contents : fields[f].contents[k].t = "byte"

EndsInZero(f) == Last(made[f].cms.bytes) = Zero
Intact(f) == IsPrefix(made[f].file, file)

\* A signature verifies exactly as long as the bytes it was made over are
\* still the beginning of the file: signing again, saving incrementally and
\* adding material leave it valid, a full save does not.  The exception is a
\* blob that ends in a zero byte, which is trimmed with the padding: it never
\* verifies.  The coverage of one that is intact tells whether anything but a
\* line end came after it.
VerdictIsTrue ==
  /\ TypeOK
  /\ \A f \in DOMAIN fields :
    LET verdict == verify_one(f, {})
    IN  /\ verdict.validity = "Valid" <=> Intact(f) /\ ~EndsInZero(f)
        /\ Intact(f) => (verdict.coverage = "WholeFile" <=> made[f].revision = revisions)

\* The certificate is an anchor, or the certificates of the chain lead from it to
\* one by at most MAX_CHAIN_DEPTH issuing links.
LeadsToAnchor(c, chain, anchors) ==
  \E n \in 0 .. MAX_CHAIN_DEPTH :
    \E path \in [0 .. n -> {c} \cup ToSet(chain) \cup anchors] :
      /\ path[0] = c /\ path[n] \in anchors
      /\ \A k \in 1 .. n : <<path[k - 1], path[k]>> \in IssuedBy
      /\ \A k \in 1 .. n - 1 : path[k] \in ToSet(chain)

\* The strongest verdict is earned on every count: the bytes are those that were
\* signed and nothing was added, the signer's certificate has not expired, no
\* revocation list revokes it, neither one of the material that the verifier
\* takes for this signature nor one of the /DSS, which a call for an earlier
\* signature may have put into the bytes that this one signs, and the embedded
\* certificates lead to an anchor within the depth.
TrustIsEarned ==
  \A f \in DOMAIN fields, anchors \in AnchorSets :
    LET c == made[f].cms.cert
    IN  verify_one(f, anchors).status = "Trusted" =>
          /\ Intact(f) /\ made[f].revision = revisions
          /\ c \notin ExpiredCerts
          /\ \A crl \in Material(f).crls \cup dss.crls : c \notin crl
          /\ LeadsToAnchor(c, made[f].cms.chain, anchors)

\* Every call but a full save returns the bytes it was given as a prefix,
\* whatever placeholders the file already holds: no patch reaches into them.
PriorBytesKept ==
  [][IsPrefix(file, file') \/ \E n \in {1, MaxRangeField} : Rewrite(n)]_vars

\* The PAdES level the verifier reports is the one the calls have earned.  A
\* timestamped signature is at LT exactly if the last call of add_ltv_material
\* covered it and brought revocation material: signing again and saving keep that,
\* a call that leaves it out takes it away, since its /DSS replaces the one
\* before.  The level does not ask whether the bytes are intact; but a file too
\* short for the byte range, or a blob that was trimmed, reports none.
LevelIsEarned ==
  \A f \in DOMAIN fields :
    LET readable == Len(made[f].file) <= Len(file) /\ ~EndsInZero(f)
    IN  verify_one(f, {}).level =
          IF ~(readable /\ made[f].cms.timestamp) THEN "B"
          ELSE IF f \in given THEN "LT" ELSE "T"
=============================================================================
