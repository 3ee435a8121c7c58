------------------------- MODULE XrefRevisionsProofs -------------------------
(***************************************************************************)
(* Proofs about XrefRevisions, for every number of objects, versions and   *)
(* items: whatever is written to a file, it stays well formed; a walk over *)
(* a well-formed file finds the last place of every object; so new numbers *)
(* are new, and readers and editors keep the promise of PdfRevisions.      *)
(***************************************************************************)
EXTENDS XrefRevisions, FiniteSetTheorems, FunctionTheorems, SequenceTheorems, WellFoundedInduction, TLAPS

-----------------------------------------------------------------------------
(***************************************************************************)
(* Greatest elements and merged tables.                                    *)
(***************************************************************************)

\* A bounded set of numbers that is not empty has a greatest element.
LEMMA GreatestExists ==
    ASSUME NEW S, S \subseteq Int, S # {}, NEW N \in Int, \A x \in S : x <= N
    PROVE  Max(S) \in S /\ \A y \in S : y <= Max(S)
<1> DEFINE T == {n \in Nat : N - n \in S}
<1>1. T # {}
  <2>1. PICK x \in S : TRUE
    OBVIOUS
  <2>2. N - x \in Nat /\ N - (N - x) = x
    OBVIOUS
  <2> QED
    BY <2>1, <2>2
<1>2. PICK t \in T : \A r \in T : ~(<<r, t>> \in OpToRel(<, Nat))
  <2>1. T \subseteq Nat
    OBVIOUS
  <2> HIDE DEF T
  <2> QED
    BY <1>1, <2>1, WFMin, NatLessThanWellFounded
<1>3. ASSUME NEW y \in S PROVE N - t >= y
  <2>1. N - y \in T
    <3>1. N - y \in Nat /\ N - (N - y) = y
      OBVIOUS
    <3> QED
      BY <3>1
  <2>2. <<N - y, t>> \in OpToRel(<, Nat) <=> N - y < t
    BY <2>1 DEF OpToRel
  <2>3. ~(N - y < t)
    BY <1>2, <2>1, <2>2, Zenon
  <2> QED
    BY <2>3
<1>4. N - t \in S
  OBVIOUS
<1>5. \E x \in S : \A y \in S : x >= y
  BY <1>3, <1>4
<1>6. Max(S) \in S /\ \A y \in S : Max(S) >= y
  BY <1>5, Zenon DEF Max
<1> QED
  BY <1>6

\* It is the only one.
LEMMA GreatestIs ==
    ASSUME NEW S, S \subseteq Int, NEW x \in S, \A y \in S : y <= x
    PROVE  Max(S) = x
<1>1. Max(S) \in S /\ \A y \in S : y <= Max(S)
  BY GreatestExists
<1>2. Max(S) \in Int /\ x \in Int /\ x <= Max(S) /\ Max(S) <= x
  BY <1>1
<1> QED
  BY <1>2

\* The first table of a walk holds nothing.
LEMMA EmptyTable == DOMAIN <<>> = {}
OBVIOUS

-----------------------------------------------------------------------------
(***************************************************************************)
(* A well-formed file.                                                     *)
(***************************************************************************)

Elements(s) == {s[k] : k \in DOMAIN s}

\* What an entry says of an id in use.
InUse == {Plain(o) : o \in Offsets} \cup {Packed(n) : n \in Numbers}

\* Only generation 0 is ever in use, and objects have no other.
ItemOK(item) ==
    /\ item.kind \in {"object", "bundle", "section"}
    /\ item.num \in Nat /\ item.gen = 0
    /\ item.kind # "section" => item.num # 0
    /\ item.kind = "object" => item.value \in Int \cup {Stream}
    /\ item.kind = "bundle" =>
          \A n \in DOMAIN item.value : n \in Nat \ {0} /\ item.value[n] \in Int
    /\ item.kind = "section" =>
          /\ item = Section(item.num, item.entries, item.prev, item.stm, item.size)
          /\ DOMAIN item.entries \subseteq Ids
          /\ \A id \in DOMAIN item.entries :
                IF id[2] = 0 THEN item.entries[id] \in InUse ELSE item.entries[id] = Free
          /\ item.prev \in Nat /\ item.stm \in Nat /\ item.size \in Nat

Items(f) ==
    /\ f \in Seq(Elements(f))
    /\ Len(f) \in 1..MaxItems
    /\ \A p \in DOMAIN f : ItemOK(f[p])

\* The file ends with its newest revision, and each revision names the one
\* before it, or itself; a section named by /XRefStm lies before it.
Chain(f) ==
    /\ Len(f) \in Sections(f)
    /\ LastSize(f) \in 1..(MaxNumber + 1)
    /\ \A p \in Sections(f) :
          f[p].stm # 0 => f[p].stm < p /\ f[p].stm \in Sections(f) /\ f[f[p].stm].stm = 0
    /\ \A p \in Revisions(f) :
          \/ f[p].prev = p
          \/ /\ f[p].prev < p /\ f[p].prev \in Revisions(f) \cup {0}
             /\ \A q \in Revisions(f) : q < p => q <= f[p].prev

Lists(f, p, n) == <<n, 0>> \in DOMAIN EntriesOf(f, p)
Listed(f, n) == \E p \in Revisions(f) : Lists(f, p, n)

\* Every number used in the file is below /Size, and some revision lists it.
Numbered(f) ==
    \A p \in DOMAIN f :
        /\ f[p].num < LastSize(f)
        /\ f[p].num # 0 => Listed(f, f[p].num)
        /\ f[p].kind = "bundle" =>
              \A n \in DOMAIN f[p].value : n < LastSize(f) /\ Listed(f, n)

\* A number is that of one section, of one object stream, of content streams
\* only, or of objects that have versions; only these are in object streams.
Unique(f) ==
    \A p, q \in DOMAIN f :
        /\ f[p].num = f[q].num /\ f[p].num # 0 =>
              /\ f[p].kind = f[q].kind
              /\ f[p].kind = "object" => (f[p].value = Stream <=> f[q].value = Stream)
              /\ f[p].kind # "object" => p = q
        /\ f[p].kind = "bundle" /\ f[q].num \in DOMAIN f[p].value =>
              f[q].kind = "object" /\ f[q].value \in Int

\* The newest revision that lists n.
Newest(f, p, n) ==
    /\ p \in Revisions(f) /\ Lists(f, p, n)
    /\ \A q \in Revisions(f) : Lists(f, q, n) => q <= p

\* The last place of n.
LastWritten(f, w, n) ==
    /\ w \in Written(f, <<n, 0>>)
    /\ \A v \in Written(f, <<n, 0>>) : v <= w

Leads(f, e, w, n) ==
    IF f[w].num = n THEN e \in {Plain(w), Plain(0)} ELSE e = Packed(f[w].num)

\* The newest entry of a number leads to its last place, or, once the file was
\* damaged, nowhere.
Placed(f) ==
    \A p \in Revisions(f), n \in Numbers :
        Newest(f, p, n) =>
            \E w \in DOMAIN f : LastWritten(f, w, n) /\ Leads(f, EntriesOf(f, p)[<<n, 0>>], w, n)

\* There is something in the file besides cross-references.
Peopled(f) == \E p \in DOMAIN f : f[p].kind # "section"

WellFormed(f) ==
    Items(f) /\ Chain(f) /\ Numbered(f) /\ Unique(f) /\ Placed(f) /\ Peopled(f)

\* No revision speaks of a number without saying that generation 0 is in use.
\* Other programs that free objects break this.
Spoken(f) ==
    \A p \in Revisions(f) : \A id \in DOMAIN EntriesOf(f, p) : Lists(f, p, id[1])

\* What is used of a well-formed file everywhere.
LEMMA FileFacts ==
    ASSUME NEW f, WellFormed(f)
    PROVE  /\ Len(f) \in Nat \ {0} /\ Len(f) <= MaxItems /\ DOMAIN f = 1..Len(f)
           /\ StartXref(f) = Len(f) /\ LastSize(f) = f[Len(f)].size
           /\ Len(f) \in Revisions(f)
           /\ Sections(f) \subseteq DOMAIN f /\ Revisions(f) \subseteq Sections(f)
           /\ \A p \in Revisions(f) : p \in Nat \ {0} /\ p <= Len(f)
           /\ \A p \in Sections(f) : ItemOK(f[p]) /\ f[p].kind = "section"
<1>1. Len(f) \in 1..MaxItems /\ DOMAIN f = 1..Len(f)
  BY LenProperties DEF WellFormed, Items
<1>2. /\ Sections(f) \subseteq DOMAIN f /\ Revisions(f) \subseteq Sections(f)
      /\ Len(f) \in Sections(f)
  BY DEF WellFormed, Chain, Sections, Revisions
<1>3. MaxItems \in Nat
  BY RevisionAssumption
<1>4. StartXref(f) = Len(f)
  BY <1>1, <1>2, <1>3, GreatestIs DEF StartXref
<1>5. \A p \in Sections(f) : f[p].stm # Len(f)
  BY <1>1, <1>2, <1>3 DEF WellFormed, Chain
<1>6. Len(f) \in Revisions(f)
  BY <1>2, <1>5 DEF Revisions
<1>7. \A p \in Sections(f) : ItemOK(f[p]) /\ f[p].kind = "section"
  BY <1>2 DEF WellFormed, Items, Sections
<1> QED
  BY <1>1, <1>2, <1>3, <1>4, <1>6, <1>7 DEF LastSize

\* What the entries of a revision say.
LEMMA EntryFacts ==
    ASSUME NEW f, WellFormed(f), NEW p \in Sections(f), NEW id \in DOMAIN EntriesOf(f, p)
    PROVE  /\ id \in Ids
           /\ IF id[2] = 0 THEN EntriesOf(f, p)[id] \in InUse ELSE EntriesOf(f, p)[id] = Free
<1>1. ItemOK(f[p]) /\ f[p].kind = "section"
  BY FileFacts
<1>2. CASE f[p].stm = 0
  <2>1. EntriesOf(f, p) = OrInsert(f[p].entries, <<>>)
    BY <1>2 DEF EntriesOf
  <2>2. /\ DOMAIN EntriesOf(f, p) = DOMAIN f[p].entries \cup DOMAIN <<>>
        /\ \A i \in DOMAIN f[p].entries : EntriesOf(f, p)[i] = f[p].entries[i]
    BY <2>1 DEF OrInsert
  <2>3. id \in DOMAIN f[p].entries /\ EntriesOf(f, p)[id] = f[p].entries[id]
    BY <2>2, EmptyTable
  <2> QED
    BY <1>1, <2>3 DEF ItemOK
<1>3. CASE f[p].stm # 0
  <2> DEFINE s == f[p].stm
  <2>1. EntriesOf(f, p) = OrInsert(f[p].entries, f[s].entries)
    BY <1>3 DEF EntriesOf
  <2>2. s \in Sections(f)
    BY <1>3 DEF WellFormed, Chain
  <2>3. ItemOK(f[s]) /\ f[s].kind = "section"
    BY <2>2, FileFacts
  <2>4. \/ id \in DOMAIN f[p].entries /\ EntriesOf(f, p)[id] = f[p].entries[id]
        \/ id \in DOMAIN f[s].entries /\ EntriesOf(f, p)[id] = f[s].entries[id]
    <3>1. /\ DOMAIN EntriesOf(f, p) = DOMAIN f[p].entries \cup DOMAIN f[s].entries
          /\ \A i \in DOMAIN f[p].entries : EntriesOf(f, p)[i] = f[p].entries[i]
          /\ \A i \in DOMAIN f[s].entries :
                i \notin DOMAIN f[p].entries => EntriesOf(f, p)[i] = f[s].entries[i]
      BY <2>1 DEF OrInsert
    <3> QED
      BY <3>1
  <2> QED
    BY <1>1, <2>3, <2>4 DEF ItemOK
<1> QED
  BY <1>2, <1>3

\* The ids that can be listed, part by part.
LEMMA IdFacts ==
    /\ MaxNumber \in Nat /\ MaxItems \in Nat /\ MaxNumber >= 4 /\ MaxItems >= 3
    /\ Numbers = {n \in Nat : 1 <= n /\ n <= MaxNumber}
    /\ \A id \in Ids : id[1] \in Numbers /\ id[2] \in {0, 1, Top} /\ id = <<id[1], id[2]>>
    /\ \A n : <<n, 0>> \in Ids <=> n \in Numbers
BY RevisionAssumption DEF Ids, Numbers, Top

\* Two more items and two more numbers have their places when the file
\* may grow by them.
LEMMA RoomForTwo ==
    ASSUME NEW n \in Nat, n + 2 <= MaxItems, NEW s \in Nat, s >= 1, s + 2 <= MaxNumber + 1
    PROVE  n + 1 \in Offsets /\ n + 2 \in Offsets /\ s \in Numbers /\ s + 1 \in Numbers
<1>1. MaxItems \in Nat /\ MaxNumber \in Nat
  BY RevisionAssumption
<1>2. n + 1 \in Offsets /\ n + 2 \in Offsets
  BY <1>1 DEF Offsets
<1>3. s \in Numbers /\ s + 1 \in Numbers
  BY <1>1 DEF Numbers
<1> QED
  BY <1>2, <1>3

\* A listed number has a newest revision, and a last place its entry leads to.
LEMMA NewestExists ==
    ASSUME NEW f, WellFormed(f), NEW n, Listed(f, n)
    PROVE  /\ n \in Numbers
           /\ \E p \in Revisions(f), w \in DOMAIN f :
                 /\ Newest(f, p, n) /\ LastWritten(f, w, n)
                 /\ Leads(f, EntriesOf(f, p)[<<n, 0>>], w, n)
<1> DEFINE P == {p \in Revisions(f) : Lists(f, p, n)}
<1>1. P # {} /\ P \subseteq Int /\ \A p \in P : p <= Len(f)
  BY FileFacts DEF Listed
<1>2. Len(f) \in Int
  BY FileFacts
<1>3. Max(P) \in P /\ \A p \in P : p <= Max(P)
  <2> HIDE DEF P
  <2> QED
    BY <1>1, <1>2, GreatestExists
<1>4. Newest(f, Max(P), n)
  BY <1>3 DEF Newest
<1>5. n \in Numbers
  <2>1. PICK p \in P : TRUE
    BY <1>1
  <2>2. <<n, 0>> \in Ids
    BY <2>1, EntryFacts, FileFacts DEF Lists
  <2> QED
    BY <2>2, IdFacts
<1>6. \E w \in DOMAIN f :
         LastWritten(f, w, n) /\ Leads(f, EntriesOf(f, Max(P))[<<n, 0>>], w, n)
  BY <1>3, <1>4, <1>5 DEF WellFormed, Placed
<1> QED
  BY <1>3, <1>4, <1>5, <1>6

\* An object has one last place.
LEMMA LastIsOne ==
    ASSUME NEW f, WellFormed(f), NEW n, NEW w, NEW v, LastWritten(f, w, n), LastWritten(f, v, n)
    PROVE  v = w
<1>1. w \in Nat /\ v \in Nat
  BY FileFacts DEF LastWritten, Written
<1> QED
  BY <1>1 DEF LastWritten

\* The places of an object, said of one place: every item has generation 0.
LEMMA WrittenIs ==
    ASSUME NEW f, Items(f), NEW n
    PROVE  /\ Written(f, <<n, 0>>) \subseteq DOMAIN f
           /\ \A p \in DOMAIN f : p \in Written(f, <<n, 0>>) <=>
                 f[p].num = n \/ (f[p].kind = "bundle" /\ n \in DOMAIN f[p].value)
<1>1. ASSUME NEW p \in DOMAIN f PROVE f[p].gen = 0
  BY DEF Items, ItemOK
<1> QED
  BY <1>1 DEF Written

-----------------------------------------------------------------------------
(***************************************************************************)
(* Adding a revision to a well-formed file.                                *)
(***************************************************************************)

\* What the revision that turns f into g has to look like.
Extends(f, g) ==
    LET last == g[Len(g)] IN
    /\ Items(g) /\ Unique(g)
    /\ Len(f) < Len(g)
    /\ \A p \in DOMAIN f : g[p] = f[p]
    /\ last.kind = "section" /\ last.prev \in {Len(f), Len(g)}
    /\ last.size \in LastSize(f)..(MaxNumber + 1)
    /\ last.stm # 0 => /\ last.stm \in (Len(f) + 1)..(Len(g) - 1)
                       /\ g[last.stm].kind = "section" /\ g[last.stm].stm = 0
    /\ \A p \in (Len(f) + 1)..(Len(g) - 1) : g[p].kind = "section" => p = last.stm
    /\ \A p \in (Len(f) + 1)..Len(g) :
          /\ g[p].num < last.size
          /\ g[p].num # 0 => Lists(g, Len(g), g[p].num)
          /\ g[p].kind = "bundle" =>
                \A n \in DOMAIN g[p].value : n < last.size /\ Lists(g, Len(g), n)
    /\ \A n \in Numbers :
          Lists(g, Len(g), n) =>
             \E w \in (Len(f) + 1)..Len(g) :
                LastWritten(g, w, n) /\ Leads(g, EntriesOf(g, Len(g))[<<n, 0>>], w, n)

\* An extension adds one revision, the newest.
LEMMA ExtendFacts ==
    ASSUME NEW f, NEW g, WellFormed(f), Extends(f, g)
    PROVE  /\ DOMAIN f = 1..Len(f) /\ DOMAIN g = 1..Len(g)
           /\ Len(f) \in Nat \ {0} /\ Len(g) \in Nat /\ Len(f) < Len(g)
           /\ Sections(g) = Sections(f) \cup ({Len(g), g[Len(g)].stm} \ {0})
           /\ Revisions(g) = Revisions(f) \cup {Len(g)}
           /\ StartXref(g) = Len(g) /\ LastSize(g) = g[Len(g)].size
           /\ \A p \in Sections(f) : EntriesOf(g, p) = EntriesOf(f, p)
<1> DEFINE L == Len(g)
<1> DEFINE stm == g[L].stm
<1>1. DOMAIN f = 1..Len(f) /\ Len(f) \in Nat \ {0}
  BY FileFacts
<1>2. DOMAIN g = 1..Len(g) /\ Len(g) \in Nat /\ Len(f) < Len(g)
  <2>1. Len(g) \in 1..MaxItems /\ DOMAIN g = 1..Len(g)
    BY LenProperties DEF Extends, Items
  <2> QED
    BY <2>1, IdFacts DEF Extends
<1>3. \A p \in DOMAIN f : g[p] = f[p] /\ p \in DOMAIN g
  BY <1>1, <1>2 DEF Extends
<1>4. /\ g[L].kind = "section"
      /\ stm # 0 => stm \in (Len(f) + 1)..(L - 1) /\ g[stm].kind = "section" /\ g[stm].stm = 0
      /\ \A p \in (Len(f) + 1)..(L - 1) : g[p].kind = "section" => p = stm
  BY DEF Extends
<1>5. Sections(g) = Sections(f) \cup ({L, stm} \ {0})
  <2>1. ASSUME NEW p \in Sections(g) PROVE p \in Sections(f) \cup ({L, stm} \ {0})
    <3>1. p \in DOMAIN g /\ g[p].kind = "section"
      BY <2>1 DEF Sections
    <3>2. CASE p \in DOMAIN f
      BY <1>3, <3>1, <3>2 DEF Sections
    <3>3. CASE p \notin DOMAIN f
      BY <1>1, <1>2, <1>4, <3>1, <3>3
    <3> QED
      BY <3>2, <3>3
  <2>2. ASSUME NEW p \in Sections(f) PROVE p \in Sections(g)
    BY <1>3 DEF Sections
  <2>3. ASSUME NEW p \in {L, stm} \ {0} PROVE p \in Sections(g)
    BY <1>1, <1>2, <1>4 DEF Sections
  <2> QED
    BY <2>1, <2>2, <2>3
<1>6. \A p \in Sections(f) : p \in DOMAIN f /\ f[p].stm # L
  BY <1>1, <1>2 DEF WellFormed, Chain, Sections
<1>7. Revisions(g) = Revisions(f) \cup {L}
  <2>1. ASSUME NEW p \in Revisions(g), p # L PROVE p \in Revisions(f)
    <3>1. p \in Sections(g) /\ \A q \in Sections(g) : p # g[q].stm
      BY <2>1 DEF Revisions
    <3>2. L \in Sections(g)
      BY <1>1, <1>2, <1>5
    <3>3. p \in Sections(f)
      BY <2>1, <3>1, <3>2, <1>5
    <3>4. \A q \in Sections(f) : p # f[q].stm
      BY <3>1, <1>3, <1>5, <1>6
    <3> QED
      BY <3>3, <3>4 DEF Revisions
  <2>2. ASSUME NEW p \in Revisions(f) PROVE p \in Revisions(g)
    <3>1. p \in Sections(f) /\ p \in DOMAIN f /\ \A q \in Sections(f) : p # f[q].stm
      BY <1>6 DEF Revisions
    <3>2. p # stm
      BY <3>1, <1>1, <1>2, <1>4
    <3>3. stm # 0 => p # g[stm].stm
      BY <3>1, <1>1, <1>4
    <3>4. ASSUME NEW q \in Sections(g) PROVE p # g[q].stm
      BY <1>3, <1>5, <1>6, <3>1, <3>2, <3>3
    <3> QED
      BY <3>1, <3>4, <1>5 DEF Revisions
  <2>3. L \in Revisions(g)
    <3>1. \A q \in Sections(g) : g[q].stm # L
      BY <1>1, <1>2, <1>3, <1>4, <1>5, <1>6
    <3> QED
      BY <3>1, <1>1, <1>2, <1>5 DEF Revisions
  <2> QED
    BY <2>1, <2>2, <2>3
<1>8. StartXref(g) = L
  <2>1. Sections(g) \subseteq 1..L /\ L \in Sections(g)
    BY <1>1, <1>2, <1>4, <1>5 DEF Sections
  <2> QED
    BY <2>1, <1>2, GreatestIs DEF StartXref
<1>9. ASSUME NEW p \in Sections(f) PROVE EntriesOf(g, p) = EntriesOf(f, p)
  <2>1. g[p] = f[p]
    BY <1>3, <1>6
  <2>2. f[p].stm # 0 => g[f[p].stm] = f[f[p].stm]
    BY <1>3, <1>6 DEF WellFormed, Chain
  <2> QED
    BY <2>1, <2>2 DEF EntriesOf
<1> QED
  BY <1>1, <1>2, <1>5, <1>7, <1>8, <1>9 DEF LastSize

\* What a revision does not list it leaves where it was.
LEMMA ExtendKeeps ==
    ASSUME NEW f, NEW g, WellFormed(f), Extends(f, g), NEW n, n # 0, ~Lists(g, Len(g), n)
    PROVE  /\ Written(g, <<n, 0>>) = Written(f, <<n, 0>>)
           /\ \A w : LastWritten(f, w, n) => LastWritten(g, w, n)
<1>1. /\ DOMAIN f = 1..Len(f) /\ DOMAIN g = 1..Len(g)
      /\ Len(f) \in Nat \ {0} /\ Len(g) \in Nat /\ Len(f) < Len(g)
  BY ExtendFacts
<1>2. \A p \in DOMAIN f : g[p] = f[p] /\ p \in DOMAIN g
  BY <1>1 DEF Extends
<1>3. \A p \in DOMAIN g \ DOMAIN f : p \in (Len(f) + 1)..Len(g)
  BY <1>1
<1>4. \A p \in DOMAIN g \ DOMAIN f :
         g[p].num # n /\ ~(g[p].kind = "bundle" /\ n \in DOMAIN g[p].value)
  BY <1>3 DEF Extends
<1>5. Items(f) /\ Items(g)
  BY DEF WellFormed, Extends
<1>6. Written(g, <<n, 0>>) = Written(f, <<n, 0>>)
  <2>1. /\ Written(f, <<n, 0>>) \subseteq DOMAIN f
        /\ \A p \in DOMAIN f : p \in Written(f, <<n, 0>>) <=>
              f[p].num = n \/ (f[p].kind = "bundle" /\ n \in DOMAIN f[p].value)
    BY <1>5, WrittenIs
  <2>2. /\ Written(g, <<n, 0>>) \subseteq DOMAIN g
        /\ \A p \in DOMAIN g : p \in Written(g, <<n, 0>>) <=>
              g[p].num = n \/ (g[p].kind = "bundle" /\ n \in DOMAIN g[p].value)
    BY <1>5, WrittenIs
  <2>3. ASSUME NEW p \in Written(g, <<n, 0>>) PROVE p \in Written(f, <<n, 0>>)
    <3>1. p \in DOMAIN f
      BY <2>2, <1>4
    <3> QED
      BY <3>1, <2>1, <2>2, <1>2
  <2>4. ASSUME NEW p \in Written(f, <<n, 0>>) PROVE p \in Written(g, <<n, 0>>)
    BY <2>1, <2>2, <1>2
  <2> QED
    BY <2>3, <2>4
<1> QED
  BY <1>6 DEF LastWritten

\* An extension of a well-formed file is well formed.
LEMMA ExtendsIsWellFormed ==
    ASSUME NEW f, NEW g, WellFormed(f), Extends(f, g)
    PROVE  WellFormed(g)
<1> DEFINE L == Len(g)
<1>1. /\ DOMAIN f = 1..Len(f) /\ DOMAIN g = 1..Len(g)
      /\ Len(f) \in Nat \ {0} /\ L \in Nat /\ Len(f) < L
      /\ Sections(g) = Sections(f) \cup ({L, g[L].stm} \ {0})
      /\ Revisions(g) = Revisions(f) \cup {L}
      /\ LastSize(g) = g[L].size
      /\ \A p \in Sections(f) : EntriesOf(g, p) = EntriesOf(f, p)
  BY ExtendFacts
<1>2. \A p \in DOMAIN f : g[p] = f[p] /\ p \in DOMAIN g
  BY <1>1 DEF Extends
<1>3. /\ Revisions(f) \subseteq Sections(f) /\ Sections(f) \subseteq DOMAIN f
      /\ Len(f) \in Revisions(f) /\ \A p \in Revisions(f) : p \in Nat /\ p <= Len(f)
  BY FileFacts
<1>4. /\ g[L].kind = "section" /\ g[L].prev \in {Len(f), L}
      /\ g[L].size \in LastSize(f)..(MaxNumber + 1)
      /\ g[L].stm # 0 => /\ g[L].stm \in (Len(f) + 1)..(L - 1)
                         /\ g[g[L].stm].kind = "section" /\ g[g[L].stm].stm = 0
  BY DEF Extends
<1>5. LastSize(f) \in 1..(MaxNumber + 1) /\ MaxNumber \in Nat
  BY IdFacts DEF WellFormed, Chain
<1>6. \A p \in Revisions(f) : \A n : Lists(g, p, n) <=> Lists(f, p, n)
  BY <1>1, <1>3 DEF Lists
<1>7. Chain(g)
  <2>1. L \in Sections(g) /\ LastSize(g) \in 1..(MaxNumber + 1)
    BY <1>1, <1>4, <1>5
  <2>2. ASSUME NEW p \in Sections(g), g[p].stm # 0
        PROVE  g[p].stm < p /\ g[p].stm \in Sections(g) /\ g[g[p].stm].stm = 0
    <3>1. CASE p \in Sections(f)
      <4>1. f[p].stm < p /\ f[p].stm \in Sections(f) /\ f[f[p].stm].stm = 0
        BY <1>2, <1>3, <2>2, <3>1 DEF WellFormed, Chain
      <4> QED
        BY <4>1, <1>1, <1>2, <1>3, <3>1
    <3>2. CASE p = L
      BY <1>1, <1>4, <2>2, <3>2
    <3>3. CASE p = g[L].stm /\ g[L].stm # 0
      BY <1>4, <2>2, <3>3
    <3> QED
      BY <1>1, <3>1, <3>2, <3>3
  <2>3. ASSUME NEW p \in Revisions(g)
        PROVE  \/ g[p].prev = p
               \/ /\ g[p].prev < p /\ g[p].prev \in Revisions(g) \cup {0}
                  /\ \A q \in Revisions(g) : q < p => q <= g[p].prev
    <3>1. CASE p \in Revisions(f)
      <4>1. g[p] = f[p] /\ p < L
        BY <1>1, <1>2, <1>3, <3>1
      <4>2. \/ f[p].prev = p
            \/ /\ f[p].prev < p /\ f[p].prev \in Revisions(f) \cup {0}
               /\ \A q \in Revisions(f) : q < p => q <= f[p].prev
        BY <3>1 DEF WellFormed, Chain
      <4> QED
        BY <4>1, <4>2, <1>1, <1>3
    <3>2. CASE p = L
      BY <3>2, <1>1, <1>3, <1>4
    <3> QED
      BY <1>1, <3>1, <3>2
  <2> QED
    BY <2>1, <2>2, <2>3 DEF Chain
<1>8. Numbered(g)
  <2>1. \A n : Listed(f, n) => Listed(g, n)
    BY <1>1, <1>6 DEF Listed
  <2>2. \A n : Lists(g, L, n) => Listed(g, n)
    BY <1>1 DEF Listed
  <2>3. ASSUME NEW p \in DOMAIN g
        PROVE  /\ g[p].num < LastSize(g)
               /\ g[p].num # 0 => Listed(g, g[p].num)
               /\ g[p].kind = "bundle" =>
                     \A n \in DOMAIN g[p].value : n < LastSize(g) /\ Listed(g, n)
    <3>1. CASE p \in DOMAIN f
      <4>1. /\ f[p].num < LastSize(f) /\ f[p].num \in Nat
            /\ f[p].num # 0 => Listed(f, f[p].num)
            /\ f[p].kind = "bundle" =>
                  \A n \in DOMAIN f[p].value : n < LastSize(f) /\ Listed(f, n) /\ n \in Nat
        BY <3>1 DEF WellFormed, Numbered, Items, ItemOK
      <4> QED
        BY <4>1, <2>1, <1>1, <1>2, <1>4, <1>5, <3>1
    <3>2. CASE p \notin DOMAIN f
      <4>1. p \in (Len(f) + 1)..L
        BY <1>1, <3>2
      <4> QED
        BY <4>1, <2>2, <1>1 DEF Extends
    <3> QED
      BY <3>1, <3>2
  <2> QED
    BY <2>3 DEF Numbered
<1>9. Placed(g)
  <2>1. ASSUME NEW p \in Revisions(g), NEW n \in Numbers, Newest(g, p, n)
        PROVE  \E w \in DOMAIN g :
                  LastWritten(g, w, n) /\ Leads(g, EntriesOf(g, p)[<<n, 0>>], w, n)
    <3>1. CASE p = L
      <4>1. Lists(g, L, n)
        BY <2>1, <3>1 DEF Newest
      <4>2. \E w \in (Len(f) + 1)..L :
               LastWritten(g, w, n) /\ Leads(g, EntriesOf(g, L)[<<n, 0>>], w, n)
        BY <4>1 DEF Extends
      <4> QED
        BY <4>2, <1>1, <3>1
    <3>2. CASE p # L
      <4>1. p \in Revisions(f) /\ p \in Nat /\ p < L
        BY <1>1, <1>3, <3>2
      <4>2. ~Lists(g, L, n)
        <5>1. L \in Revisions(g) /\ L \in Nat
          BY <1>1
        <5>2. Lists(g, L, n) => L <= p
          BY <5>1, <2>1 DEF Newest
        <5> HIDE DEF L
        <5> QED
          BY <4>1, <5>1, <5>2
      <4>3. Newest(f, p, n)
        BY <4>1, <2>1, <1>1, <1>6 DEF Newest
      <4>4. PICK w \in DOMAIN f :
               LastWritten(f, w, n) /\ Leads(f, EntriesOf(f, p)[<<n, 0>>], w, n)
        BY <4>1, <4>3 DEF WellFormed, Placed
      <4>5. LastWritten(g, w, n)
        BY <4>2, <4>4, ExtendKeeps, IdFacts
      <4>6. Leads(g, EntriesOf(g, p)[<<n, 0>>], w, n)
        BY <4>1, <4>4, <1>1, <1>2, <1>3 DEF Leads
      <4> QED
        BY <4>5, <4>6, <1>2
    <3> QED
      BY <3>1, <3>2
  <2> QED
    BY <2>1 DEF Placed
<1>10. Peopled(g)
  BY <1>2 DEF WellFormed, Peopled
<1> QED
  BY <1>7, <1>8, <1>9, <1>10 DEF WellFormed, Extends

-----------------------------------------------------------------------------
(***************************************************************************)
(* What a well-formed file means.                                          *)
(***************************************************************************)

\* The value an item gives to the object numbered n.
ValueAt(f, w, n) ==
    IF f[w].kind = "object" THEN f[w].value
    ELSE IF f[w].kind = "bundle" /\ f[w].num # n THEN f[w].value[n] ELSE Nothing

\* A file means, of each object, what lies at its last place.
LEMMA MeaningOf ==
    ASSUME NEW f, WellFormed(f), Spoken(f), NEW id \in Ids
    PROVE  /\ id[2] # 0 => Meaning(f)[id] = Nothing
           /\ ~Listed(f, id[1]) => Meaning(f)[id] = Nothing
           /\ id[2] = 0 /\ Listed(f, id[1]) =>
                 \A w : LastWritten(f, w, id[1]) => Meaning(f)[id] = ValueAt(f, w, id[1])
<1> DEFINE n == id[1]
<1> DEFINE P == Settled(f, n)
<1>1. Meaning(f)[id] = IF Live(f, id) THEN Version(f, id) ELSE Nothing
  BY DEF Meaning
<1>2. P = {p \in Revisions(f) : Lists(f, p, n)}
  <2>1. ASSUME NEW p \in Revisions(f), NEW i \in DOMAIN EntriesOf(f, p), i[1] = n
        PROVE  Lists(f, p, n)
    BY <2>1 DEF Spoken
  <2>2. ASSUME NEW p \in Revisions(f), Lists(f, p, n)
        PROVE  \E i \in DOMAIN EntriesOf(f, p) : i[1] = n
    <3>1. <<n, 0>> \in DOMAIN EntriesOf(f, p) /\ <<n, 0>>[1] = n
      BY <2>2 DEF Lists
    <3> QED
      BY <3>1
  <2> QED
    BY <2>1, <2>2 DEF Settled
<1>3. ASSUME ~Listed(f, n) PROVE Meaning(f)[id] = Nothing
  <2>1. P = {}
    BY <1>2, <1>3 DEF Listed
  <2> QED
    BY <1>1, <2>1 DEF Live
<1>4. ASSUME Listed(f, n) PROVE Max(P) \in P
  <2>1. P # {} /\ P \subseteq Int /\ Len(f) \in Int /\ \A p \in P : p <= Len(f)
    BY <1>2, <1>4, FileFacts DEF Listed
  <2> HIDE DEF P
  <2> QED
    BY <2>1, GreatestExists
<1>5. ASSUME id[2] # 0 PROVE Meaning(f)[id] = Nothing
  <2>1. ~Live(f, id)
    <3>1. SUFFICES ASSUME Listed(f, n), id \in DOMAIN EntriesOf(f, Max(P))
                   PROVE  EntriesOf(f, Max(P))[id] = Free
      BY <1>2 DEF Live, Listed
    <3>2. Max(P) \in Sections(f)
      BY <3>1, <1>2, <1>4, FileFacts
    <3> HIDE DEF P
    <3> QED
      BY <1>5, <3>1, <3>2, EntryFacts
  <2> QED
    BY <1>1, <2>1
<1>6. ASSUME id[2] = 0, Listed(f, n), NEW w, LastWritten(f, w, n)
      PROVE  Meaning(f)[id] = ValueAt(f, w, n)
  <2>1. id = <<n, 0>>
    BY <1>6, IdFacts
  <2>2. Max(P) \in Sections(f) /\ Lists(f, Max(P), n)
    BY <1>2, <1>4, <1>6, FileFacts
  <2>3. Live(f, id)
    <3>1. P # {}
      BY <1>2, <1>6 DEF Listed
    <3> HIDE DEF P
    <3>2. id \in DOMAIN EntriesOf(f, Max(P))
      BY <2>1, <2>2 DEF Lists
    <3>3. EntriesOf(f, Max(P))[id] \in InUse
      BY <1>6, <2>2, <3>2, EntryFacts
    <3>4. Free \notin InUse
      BY DEF Free, InUse, Plain, Packed
    <3> USE DEF P
    <3> QED
      BY <3>1, <3>2, <3>3, <3>4 DEF Live
  <2>4. Max(Written(f, id)) = w
    <3>1. w \in Written(f, id) /\ \A v \in Written(f, id) : v <= w
      BY <1>6, <2>1 DEF LastWritten
    <3>2. Written(f, id) \subseteq Int
      BY FileFacts DEF Written
    <3> QED
      BY <3>1, <3>2, GreatestIs
  <2> QED
    BY <1>1, <2>3, <2>4 DEF Version, ValueAt
<1> QED
  BY <1>3, <1>5, <1>6

\* A revision that speaks properly leaves the file one that is spoken properly.
LEMMA ExtendSpoken ==
    ASSUME NEW f, NEW g, WellFormed(f), Spoken(f), Extends(f, g),
           \A id \in DOMAIN EntriesOf(g, Len(g)) : Lists(g, Len(g), id[1])
    PROVE  Spoken(g)
<1>1. /\ Revisions(g) = Revisions(f) \cup {Len(g)}
      /\ \A p \in Revisions(f) : EntriesOf(g, p) = EntriesOf(f, p)
  BY ExtendFacts, FileFacts
<1> QED
  BY <1>1 DEF Spoken, Lists

\* It changes the meaning of the objects it lists, and of no others.
LEMMA ExtendMeaning ==
    ASSUME NEW f, NEW g, WellFormed(f), Spoken(f), Extends(f, g), Spoken(g), NEW id \in Ids
    PROVE  /\ ~Lists(g, Len(g), id[1]) => Meaning(g)[id] = Meaning(f)[id]
           /\ id[2] = 0 /\ Lists(g, Len(g), id[1]) =>
                 \A w : LastWritten(g, w, id[1]) => Meaning(g)[id] = ValueAt(g, w, id[1])
           /\ id[2] # 0 => Meaning(g)[id] = Nothing
<1> DEFINE n == id[1]
<1>1. WellFormed(g)
  BY ExtendsIsWellFormed
<1>2. /\ Revisions(g) = Revisions(f) \cup {Len(g)}
      /\ \A p \in Revisions(f) : EntriesOf(g, p) = EntriesOf(f, p)
  BY ExtendFacts, FileFacts
<1>3. ASSUME ~Lists(g, Len(g), n) PROVE Meaning(g)[id] = Meaning(f)[id]
  <2>1. Listed(g, n) <=> Listed(f, n)
    BY <1>2, <1>3 DEF Listed, Lists
  <2>2. CASE id[2] # 0 \/ ~Listed(f, n)
    BY <2>1, <2>2, <1>1, MeaningOf
  <2>3. CASE id[2] = 0 /\ Listed(f, n)
    <3>1. PICK w \in DOMAIN f : LastWritten(f, w, n)
      BY <2>3, NewestExists
    <3>2. LastWritten(g, w, n)
      <4>1. n # 0
        BY IdFacts
      <4> QED
        BY <1>3, <3>1, <4>1, ExtendKeeps
    <3>3. g[w] = f[w]
      BY DEF Extends
    <3>4. Meaning(f)[id] = ValueAt(f, w, n)
      BY <2>3, <3>1, MeaningOf
    <3>5. Meaning(g)[id] = ValueAt(g, w, n)
      BY <1>1, <2>1, <2>3, <3>2, MeaningOf
    <3> QED
      BY <3>3, <3>4, <3>5 DEF ValueAt
  <2> QED
    BY <2>2, <2>3
<1>4. Lists(g, Len(g), n) => Listed(g, n)
  BY <1>2 DEF Listed
<1> QED
  BY <1>1, <1>3, <1>4, MeaningOf

-----------------------------------------------------------------------------
(***************************************************************************)
(* Sequences, element by element.                                          *)
(***************************************************************************)

\* A function on 1..n is a sequence of its values.
LEMMA FunctionIsSeq ==
    ASSUME NEW n \in Nat, NEW s, s = [k \in 1..n |-> s[k]]
    PROVE  s \in Seq(Elements(s)) /\ Len(s) = n /\ DOMAIN s = 1..n
<1>1. DOMAIN s = 1..n
  OBVIOUS
<1>2. s \in [1..n -> Elements(s)]
  BY <1>1 DEF Elements
<1>3. s \in Seq(Elements(s))
  <2> DEFINE E == Elements(s)
  <2>1. s \in [1..n -> E]
    BY <1>2
  <2> HIDE DEF E
  <2>2. s \in Seq(E)
    BY <2>1, SeqDef
  <2> QED
    BY <2>2 DEF E
<1> QED
  BY <1>1, <1>3, LenProperties

\* The items of two files one after the other.
LEMMA Joined ==
    ASSUME NEW s, NEW t, s \in Seq(Elements(s)), t \in Seq(Elements(t)), NEW h, h = s \o t
    PROVE  /\ h \in Seq(Elements(h)) /\ Len(h) = Len(s) + Len(t)
           /\ Len(s) \in Nat /\ Len(t) \in Nat
           /\ DOMAIN s = 1..Len(s) /\ DOMAIN t = 1..Len(t) /\ DOMAIN h = 1..(Len(s) + Len(t))
           /\ \A k \in 1..Len(s) : h[k] = s[k]
           /\ \A k \in 1..Len(t) : h[Len(s) + k] = t[k]
<1> DEFINE U == Elements(s) \cup Elements(t)
<1>1. s \in Seq(U) /\ t \in Seq(U)
  <2>1. Elements(s) \subseteq U /\ Elements(t) \subseteq U
    OBVIOUS
  <2> HIDE DEF U
  <2> QED
    BY <2>1, SeqMonotonic
<1> HIDE DEF U
<1>2. /\ h \in Seq(U) /\ Len(h) = Len(s) + Len(t)
      /\ \A i \in 1..(Len(s) + Len(t)) :
            h[i] = IF i <= Len(s) THEN s[i] ELSE t[i - Len(s)]
  BY <1>1, ConcatProperties
<1>3. /\ Len(s) \in Nat /\ DOMAIN s = 1..Len(s) /\ Len(t) \in Nat /\ DOMAIN t = 1..Len(t)
      /\ DOMAIN h = 1..Len(h) /\ h \in [1..Len(h) -> U]
  BY <1>1, <1>2, LenProperties
<1>4. h \in Seq(Elements(h))
  <2>1. h = [k \in 1..Len(h) |-> h[k]]
    BY <1>3
  <2>2. Len(h) \in Nat
    BY <1>2, <1>3
  <2> QED
    BY <2>1, <2>2, FunctionIsSeq
<1>5. \A k \in 1..Len(s) : h[k] = s[k]
  BY <1>2, <1>3
<1>6. ASSUME NEW k \in 1..Len(t) PROVE h[Len(s) + k] = t[k]
  <2>1. /\ Len(s) + k \in 1..(Len(s) + Len(t)) /\ ~(Len(s) + k <= Len(s))
        /\ (Len(s) + k) - Len(s) = k
    BY <1>3
  <2> QED
    BY <1>2, <2>1
<1> QED
  BY <1>2, <1>3, <1>4, <1>5, <1>6

\* Joining one item appends it.
LEMMA OneJoined ==
    ASSUME NEW s, s \in Seq(Elements(s)), NEW x
    PROVE  s \o <<x>> = Append(s, x)
<1> DEFINE U == Elements(s) \cup {x}
<1>1. Elements(s) \subseteq U /\ x \in U
  OBVIOUS
<1> HIDE DEF U
<1>2. s \in Seq(U)
  BY <1>1, SeqMonotonic
<1> QED
  BY <1>1, <1>2, AppendIsConcat

\* The items of a file with one more.
LEMMA Added ==
    ASSUME NEW s, NEW x, s \in Seq(Elements(s)), NEW h, h = Append(s, x)
    PROVE  /\ h \in Seq(Elements(h)) /\ Len(h) = Len(s) + 1
           /\ Len(s) \in Nat
           /\ DOMAIN s = 1..Len(s) /\ DOMAIN h = 1..(Len(s) + 1)
           /\ \A k \in 1..Len(s) : h[k] = s[k]
           /\ h[Len(s) + 1] = x
<1> DEFINE U == Elements(s) \cup {x}
<1>1. s \in Seq(U) /\ x \in U
  <2>1. Elements(s) \subseteq U /\ x \in U
    OBVIOUS
  <2> HIDE DEF U
  <2> QED
    BY <2>1, SeqMonotonic
<1> HIDE DEF U
<1>2. /\ h \in Seq(U) /\ Len(h) = Len(s) + 1
      /\ \A i \in 1..Len(s) : h[i] = s[i]
      /\ h[Len(s) + 1] = x
  BY <1>1, AppendProperties
<1>3. /\ Len(s) \in Nat /\ DOMAIN s = 1..Len(s)
      /\ DOMAIN h = 1..Len(h) /\ h \in [1..Len(h) -> U]
  BY <1>1, <1>2, LenProperties
<1>4. h \in Seq(Elements(h))
  <2>1. h = [k \in 1..Len(h) |-> h[k]]
    BY <1>3
  <2>2. Len(h) \in Nat
    BY <1>2, <1>3
  <2> QED
    BY <2>1, <2>2, FunctionIsSeq
<1> QED
  BY <1>2, <1>3, <1>4

-----------------------------------------------------------------------------
(***************************************************************************)
(* Revisions of objects and a table: `Appended`, by the editor and by      *)
(* others.                                                                 *)
(***************************************************************************)

\* ids lists the members of S, each once.
Enumerates(ids, S) ==
    /\ Len(ids) \in Nat /\ DOMAIN ids = 1..Len(ids)
    /\ \A k \in 1..Len(ids) : ids[k] \in S
    /\ \A id \in S : \E k \in 1..Len(ids) : ids[k] = id
    /\ \A j, k \in 1..Len(ids) : ids[j] = ids[k] => j = k

\* g is f with a table of the objects objs, in the order ids.
Lays(f, g, ids, objs, sz) ==
    LET last == g[Len(g)] IN
    /\ g \in Seq(Elements(g)) /\ Len(g) = Len(f) + Len(ids) + 1 /\ DOMAIN g = 1..Len(g)
    /\ \A p \in DOMAIN f : g[p] = f[p]
    /\ \A k \in 1..Len(ids) : g[Len(f) + k] = Object(ids[k][1], ids[k][2], objs[ids[k]])
    /\ last = Section(0, last.entries, last.prev, 0, sz)
    /\ last.kind = "section" /\ last.num = 0 /\ last.gen = 0 /\ last.stm = 0
    /\ last.size = sz /\ last.prev \in {Len(f), Len(g)}
    /\ DOMAIN last.entries = DOMAIN objs
    /\ \A k \in 1..Len(ids) : last.entries[ids[k]] = Plain(Len(f) + k)

\* Appended adds the objects in order, and a table that lists them.
LEMMA AppendedLays ==
    ASSUME NEW f, WellFormed(f), NEW ids, NEW objs, NEW sz, Enumerates(ids, DOMAIN objs),
           NEW g, g = Appended(f, ids, objs, sz)
    PROVE  Lays(f, g, ids, objs, sz)
<1> DEFINE body == [k \in 1..Len(ids) |-> Object(ids[k][1], ids[k][2], objs[ids[k]])]
<1> DEFINE at == [id \in DOMAIN objs |-> Plain(Len(f) + CHOOSE k \in 1..Len(ids) : ids[k] = id)]
<1> DEFINE table == Section(0, at, StartXref(f), 0, sz)
<1>1. g = (f \o body) \o <<table>>
  BY DEF Appended
<1>2. Len(ids) \in Nat
  BY DEF Enumerates
<1>3. f \in Seq(Elements(f)) /\ DOMAIN f = 1..Len(f) /\ Len(f) \in Nat
  <2>1. DOMAIN f = 1..Len(f) /\ Len(f) \in Nat
    BY FileFacts
  <2>2. Items(f)
    BY DEF WellFormed
  <2> QED
    BY <2>1, <2>2 DEF Items
<1>4. body \in Seq(Elements(body)) /\ Len(body) = Len(ids)
  <2>1. body = [k \in 1..Len(ids) |-> body[k]]
    OBVIOUS
  <2> HIDE DEF body
  <2> QED
    BY <1>2, <2>1, FunctionIsSeq
<1>5. \A k \in 1..Len(ids) : body[k] = Object(ids[k][1], ids[k][2], objs[ids[k]])
  OBVIOUS
<1>6. ASSUME NEW k \in 1..Len(ids) PROVE at[ids[k]] = Plain(Len(f) + k)
  <2>1. (CHOOSE j \in 1..Len(ids) : ids[j] = ids[k]) = k
    <3> DEFINE c == CHOOSE j \in 1..Len(ids) : ids[j] = ids[k]
    <3>1. c \in 1..Len(ids) /\ ids[c] = ids[k]
      BY Zenon
    <3> QED
      BY <3>1 DEF Enumerates
  <2>2. ids[k] \in DOMAIN objs
    BY DEF Enumerates
  <2> QED
    BY <2>1, <2>2
<1>7. DOMAIN at = DOMAIN objs
  OBVIOUS
<1> HIDE DEF body, at
<1> DEFINE h == f \o body
<1>8. /\ h \in Seq(Elements(h)) /\ Len(h) = Len(f) + Len(ids)
      /\ \A p \in 1..Len(f) : h[p] = f[p]
      /\ \A k \in 1..Len(ids) : h[Len(f) + k] = body[k]
  <2>1. h = f \o body
    OBVIOUS
  <2> HIDE DEF h
  <2>2. /\ h \in Seq(Elements(h)) /\ Len(h) = Len(f) + Len(body)
        /\ \A k \in 1..Len(f) : h[k] = f[k]
        /\ \A k \in 1..Len(body) : h[Len(f) + k] = body[k]
    <3>1. f \in Seq(Elements(f))
      BY <1>3
    <3>2. body \in Seq(Elements(body))
      BY <1>4
    <3>3. h = f \o body
      BY <2>1
    <3>4. h \in Seq(Elements(h)) /\ Len(h) = Len(f) + Len(body)
      BY <3>1, <3>2, <3>3, Joined
    <3>5. ASSUME NEW k \in 1..Len(f) PROVE h[k] = f[k]
      BY <3>1, <3>2, <3>3, Joined
    <3>6. ASSUME NEW k \in 1..Len(body) PROVE h[Len(f) + k] = body[k]
      BY <3>1, <3>2, <3>3, Joined
    <3> QED
      BY <3>4, <3>5, <3>6
  <2> QED
    BY <2>2, <1>4
<1>9. /\ g \in Seq(Elements(g)) /\ Len(g) = Len(h) + 1 /\ DOMAIN g = 1..(Len(h) + 1)
      /\ \A p \in 1..Len(h) : g[p] = h[p]
      /\ g[Len(h) + 1] = table
  <2>1. g = h \o <<table>>
    BY <1>1
  <2> HIDE DEF h, table
  <2>2. g = Append(h, table)
    BY <1>8, <2>1, OneJoined
  <2>3. h \in Seq(Elements(h))
    BY <1>8
  <2>4. g \in Seq(Elements(g)) /\ Len(g) = Len(h) + 1
    BY <2>2, <2>3, Added
  <2>5. DOMAIN g = 1..(Len(h) + 1) /\ g[Len(h) + 1] = table
    BY <2>2, <2>3, Added
  <2>6. ASSUME NEW p \in 1..Len(h) PROVE g[p] = h[p]
    BY <2>2, <2>3, Added
  <2> QED
    BY <2>4, <2>5, <2>6
<1> HIDE DEF h
<1>10. /\ table.kind = "section" /\ table.num = 0 /\ table.gen = 0 /\ table.stm = 0
       /\ table.size = sz /\ table.prev = Len(f) /\ table.entries = at
       /\ table = Section(0, table.entries, table.prev, 0, sz)
  BY FileFacts DEF Section
<1> HIDE DEF table
<1>11. \A p \in DOMAIN f : g[p] = f[p]
  BY <1>2, <1>3, <1>8, <1>9
<1>12. ASSUME NEW k \in 1..Len(ids)
       PROVE  g[Len(f) + k] = Object(ids[k][1], ids[k][2], objs[ids[k]])
  <2>1. Len(f) + k \in 1..Len(h)
    BY <1>2, <1>3, <1>8
  <2> QED
    BY <2>1, <1>5, <1>8, <1>9
<1>13. Len(g) = Len(f) + Len(ids) + 1 /\ Len(g) = Len(h) + 1
  BY <1>2, <1>3, <1>8, <1>9
<1> QED
  BY <1>6, <1>7, <1>9, <1>10, <1>11, <1>12, <1>13 DEF Lays

\* What the objects have to be.
Suited(f, objs, sz) ==
    /\ sz \in LastSize(f)..(MaxNumber + 1)
    /\ \A id \in DOMAIN objs :
          /\ id \in Ids /\ id[2] = 0 /\ id[1] < sz
          /\ objs[id] \in Int \cup {Stream}
          /\ \A q \in DOMAIN f :
                /\ f[q].num = id[1] =>
                      f[q].kind = "object" /\ (f[q].value = Stream <=> objs[id] = Stream)
                /\ f[q].kind = "bundle" /\ id[1] \in DOMAIN f[q].value => objs[id] \in Int

\* New objects with a table extend a file, and are what it means from then on.
LEMMA LaysExtends ==
    ASSUME NEW f, NEW g, NEW ids, NEW objs, NEW sz, WellFormed(f), Enumerates(ids, DOMAIN objs),
           Lays(f, g, ids, objs, sz), Suited(f, objs, sz), Len(g) <= MaxItems
    PROVE  /\ Extends(f, g) /\ DOMAIN EntriesOf(g, Len(g)) = DOMAIN objs
           /\ \A n : <<n, 0>> \in DOMAIN objs =>
                 \E w : LastWritten(g, w, n) /\ ValueAt(g, w, n) = objs[<<n, 0>>]
<1> DEFINE L == Len(g)
<1>1. /\ DOMAIN f = 1..Len(f) /\ Len(f) \in Nat \ {0} /\ Len(ids) \in Nat
      /\ L = Len(f) + Len(ids) + 1 /\ L \in Nat /\ Len(f) < L /\ DOMAIN g = 1..L
  BY FileFacts DEF Lays, Enumerates
<1>2. \A p \in DOMAIN f : g[p] = f[p] /\ p < L
  BY <1>1 DEF Lays
<1>3. ASSUME NEW p \in DOMAIN g, p \notin DOMAIN f, p # L
      PROVE  \E k \in 1..Len(ids) :
                /\ p = Len(f) + k /\ ids[k] \in DOMAIN objs
                /\ g[p].kind = "object" /\ g[p].num = ids[k][1] /\ g[p].gen = ids[k][2]
                /\ g[p].value = objs[ids[k]]
  <2>1. p - Len(f) \in 1..Len(ids) /\ Len(f) + (p - Len(f)) = p
    BY <1>1, <1>3
  <2>2. PICK k \in 1..Len(ids) : Len(f) + k = p
    BY <2>1
  <2>3. g[p] = Object(ids[k][1], ids[k][2], objs[ids[k]])
    BY <2>2 DEF Lays
  <2>4. ids[k] \in DOMAIN objs
    BY DEF Enumerates
  <2> QED
    BY <2>2, <2>3, <2>4 DEF Object
<1>4. /\ g[L].kind = "section" /\ g[L].num = 0 /\ g[L].gen = 0 /\ g[L].stm = 0
      /\ g[L].size = sz /\ g[L].prev \in {Len(f), L}
      /\ g[L] = Section(g[L].num, g[L].entries, g[L].prev, g[L].stm, g[L].size)
      /\ DOMAIN g[L].entries = DOMAIN objs
      /\ \A k \in 1..Len(ids) : g[L].entries[ids[k]] = Plain(Len(f) + k)
  BY DEF Lays
<1>5. EntriesOf(g, L) = OrInsert(g[L].entries, <<>>)
  BY <1>4 DEF EntriesOf
<1>6. /\ DOMAIN EntriesOf(g, L) = DOMAIN objs
      /\ \A k \in 1..Len(ids) : EntriesOf(g, L)[ids[k]] = Plain(Len(f) + k)
  <2>1. DOMAIN OrInsert(g[L].entries, <<>>) = DOMAIN g[L].entries
    BY EmptyTable DEF OrInsert
  <2>2. \A id \in DOMAIN g[L].entries : OrInsert(g[L].entries, <<>>)[id] = g[L].entries[id]
    BY EmptyTable DEF OrInsert
  <2>3. \A k \in 1..Len(ids) : ids[k] \in DOMAIN objs
    BY DEF Enumerates
  <2> QED
    BY <1>4, <1>5, <2>1, <2>2, <2>3
<1>7. \A id \in DOMAIN objs : id \in Ids /\ id[2] = 0 /\ id[1] < sz /\ id[1] \in Nat \ {0}
                              /\ id = <<id[1], 0>> /\ objs[id] \in Int \cup {Stream}
  BY IdFacts DEF Suited
<1>8. \A p \in DOMAIN f : ItemOK(f[p])
  BY DEF WellFormed, Items
<1>9. sz \in Nat /\ sz \in LastSize(f)..(MaxNumber + 1) /\ LastSize(f) \in Nat /\ MaxNumber \in Nat
  BY IdFacts DEF Suited, WellFormed, Chain
<1>10. Items(g)
  <2>1. ASSUME NEW p \in DOMAIN g PROVE ItemOK(g[p])
    <3>1. CASE p \in DOMAIN f
      BY <1>2, <1>8, <3>1
    <3>2. CASE p \notin DOMAIN f /\ p # L
      <4>1. PICK k \in 1..Len(ids) :
                /\ p = Len(f) + k /\ ids[k] \in DOMAIN objs
                /\ g[p].kind = "object" /\ g[p].num = ids[k][1] /\ g[p].gen = ids[k][2]
                /\ g[p].value = objs[ids[k]]
        BY <1>3, <3>2
      <4> QED
        BY <4>1, <1>7 DEF ItemOK
    <3>3. CASE p = L
      <4>1. ASSUME NEW id \in DOMAIN g[L].entries
            PROVE  IF id[2] = 0 THEN g[L].entries[id] \in InUse ELSE g[L].entries[id] = Free
        <5>1. PICK k \in 1..Len(ids) : ids[k] = id
          BY <1>4 DEF Enumerates
        <5>2. g[L].entries[id] = Plain(Len(f) + k) /\ Len(f) + k \in Offsets
          BY <5>1, <1>1, <1>4, IdFacts DEF Offsets
        <5>3. g[L].entries[id] \in InUse
          BY <5>2 DEF InUse
        <5> QED
          BY <5>3, <1>4, <1>7
      <4> QED
        BY <3>3, <4>1, <1>1, <1>4, <1>7, <1>9 DEF ItemOK
    <3> QED
      BY <3>1, <3>2, <3>3
  <2> QED
    BY <2>1, <1>1, IdFacts DEF Items, Lays
<1>11. ASSUME NEW p \in DOMAIN g, NEW q \in DOMAIN g
       PROVE  /\ g[p].num = g[q].num /\ g[p].num # 0 =>
                    /\ g[p].kind = g[q].kind
                    /\ g[p].kind = "object" => (g[p].value = Stream <=> g[q].value = Stream)
                    /\ g[p].kind # "object" => p = q
              /\ g[p].kind = "bundle" /\ g[q].num \in DOMAIN g[p].value =>
                    g[q].kind = "object" /\ g[q].value \in Int
  <2>1. CASE p \in DOMAIN f /\ q \in DOMAIN f
    BY <2>1, <1>2 DEF WellFormed, Unique
  <2>2. ASSUME NEW a \in DOMAIN f, NEW b \in DOMAIN g, b \notin DOMAIN f, b # L
        PROVE  /\ f[a].num = g[b].num =>
                     /\ f[a].kind = "object" /\ g[b].kind = "object"
                     /\ f[a].value = Stream <=> g[b].value = Stream
               /\ f[a].kind = "bundle" /\ g[b].num \in DOMAIN f[a].value =>
                     g[b].kind = "object" /\ g[b].value \in Int
    <3>1. PICK k \in 1..Len(ids) :
              /\ b = Len(f) + k /\ ids[k] \in DOMAIN objs
              /\ g[b].kind = "object" /\ g[b].num = ids[k][1] /\ g[b].gen = ids[k][2]
              /\ g[b].value = objs[ids[k]]
      BY <1>3, <2>2
    <3> QED
      BY <3>1 DEF Suited
  <2>3. CASE p \in DOMAIN f /\ q \notin DOMAIN f /\ q # L
    BY <2>3, <2>2, <1>2
  <2>4. CASE p \notin DOMAIN f /\ p # L /\ q \in DOMAIN f
    <3>1. g[p].kind = "object"
      BY <1>3, <2>4
    <3> QED
      BY <3>1, <2>4, <2>2, <1>2
  <2>5. CASE p \notin DOMAIN f /\ p # L /\ q \notin DOMAIN f /\ q # L
    <3>1. PICK j \in 1..Len(ids) : /\ ids[j] \in DOMAIN objs /\ g[p].kind = "object"
                                   /\ g[p].num = ids[j][1] /\ g[p].value = objs[ids[j]]
      BY <1>3, <2>5
    <3>2. PICK k \in 1..Len(ids) : /\ ids[k] \in DOMAIN objs /\ g[q].kind = "object"
                                   /\ g[q].num = ids[k][1] /\ g[q].value = objs[ids[k]]
      BY <1>3, <2>5
    <3>3. g[p].num = g[q].num => ids[j] = ids[k]
      BY <3>1, <3>2, <1>7
    <3> QED
      BY <3>1, <3>2, <3>3
  <2>6. CASE p = L
    BY <2>6, <1>4
  <2>7. CASE q = L /\ p # L
    <3>1. CASE p \in DOMAIN f
      BY <2>7, <3>1, <1>2, <1>4, <1>8 DEF ItemOK
    <3>2. CASE p \notin DOMAIN f
      <4>1. g[p].kind = "object" /\ g[p].num # 0
        BY <1>3, <1>7, <2>7, <3>2
      <4> QED
        BY <4>1, <2>7, <1>4
    <3> QED
      BY <3>1, <3>2
  <2> QED
    BY <2>1, <2>3, <2>4, <2>5, <2>6, <2>7
<1>12. Unique(g)
  BY <1>11 DEF Unique
<1>13. ASSUME NEW k \in 1..Len(ids)
       PROVE  /\ LastWritten(g, Len(f) + k, ids[k][1]) /\ Len(f) + k \in DOMAIN g \ DOMAIN f
              /\ g[Len(f) + k].num = ids[k][1] /\ g[Len(f) + k].kind = "object"
              /\ g[Len(f) + k].value = objs[ids[k]]
  <2> DEFINE n == ids[k][1]
  <2> DEFINE w == Len(f) + k
  <2>1. w \in DOMAIN g /\ w \notin DOMAIN f /\ w # L /\ w \in Nat
    BY <1>1
  <2>2. g[w].num = n /\ g[w].kind = "object" /\ g[w].value = objs[ids[k]]
    <3>1. g[w] = Object(ids[k][1], ids[k][2], objs[ids[k]])
      BY DEF Lays
    <3> QED
      BY <3>1 DEF Object
  <2>3. ids[k] \in DOMAIN objs
    BY DEF Enumerates
  <2>4. ASSUME NEW v \in Written(g, <<n, 0>>) PROVE v <= w
    <3>1. /\ v \in DOMAIN g
          /\ g[v].num = n \/ (g[v].kind = "bundle" /\ n \in DOMAIN g[v].value)
      <4> HIDE DEF n
      <4> QED
        BY <1>10, WrittenIs
    <3>2. CASE v \in DOMAIN f
      BY <3>2, <1>1
    <3>3. CASE v \notin DOMAIN f /\ v # L
      <4>1. PICK j \in 1..Len(ids) :
                /\ v = Len(f) + j /\ ids[j] \in DOMAIN objs
                /\ g[v].kind = "object" /\ g[v].num = ids[j][1]
        BY <1>3, <3>1, <3>3
      <4>2. ids[j][1] = n
        BY <3>1, <4>1
      <4>3. ids[j] = ids[k]
        BY <4>1, <4>2, <2>3, <1>7
      <4>4. j = k
        BY <4>3 DEF Enumerates
      <4> QED
        BY <4>1, <4>4, <1>1
    <3>4. v # L
      BY <3>1, <1>4, <1>7, <2>3
    <3> QED
      BY <3>2, <3>3, <3>4
  <2>5. w \in Written(g, <<n, 0>>)
    <3> HIDE DEF n, w
    <3> QED
      BY <2>1, <2>2, <1>10, WrittenIs
  <2> QED
    BY <2>1, <2>2, <2>4, <2>5 DEF LastWritten
<1>14. ASSUME NEW n, <<n, 0>> \in DOMAIN objs
       PROVE  \E k \in 1..Len(ids) : ids[k] = <<n, 0>> /\ ids[k][1] = n
  <2>1. PICK k \in 1..Len(ids) : ids[k] = <<n, 0>>
    BY <1>14 DEF Enumerates
  <2> QED
    BY <2>1
<1>15. Extends(f, g)
  <2>1. \A n : Lists(g, L, n) <=> <<n, 0>> \in DOMAIN objs
    BY <1>6 DEF Lists
  <2>2. ASSUME NEW p \in (Len(f) + 1)..L
        PROVE  /\ g[p].num < g[L].size
               /\ g[p].num # 0 => Lists(g, L, g[p].num)
               /\ g[p].kind # "bundle"
    <3>1. p \in DOMAIN g /\ p \notin DOMAIN f
      BY <1>1
    <3>2. CASE p = L
      <4>1. g[L].size >= 1
        BY <1>4, <1>9 DEF WellFormed, Chain
      <4> QED
        BY <3>2, <4>1, <1>4, <1>9
    <3>3. CASE p # L
      <4>1. PICK k \in 1..Len(ids) : /\ ids[k] \in DOMAIN objs /\ g[p].kind = "object"
                                     /\ g[p].num = ids[k][1]
        BY <1>3, <3>1, <3>3
      <4> QED
        BY <4>1, <1>4, <1>7, <2>1
    <3> QED
      BY <3>2, <3>3
  <2>3. \A p \in (Len(f) + 1)..(L - 1) : g[p].kind # "section"
    <3>1. ASSUME NEW p \in (Len(f) + 1)..(L - 1) PROVE g[p].kind # "section"
      <4>1. p \in DOMAIN g /\ p \notin DOMAIN f /\ p # L
        BY <1>1
      <4> QED
        BY <4>1, <1>3
    <3> QED
      BY <3>1
  <2>4. ASSUME NEW n \in Numbers, Lists(g, L, n)
        PROVE  \E w \in (Len(f) + 1)..L :
                  LastWritten(g, w, n) /\ Leads(g, EntriesOf(g, L)[<<n, 0>>], w, n)
    <3>1. PICK k \in 1..Len(ids) : ids[k] = <<n, 0>> /\ ids[k][1] = n
      BY <1>14, <2>1, <2>4
    <3>2. Len(f) + k \in (Len(f) + 1)..L
      BY <1>1
    <3>3. EntriesOf(g, L)[<<n, 0>>] = Plain(Len(f) + k)
      BY <3>1, <1>6
    <3> QED
      BY <3>1, <3>2, <3>3, <1>13 DEF Leads
  <2> QED
    BY <1>2, <1>4, <1>9, <1>10, <1>12, <1>1, <2>2, <2>3, <2>4 DEF Extends
<1>16. ASSUME NEW n, <<n, 0>> \in DOMAIN objs
       PROVE  \E w : LastWritten(g, w, n) /\ ValueAt(g, w, n) = objs[<<n, 0>>]
  <2>1. PICK k \in 1..Len(ids) : ids[k] = <<n, 0>> /\ ids[k][1] = n
    BY <1>14, <1>16
  <2> QED
    BY <2>1, <1>13 DEF ValueAt
<1> QED
  BY <1>6, <1>15, <1>16

-----------------------------------------------------------------------------
(***************************************************************************)
(* Revisions with an object stream.                                        *)
(***************************************************************************)

\* A file that ends with a section ends with its newest revision.
LEMMA LastIs ==
    ASSUME NEW g, DOMAIN g = 1..Len(g), Len(g) \in Nat \ {0}, g[Len(g)].kind = "section"
    PROVE  StartXref(g) = Len(g) /\ LastSize(g) = g[Len(g)].size
<1>1. Sections(g) \subseteq Int /\ Len(g) \in Sections(g) /\ \A p \in Sections(g) : p <= Len(g)
  BY DEF Sections
<1>2. StartXref(g) = Len(g)
  BY <1>1, GreatestIs DEF StartXref
<1> QED
  BY <1>2 DEF LastSize

\* An object that has a version: all its items are versions, and it is listed.
LEMMA HasVersions ==
    ASSUME NEW f, WellFormed(f), NEW id \in Ids, Meaning(f)[id] \in Int
    PROVE  /\ Listed(f, id[1]) /\ id[2] = 0 /\ id[1] < LastSize(f)
           /\ \A q \in DOMAIN f : f[q].num = id[1] => f[q].kind = "object" /\ f[q].value \in Int
           /\ \A w : LastWritten(f, w, id[1]) => Meaning(f)[id] = ValueAt(f, w, id[1])
<1> DEFINE n == id[1]
<1> DEFINE P == Settled(f, n)
<1>1. Nothing \notin Int /\ Stream \notin Int
  BY RevisionAssumption
<1>2. Live(f, id) /\ Meaning(f)[id] = Version(f, id)
  BY <1>1 DEF Meaning
<1>3. Max(P) \in P
  <2>1. P # {} /\ P \subseteq Int /\ Len(f) \in Int /\ \A p \in P : p <= Len(f)
    BY <1>2, FileFacts DEF Live, Settled
  <2> HIDE DEF P
  <2> QED
    BY <2>1, GreatestExists
<1>4. Max(P) \in Revisions(f) /\ Max(P) \in Sections(f)
  BY <1>3, FileFacts DEF Settled
<1>5. id \in DOMAIN EntriesOf(f, Max(P)) /\ EntriesOf(f, Max(P))[id] # Free
  BY <1>2 DEF Live
<1> HIDE DEF P
<1>6. id[2] = 0
  BY <1>4, <1>5, EntryFacts
<1>7. id = <<n, 0>> /\ n # 0
  BY <1>6, IdFacts
<1>8. Listed(f, n)
  BY <1>4, <1>5, <1>7 DEF Listed, Lists
<1>9. PICK w \in DOMAIN f : LastWritten(f, w, n)
  BY <1>8, NewestExists
<1>10. Max(Written(f, id)) = w
  <2>1. w \in Written(f, id) /\ \A v \in Written(f, id) : v <= w
    BY <1>7, <1>9 DEF LastWritten
  <2>2. Written(f, id) \subseteq Int
    BY FileFacts DEF Written
  <2> QED
    BY <2>1, <2>2, GreatestIs
<1>11. Meaning(f)[id] = ValueAt(f, w, n)
  BY <1>2, <1>10 DEF Version, ValueAt
<1>12. f[w].num = n \/ (f[w].kind = "bundle" /\ n \in DOMAIN f[w].value)
  <2>1. Items(f) /\ w \in Written(f, <<n, 0>>)
    BY <1>9 DEF WellFormed, LastWritten
  <2> HIDE DEF n
  <2> QED
    BY <2>1, WrittenIs
<1>13. \/ f[w].kind = "object" /\ f[w].num = n /\ f[w].value \in Int
       \/ f[w].kind = "bundle" /\ n \in DOMAIN f[w].value
  BY <1>1, <1>11, <1>12 DEF ValueAt
<1>14. ASSUME NEW q \in DOMAIN f, f[q].num = n
       PROVE  f[q].kind = "object" /\ f[q].value \in Int
  <2>1. ItemOK(f[q])
    BY DEF WellFormed, Items
  <2> QED
    BY <1>1, <1>7, <1>13, <1>14, <2>1 DEF WellFormed, Unique, ItemOK
<1>15. n < LastSize(f)
  BY <1>12, <1>13 DEF WellFormed, Numbered
<1> QED
  BY <1>6, <1>8, <1>9, <1>11, <1>14, <1>15, LastIsOne

\* g is f with an object stream that holds version x of object m, its section
\* of the cross-reference and, after it, perhaps a table that names the section.
Packs(f, g, m, x) ==
    LET sz == LastSize(f)
        last == g[Len(g)]
        E == EntriesOf(g, Len(g))
    IN  /\ Items(g)
        /\ Len(g) \in {Len(f) + 2, Len(f) + 3}
        /\ \A p \in DOMAIN f : g[p] = f[p]
        /\ g[Len(f) + 1].kind = "bundle" /\ g[Len(f) + 1].num = sz
        /\ DOMAIN g[Len(f) + 1].value = {m} /\ g[Len(f) + 1].value[m] = x
        /\ g[Len(f) + 2].kind = "section" /\ g[Len(f) + 2].num = sz + 1
        /\ g[Len(f) + 2].stm = 0
        /\ last.kind = "section" /\ last.prev = Len(f) /\ last.size = sz + 2
        /\ Len(g) = Len(f) + 3 => last.num = 0 /\ last.stm = Len(f) + 2
        /\ \A n : <<n, 0>> \in DOMAIN E <=> n \in {m, sz, sz + 1}
        /\ \A id \in DOMAIN E : id[1] \in {m, sz, sz + 1}
        /\ E[<<m, 0>>] = Packed(sz)
        /\ E[<<sz, 0>>] = Plain(Len(f) + 1) /\ E[<<sz + 1, 0>>] = Plain(Len(f) + 2)

\* It gives m that version, and says nothing of the other objects of f.
PacksOnly(f, g, m, x) ==
    /\ Extends(f, g)
    /\ \A id \in DOMAIN EntriesOf(g, Len(g)) : Lists(g, Len(g), id[1])
    /\ LastWritten(g, Len(f) + 1, m) /\ ValueAt(g, Len(f) + 1, m) = x
    /\ \A n : Lists(g, Len(g), n) => n = m \/ LastSize(f) <= n
    /\ \A w, n : n # m /\ Lists(g, Len(g), n) /\ LastWritten(g, w, n)
                    => ValueAt(g, w, n) = Nothing

\* A new object stream extends a file, and only its object changes.
LEMMA PacksExtends ==
    ASSUME NEW f, NEW g, WellFormed(f), NEW m \in Numbers, NEW x \in Int, Packs(f, g, m, x),
           m < LastSize(f), LastSize(f) + 2 <= MaxNumber + 1,
           \A q \in DOMAIN f : f[q].num = m => f[q].kind = "object" /\ f[q].value \in Int
    PROVE  PacksOnly(f, g, m, x)
<1> DEFINE sz == LastSize(f)
<1> DEFINE L == Len(g)
<1> DEFINE b == Len(f) + 1
<1> DEFINE s == Len(f) + 2
<1>1. /\ DOMAIN f = 1..Len(f) /\ Len(f) \in Nat \ {0} /\ b = Len(f) + 1 /\ s = Len(f) + 2
      /\ L = s \/ L = Len(f) + 3
      /\ DOMAIN g = 1..L
  BY FileFacts, LenProperties DEF Packs, Items
<1>2. \A p \in DOMAIN f : g[p] = f[p]
  BY DEF Packs
<1>3. sz \in Nat /\ sz >= 1 /\ sz + 2 <= MaxNumber + 1 /\ MaxNumber \in Nat /\ m < sz
  BY IdFacts DEF WellFormed, Chain
<1>5. /\ g[b].kind = "bundle" /\ g[b].num = sz /\ DOMAIN g[b].value = {m} /\ g[b].value[m] = x
      /\ g[s].kind = "section" /\ g[s].num = sz + 1 /\ g[s].stm = 0
      /\ g[L].kind = "section" /\ g[L].prev = Len(f) /\ g[L].size = sz + 2
      /\ L = Len(f) + 3 => g[L].num = 0 /\ g[L].stm = s
      /\ L = s => g[L].stm = 0
  BY DEF Packs
<1>6. \A n : Lists(g, L, n) <=> n \in {m, sz, sz + 1}
  BY DEF Packs, Lists
<1>7. /\ EntriesOf(g, L)[<<m, 0>>] = Packed(sz)
      /\ EntriesOf(g, L)[<<sz, 0>>] = Plain(b) /\ EntriesOf(g, L)[<<sz + 1, 0>>] = Plain(s)
  BY DEF Packs
<1>8. Items(g) /\ \A p \in DOMAIN g : ItemOK(g[p])
  BY DEF Packs, Items
<1>9. \A p \in DOMAIN f :
         /\ f[p].num < sz /\ f[p].num \in Nat
         /\ f[p].kind = "bundle" => \A n \in DOMAIN f[p].value : n < sz
  BY DEF WellFormed, Numbered, Items, ItemOK
<1> HIDE DEF sz, L, b, s
<1>11. Len(f) + 1 = b /\ Len(f) + 2 = s /\ L \in Nat
  BY <1>1
<1>4. \A p \in DOMAIN g : p \in DOMAIN f \/ p = b \/ p = s \/ (p = L /\ L = Len(f) + 3)
  BY <1>1
<1>10. b \notin DOMAIN f /\ s \notin DOMAIN f /\ L \notin DOMAIN f /\ b # s /\ b # L
       /\ b \in DOMAIN g /\ s \in DOMAIN g /\ L \in DOMAIN g /\ Len(f) < L
  BY <1>1
<1>12. Unique(g)
  <2>1. ASSUME NEW p \in DOMAIN g, NEW q \in DOMAIN g
        PROVE  /\ g[p].num = g[q].num /\ g[p].num # 0 =>
                    /\ g[p].kind = g[q].kind
                    /\ g[p].kind = "object" => (g[p].value = Stream <=> g[q].value = Stream)
                    /\ g[p].kind # "object" => p = q
               /\ g[p].kind = "bundle" /\ g[q].num \in DOMAIN g[p].value =>
                    g[q].kind = "object" /\ g[q].value \in Int
    <3>1. CASE p \in DOMAIN f /\ q \in DOMAIN f
      BY <3>1, <1>2 DEF WellFormed, Unique
    <3>2. CASE p \in DOMAIN f /\ q \notin DOMAIN f
      <4>1. q = b \/ q = s \/ (q = L /\ g[q].num = 0)
        BY <1>4, <1>5, <3>2
      <4>2. g[q].num >= sz \/ g[q].num = 0
        BY <1>3, <1>5, <4>1
      <4>3. g[p].num # g[q].num \/ g[p].num = 0
        BY <1>2, <1>3, <1>9, <3>2, <4>2
      <4>4. g[p].kind = "bundle" => g[q].num \notin DOMAIN g[p].value
        BY <1>2, <1>3, <1>8, <1>9, <3>2, <4>2 DEF ItemOK
      <4> QED
        BY <4>3, <4>4
    <3>3. CASE p = b
      <4>1. g[q].num = sz => q = b
        BY <1>2, <1>3, <1>4, <1>5, <1>9
      <4>2. g[q].num = m => g[q].kind = "object" /\ g[q].value \in Int
        <5>1. CASE q \in DOMAIN f
          BY <5>1, <1>2
        <5>2. CASE q \notin DOMAIN f
          <6>1. g[q].num = sz \/ g[q].num = sz + 1 \/ g[q].num = 0
            BY <1>4, <1>5, <5>2
          <6> QED
            BY <6>1, <1>3, IdFacts
        <5> QED
          BY <5>1, <5>2
      <4> QED
        BY <3>3, <4>1, <4>2, <1>5
    <3>4. CASE p = s
      <4>1. g[q].num = sz + 1 => q = s
        BY <1>2, <1>3, <1>4, <1>5, <1>9
      <4> QED
        BY <3>4, <4>1, <1>5
    <3>5. CASE p = L /\ L = Len(f) + 3
      BY <3>5, <1>5
    <3> QED
      BY <3>1, <3>2, <3>3, <3>4, <3>5, <1>4
  <2> QED
    BY <2>1 DEF Unique
<1>13. ASSUME NEW n, NEW v
       PROVE  v \in Written(g, <<n, 0>>) <=>
                 v \in DOMAIN g /\ (g[v].num = n \/ (g[v].kind = "bundle" /\ n \in DOMAIN g[v].value))
  BY <1>8, WrittenIs
<1>14. LastWritten(g, b, m)
  <2>1. b \in Written(g, <<m, 0>>)
    BY <1>5, <1>10, <1>13
  <2>2. ASSUME NEW v \in Written(g, <<m, 0>>) PROVE v <= b
    <3>1. v \in DOMAIN g /\ (g[v].num = m \/ (g[v].kind = "bundle" /\ m \in DOMAIN g[v].value))
      BY <1>13
    <3>2. v \in DOMAIN f \/ v = b
      BY <3>1, <1>3, <1>4, <1>5, IdFacts
    <3> QED
      BY <3>2, <1>1, <1>11
  <2> QED
    BY <2>1, <2>2 DEF LastWritten
<1>15. ASSUME NEW w \in {b, s}, NEW v, v \in Written(g, <<g[w].num, 0>>)
       PROVE  v = w
  <2> DEFINE n == g[w].num
  <2>1. /\ v \in DOMAIN g
        /\ g[v].num = n \/ (g[v].kind = "bundle" /\ n \in DOMAIN g[v].value)
    <3>1. v \in Written(g, <<n, 0>>)
      BY <1>15
    <3> HIDE DEF n
    <3> QED
      BY <1>13, <3>1
  <2>2. n # 0 /\ g[w].kind # "object" /\ w \in DOMAIN g
    BY <1>3, <1>5, <1>10
  <2> QED
    BY <1>12, <2>1, <2>2 DEF Unique
<1>16. LastWritten(g, b, sz) /\ LastWritten(g, s, sz + 1)
  <2>1. ASSUME NEW w \in {b, s} PROVE w \in Written(g, <<g[w].num, 0>>)
    <3> DEFINE n == g[w].num
    <3>1. w \in DOMAIN g /\ g[w].num = n
      BY <1>10
    <3> HIDE DEF n
    <3>2. w \in Written(g, <<n, 0>>)
      BY <3>1, <1>13
    <3> QED
      BY <3>2 DEF n
  <2>2. ASSUME NEW w \in {b, s}, NEW v \in Written(g, <<g[w].num, 0>>) PROVE v <= w
    <3>1. v = w
      BY <1>15
    <3>2. w \in Nat
      BY <1>1, <1>11
    <3> QED
      BY <3>1, <3>2
  <2>3. ASSUME NEW w \in {b, s} PROVE LastWritten(g, w, g[w].num)
    BY <2>1, <2>2 DEF LastWritten
  <2> QED
    BY <2>3, <1>5
<1>17. ASSUME NEW n \in Numbers, Lists(g, L, n)
       PROVE  \E w \in b..L :
                 LastWritten(g, w, n) /\ Leads(g, EntriesOf(g, L)[<<n, 0>>], w, n)
  <2>1. b \in b..L /\ s \in b..L
    BY <1>1, <1>11
  <2>2. Leads(g, EntriesOf(g, L)[<<m, 0>>], b, m)
    BY <1>3, <1>5, <1>7, IdFacts DEF Leads
  <2>3. Leads(g, EntriesOf(g, L)[<<sz, 0>>], b, sz)
    BY <1>5, <1>7 DEF Leads
  <2>4. Leads(g, EntriesOf(g, L)[<<sz + 1, 0>>], s, sz + 1)
    BY <1>5, <1>7 DEF Leads
  <2>5. n = m \/ n = sz \/ n = sz + 1
    BY <1>6, <1>17
  <2> QED
    BY <2>1, <2>2, <2>3, <2>4, <2>5, <1>14, <1>16
<1>18. ASSUME NEW p \in b..L
       PROVE  /\ g[p].num < g[L].size
              /\ g[p].num # 0 => Lists(g, L, g[p].num)
              /\ g[p].kind = "bundle" =>
                    \A n \in DOMAIN g[p].value : n < g[L].size /\ Lists(g, L, n)
  <2>1. p = b \/ p = s \/ (p = L /\ g[L].num = 0)
    BY <1>1, <1>5, <1>11
  <2>2. CASE p = b
    <3>1. sz < sz + 2 /\ m < sz + 2
      BY <1>3, IdFacts
    <3> QED
      BY <2>2, <3>1, <1>5, <1>6
  <2>3. CASE p = s
    BY <2>3, <1>3, <1>5, <1>6
  <2>4. CASE p = L /\ g[L].num = 0
    BY <2>4, <1>3, <1>5
  <2> QED
    BY <2>1, <2>2, <2>3, <2>4
<1>19. \A p \in b..(L - 1) : g[p].kind = "section" => p = g[L].stm
  <2>1. ASSUME NEW p \in b..(L - 1) PROVE p = b \/ (p = s /\ L = Len(f) + 3)
    BY <1>1, <1>11
  <2> QED
    BY <2>1, <1>5
<1>20. Extends(f, g)
  <2>1. g[L].size \in LastSize(f)..(MaxNumber + 1)
    BY <1>3, <1>5 DEF sz
  <2>2. g[L].stm # 0 => /\ g[L].stm \in b..(L - 1)
                        /\ g[g[L].stm].kind = "section" /\ g[g[L].stm].stm = 0
    BY <1>1, <1>5, <1>11
  <2> QED
    BY <1>2, <1>5, <1>8, <1>10, <1>11, <1>12, <1>17, <1>18, <1>19, <2>1, <2>2
       DEF Extends, L, b
<1>21. \A id \in DOMAIN EntriesOf(g, L) : Lists(g, L, id[1])
  BY <1>6 DEF Packs, L, sz
<1>22. ValueAt(g, b, m) = x
  BY <1>3, <1>5, IdFacts DEF ValueAt
<1>23. ASSUME NEW w, NEW n, n # m, Lists(g, L, n), LastWritten(g, w, n)
       PROVE  ValueAt(g, w, n) = Nothing
  <2>1. (n = sz /\ w = b) \/ (n = sz + 1 /\ w = s)
    BY <1>5, <1>6, <1>15, <1>23 DEF LastWritten
  <2> QED
    BY <2>1, <1>5 DEF ValueAt
<1>24. \A n : Lists(g, L, n) => n = m \/ sz <= n
  BY <1>3, <1>6
<1> QED
  BY <1>14, <1>20, <1>21, <1>22, <1>23, <1>24 DEF L, b, sz, PacksOnly

-----------------------------------------------------------------------------
(***************************************************************************)
(* The other programs.                                                     *)
(***************************************************************************)

\* A revision that is not hybrid speaks for itself.
LEMMA PlainEntries ==
    ASSUME NEW g, NEW p, g[p].stm = 0
    PROVE  /\ DOMAIN EntriesOf(g, p) = DOMAIN g[p].entries
           /\ \A id \in DOMAIN g[p].entries : EntriesOf(g, p)[id] = g[p].entries[id]
<1>1. EntriesOf(g, p) = OrInsert(g[p].entries, <<>>)
  BY DEF EntriesOf
<1> QED
  BY <1>1, EmptyTable DEF OrInsert

\* The program that writes xref streams packs the object.
LEMMA PackLays ==
    ASSUME NEW f, WellFormed(f), NEW m \in Numbers, m < LastSize(f), NEW v \in Int,
           NEW g, g = RevisedBy("pack", f, <<m, 0>>, v),
           Len(g) <= MaxItems, LastSize(g) <= MaxNumber + 1
    PROVE  Packs(f, g, m, v + 1) /\ LastSize(f) + 2 <= MaxNumber + 1
<1> DEFINE sz == LastSize(f)
<1> DEFINE bundle == Bundle(sz, [n \in {m} |-> v + 1])
<1> DEFINE own == OrInsert(Located(sz, Len(f) + 1), Located(sz + 1, Len(f) + 2))
<1> DEFINE es == [i \in {<<m, 0>>} |-> Packed(sz)]
<1> DEFINE all == OrInsert(es, own)
<1> DEFINE section == Section(sz + 1, all, Len(f), 0, sz + 2)
<1> DEFINE h == Append(f, bundle)
<1>1. g = Append(h, section)
  BY FileFacts DEF RevisedBy, PackedAt
<1>2. Items(f) /\ DOMAIN f = 1..Len(f) /\ Len(f) \in Nat \ {0}
  BY FileFacts DEF WellFormed
<1>3. sz \in Nat \ {0} /\ MaxNumber \in Nat /\ MaxItems \in Nat /\ m \in Nat \ {0}
  BY IdFacts DEF WellFormed, Chain
<1>4. /\ bundle.kind = "bundle" /\ bundle.num = sz /\ bundle.gen = 0
      /\ DOMAIN bundle.value = {m} /\ bundle.value[m] = v + 1
  BY DEF Bundle
<1>5. /\ section.kind = "section" /\ section.num = sz + 1 /\ section.gen = 0
      /\ section.stm = 0 /\ section.prev = Len(f) /\ section.size = sz + 2
      /\ section.entries = all
      /\ section = Section(section.num, section.entries, section.prev, section.stm, section.size)
  BY DEF Section
<1>6. /\ DOMAIN all = {<<m, 0>>, <<sz, 0>>, <<sz + 1, 0>>}
      /\ all[<<m, 0>>] = Packed(sz)
      /\ all[<<sz, 0>>] = Plain(Len(f) + 1) /\ all[<<sz + 1, 0>>] = Plain(Len(f) + 2)
  <2>1. /\ DOMAIN own = {<<sz, 0>>, <<sz + 1, 0>>}
        /\ own[<<sz, 0>>] = Plain(Len(f) + 1) /\ own[<<sz + 1, 0>>] = Plain(Len(f) + 2)
    <3>1. sz # sz + 1
      BY <1>3
    <3> HIDE DEF sz
    <3>2. <<sz, 0>> # <<sz + 1, 0>>
      BY <3>1
    <3> QED
      BY <3>2 DEF OrInsert, Located
  <2>2. DOMAIN es = {<<m, 0>>} /\ es[<<m, 0>>] = Packed(sz)
    OBVIOUS
  <2>3. <<m, 0>> # <<sz, 0>> /\ <<m, 0>> # <<sz + 1, 0>>
    BY <1>3
  <2> HIDE DEF own, es, sz
  <2> QED
    BY <2>1, <2>2, <2>3 DEF OrInsert
<1> HIDE DEF bundle, section, all, own, es
<1>7. /\ h \in Seq(Elements(h)) /\ Len(h) = Len(f) + 1
      /\ \A k \in 1..Len(f) : h[k] = f[k]
      /\ h[Len(f) + 1] = bundle
  <2>1. f \in Seq(Elements(f))
    BY <1>2 DEF Items
  <2>2. h = Append(f, bundle)
    OBVIOUS
  <2> HIDE DEF h
  <2>3. h \in Seq(Elements(h)) /\ Len(h) = Len(f) + 1
    BY <2>1, <2>2, Added
  <2>4. ASSUME NEW k \in 1..Len(f) PROVE h[k] = f[k]
    BY <2>1, <2>2, Added
  <2>5. h[Len(f) + 1] = bundle
    BY <2>1, <2>2, Added
  <2> QED
    BY <2>3, <2>4, <2>5
<1> HIDE DEF h
<1>8. /\ g \in Seq(Elements(g)) /\ Len(g) = Len(f) + 2 /\ DOMAIN g = 1..Len(g)
      /\ \A k \in 1..Len(f) : g[k] = f[k]
      /\ g[Len(f) + 1] = bundle /\ g[Len(f) + 2] = section
  <2>1. h \in Seq(Elements(h))
    BY <1>7
  <2>2. g \in Seq(Elements(g)) /\ Len(g) = Len(h) + 1 /\ DOMAIN g = 1..(Len(h) + 1)
    BY <1>1, <2>1, Added
  <2>3. ASSUME NEW k \in 1..Len(h) PROVE g[k] = h[k]
    BY <1>1, <2>1, Added
  <2>4. g[Len(h) + 1] = section
    BY <1>1, <2>1, Added
  <2>5. Len(h) + 1 = Len(f) + 2 /\ Len(f) + 1 \in 1..Len(h) /\ \A k \in 1..Len(f) : k \in 1..Len(h)
    BY <1>2, <1>7
  <2> QED
    BY <1>7, <2>2, <2>3, <2>4, <2>5
<1>9. LastSize(g) = sz + 2
  <2>1. Len(g) \in Nat \ {0} /\ g[Len(g)] = section
    BY <1>2, <1>8
  <2> QED
    BY <2>1, <1>5, <1>8, LastIs
<1>10. Items(g)
  <2>1. ItemOK(bundle)
    BY <1>3, <1>4 DEF ItemOK
  <2>2. ItemOK(section)
    <3>1. Len(f) + 1 \in Offsets /\ Len(f) + 2 \in Offsets /\ sz \in Numbers /\ sz + 1 \in Numbers
      <4>1. Len(f) \in Nat /\ Len(f) + 2 <= MaxItems
        BY <1>2, <1>3, <1>8
      <4>2. sz \in Nat /\ sz >= 1 /\ sz + 2 <= MaxNumber + 1
        BY <1>3, <1>9
      <4> HIDE DEF sz
      <4> QED
        BY <4>1, <4>2, RoomForTwo
    <3>2. Packed(sz) \in InUse /\ Plain(Len(f) + 1) \in InUse /\ Plain(Len(f) + 2) \in InUse
      BY <3>1 DEF InUse
    <3>3. {<<m, 0>>, <<sz, 0>>, <<sz + 1, 0>>} \subseteq Ids
      BY <3>1, IdFacts
    <3>4. \A id \in DOMAIN all : id[2] = 0 /\ all[id] \in InUse
      BY <1>6, <3>2
    <3> QED
      BY <1>2, <1>3, <1>5, <1>6, <3>3, <3>4 DEF ItemOK
  <2>3. ASSUME NEW p \in DOMAIN g PROVE ItemOK(g[p])
    <3>1. p \in 1..Len(f) \/ p = Len(f) + 1 \/ p = Len(f) + 2
      BY <1>2, <1>8
    <3>2. \A q \in 1..Len(f) : ItemOK(f[q])
      BY <1>2 DEF Items
    <3> QED
      BY <3>1, <3>2, <1>8, <2>1, <2>2
  <2>4. Len(g) \in 1..MaxItems
    BY <1>2, <1>3, <1>8
  <2> QED
    BY <1>8, <2>3, <2>4 DEF Items
<1>11. /\ DOMAIN EntriesOf(g, Len(g)) = DOMAIN all
       /\ \A id \in DOMAIN all : EntriesOf(g, Len(g))[id] = all[id]
  <2>1. g[Len(g)] = section
    BY <1>8
  <2> QED
    BY <2>1, <1>5, PlainEntries
<1>12. \A n : <<n, 0>> \in DOMAIN all <=> n \in {m, sz, sz + 1}
  BY <1>6
<1>13. \A id \in DOMAIN all : id[1] \in {m, sz, sz + 1}
  BY <1>6
<1>14. /\ EntriesOf(g, Len(g))[<<m, 0>>] = Packed(sz)
       /\ EntriesOf(g, Len(g))[<<sz, 0>>] = Plain(Len(f) + 1)
       /\ EntriesOf(g, Len(g))[<<sz + 1, 0>>] = Plain(Len(f) + 2)
  BY <1>6, <1>11
<1>15. g[Len(g)] = section
  BY <1>8
<1>16. /\ Len(g) = Len(f) + 2 /\ Len(g) # Len(f) + 3
       /\ \A p \in DOMAIN f : g[p] = f[p]
       /\ g[Len(f) + 1].kind = "bundle" /\ g[Len(f) + 1].num = sz
       /\ DOMAIN g[Len(f) + 1].value = {m} /\ g[Len(f) + 1].value[m] = v + 1
       /\ g[Len(f) + 2].kind = "section" /\ g[Len(f) + 2].num = sz + 1
       /\ g[Len(f) + 2].stm = 0
  <2>1. Len(g) = Len(f) + 2 /\ Len(g) # Len(f) + 3
    BY <1>2, <1>8
  <2>2. \A p \in DOMAIN f : g[p] = f[p]
    BY <1>2, <1>8
  <2>3. g[Len(f) + 1] = bundle /\ g[Len(f) + 2] = section
    BY <1>8
  <2> QED
    BY <2>1, <2>2, <2>3, <1>4, <1>5
<1>17. g[Len(g)].kind = "section" /\ g[Len(g)].prev = Len(f) /\ g[Len(g)].size = sz + 2
  BY <1>5, <1>15
<1>18. sz + 2 <= MaxNumber + 1
  BY <1>9
<1> QED
  BY <1>10, <1>11, <1>12, <1>13, <1>14, <1>16, <1>17, <1>18 DEF Packs

\* A sequence of two.
LEMMA TwoAre ==
    ASSUME NEW x, NEW y, NEW t, t = <<x, y>>
    PROVE  t \in Seq(Elements(t)) /\ Len(t) = 2 /\ t[1] = x /\ t[2] = y
<1>1. t = [k \in 1..2 |-> t[k]]
  OBVIOUS
<1>2. t \in Seq(Elements(t))
  BY <1>1, FunctionIsSeq
<1> QED
  BY <1>2

\* The program that writes hybrid files packs the object all the same.
LEMMA HybridLays ==
    ASSUME NEW f, WellFormed(f), NEW m \in Numbers, m < LastSize(f), NEW v \in Int,
           NEW g, g = RevisedBy("hybrid", f, <<m, 0>>, v),
           Len(g) <= MaxItems, LastSize(g) <= MaxNumber + 1
    PROVE  Packs(f, g, m, v + 1) /\ LastSize(f) + 2 <= MaxNumber + 1
<1> DEFINE sz == LastSize(f)
<1> DEFINE bundle == Bundle(sz, [n \in {m} |-> v + 1])
<1> DEFINE own == OrInsert(Located(sz, Len(f) + 1), Located(sz + 1, Len(f) + 2))
<1> DEFINE es == [i \in {<<m, 0>>} |-> Packed(sz)]
<1> DEFINE tops == [i \in {<<m, Top>>} |-> Free]
<1> DEFINE all == OrInsert(tops, own)
<1> DEFINE hidden == Section(sz + 1, es, 0, 0, sz + 2)
<1> DEFINE table == Section(0, all, Len(f), Len(f) + 2, sz + 2)
<1> DEFINE h == Append(f, bundle)
<1>1. g = h \o <<hidden, table>>
  BY FileFacts DEF RevisedBy, PackedAt
<1>2. Items(f) /\ DOMAIN f = 1..Len(f) /\ Len(f) \in Nat \ {0}
  BY FileFacts DEF WellFormed
<1>3. sz \in Nat \ {0} /\ MaxNumber \in Nat /\ MaxItems \in Nat /\ m \in Nat \ {0}
  BY IdFacts DEF WellFormed, Chain
<1>4. /\ bundle.kind = "bundle" /\ bundle.num = sz /\ bundle.gen = 0
      /\ DOMAIN bundle.value = {m} /\ bundle.value[m] = v + 1
  BY DEF Bundle
<1>5. /\ hidden.kind = "section" /\ hidden.num = sz + 1 /\ hidden.gen = 0
      /\ hidden.stm = 0 /\ hidden.prev = 0 /\ hidden.size = sz + 2 /\ hidden.entries = es
      /\ hidden = Section(hidden.num, hidden.entries, hidden.prev, hidden.stm, hidden.size)
  BY DEF Section
<1>6. /\ table.kind = "section" /\ table.num = 0 /\ table.gen = 0
      /\ table.stm = Len(f) + 2 /\ table.prev = Len(f) /\ table.size = sz + 2
      /\ table.entries = all
      /\ table = Section(table.num, table.entries, table.prev, table.stm, table.size)
  BY DEF Section
<1>7. DOMAIN es = {<<m, 0>>} /\ es[<<m, 0>>] = Packed(sz)
  OBVIOUS
<1>8. /\ DOMAIN all = {<<m, Top>>, <<sz, 0>>, <<sz + 1, 0>>} /\ all[<<m, Top>>] = Free
      /\ all[<<sz, 0>>] = Plain(Len(f) + 1) /\ all[<<sz + 1, 0>>] = Plain(Len(f) + 2)
  <2>1. /\ DOMAIN own = {<<sz, 0>>, <<sz + 1, 0>>}
        /\ own[<<sz, 0>>] = Plain(Len(f) + 1) /\ own[<<sz + 1, 0>>] = Plain(Len(f) + 2)
    <3>1. sz # sz + 1
      BY <1>3
    <3> HIDE DEF sz
    <3>2. <<sz, 0>> # <<sz + 1, 0>>
      BY <3>1
    <3> QED
      BY <3>2 DEF OrInsert, Located
  <2>2. DOMAIN tops = {<<m, Top>>} /\ tops[<<m, Top>>] = Free
    OBVIOUS
  <2>3. <<m, Top>> # <<sz, 0>> /\ <<m, Top>> # <<sz + 1, 0>>
    BY DEF Top
  <2> HIDE DEF own, tops, sz
  <2> QED
    BY <2>1, <2>2, <2>3 DEF OrInsert
<1> HIDE DEF bundle, hidden, table, all, own, es, tops
<1>9. /\ h \in Seq(Elements(h)) /\ Len(h) = Len(f) + 1
      /\ \A j \in 1..Len(f) : h[j] = f[j]
      /\ h[Len(f) + 1] = bundle
  <2>1. f \in Seq(Elements(f))
    BY <1>2 DEF Items
  <2>2. h = Append(f, bundle)
    OBVIOUS
  <2> HIDE DEF h
  <2>3. h \in Seq(Elements(h)) /\ Len(h) = Len(f) + 1
    BY <2>1, <2>2, Added
  <2>4. ASSUME NEW j \in 1..Len(f) PROVE h[j] = f[j]
    BY <2>1, <2>2, Added
  <2>5. h[Len(f) + 1] = bundle
    BY <2>1, <2>2, Added
  <2> QED
    BY <2>3, <2>4, <2>5
<1> HIDE DEF h
<1>12. /\ g \in Seq(Elements(g)) /\ Len(g) = Len(f) + 3 /\ DOMAIN g = 1..Len(g)
       /\ \A j \in 1..Len(f) : g[j] = f[j]
       /\ g[Len(f) + 1] = bundle /\ g[Len(f) + 2] = hidden /\ g[Len(g)] = table
  <2> DEFINE t == <<hidden, table>>
  <2>1. t \in Seq(Elements(t)) /\ Len(t) = 2 /\ t[1] = hidden /\ t[2] = table
    BY TwoAre
  <2>2. h \in Seq(Elements(h)) /\ g = h \o t
    BY <1>1, <1>9
  <2> HIDE DEF t
  <2>9. h \in Seq(Elements(h))
    BY <2>2
  <2>10. t \in Seq(Elements(t))
    BY <2>1
  <2>11. g = h \o t
    BY <2>2
  <2>3. g \in Seq(Elements(g)) /\ Len(g) = Len(h) + Len(t)
    BY <2>9, <2>10, <2>11, Joined
  <2>4. DOMAIN g = 1..Len(g)
    BY <2>3, LenProperties
  <2>5. \A j \in 1..Len(h) : g[j] = h[j]
    <3> DEFINE J(s, u, gg) == \A j \in 1..Len(s) : gg[j] = s[j]
    <3>1. \A s, u, gg : s \in Seq(Elements(s)) /\ u \in Seq(Elements(u)) /\ gg = s \o u => J(s, u, gg)
      BY Joined
    <3> HIDE DEF J
    <3>2. J(h, t, g)
      BY <3>1, <2>9, <2>10, <2>11
    <3> QED
      BY <3>2 DEF J
  <2>6. ASSUME NEW j \in 1..Len(t) PROVE g[Len(h) + j] = t[j]
    BY <2>9, <2>10, <2>11, Joined
  <2>7. g[Len(h) + 1] = hidden /\ g[Len(h) + 2] = table
    BY <2>1, <2>6
  <2>8. /\ Len(h) + 2 = Len(f) + 3 /\ Len(h) + 1 = Len(f) + 2 /\ Len(f) + 1 \in 1..Len(h)
        /\ \A j \in 1..Len(f) : j \in 1..Len(h)
    BY <1>2, <1>9
  <2> QED
    BY <1>9, <2>1, <2>3, <2>4, <2>5, <2>7, <2>8
<1>13. LastSize(g) = sz + 2
  <2>1. Len(g) \in Nat \ {0}
    BY <1>2, <1>12
  <2> QED
    BY <2>1, <1>6, <1>12, LastIs
<1>14. Items(g)
  <2>1. ItemOK(bundle)
    BY <1>3, <1>4 DEF ItemOK
  <2>2. Len(f) + 1 \in Offsets /\ Len(f) + 2 \in Offsets /\ sz \in Numbers /\ sz + 1 \in Numbers
    <3>1. Len(f) \in Nat /\ Len(f) + 2 <= MaxItems
      BY <1>2, <1>3, <1>12
    <3>2. sz \in Nat /\ sz >= 1 /\ sz + 2 <= MaxNumber + 1
      BY <1>3, <1>13
    <3> HIDE DEF sz
    <3> QED
      BY <3>1, <3>2, RoomForTwo
  <2>3. Packed(sz) \in InUse /\ Plain(Len(f) + 1) \in InUse /\ Plain(Len(f) + 2) \in InUse
    BY <2>2 DEF InUse
  <2>4. {<<m, 0>>, <<m, Top>>, <<sz, 0>>, <<sz + 1, 0>>} \subseteq Ids
    BY <2>2, IdFacts DEF Ids
  <2>5. ItemOK(hidden)
    BY <1>3, <1>5, <1>7, <2>3, <2>4 DEF ItemOK
  <2>6. ItemOK(table)
    <3>1. \A id \in DOMAIN all : IF id[2] = 0 THEN all[id] \in InUse ELSE all[id] = Free
      BY <1>8, <2>3 DEF Top
    <3> QED
      BY <1>2, <1>3, <1>6, <1>8, <2>4, <3>1 DEF ItemOK
  <2>7. ASSUME NEW p \in DOMAIN g PROVE ItemOK(g[p])
    <3>1. p \in 1..Len(f) \/ p = Len(f) + 1 \/ p = Len(f) + 2 \/ p = Len(g)
      BY <1>2, <1>12
    <3>2. \A q \in 1..Len(f) : ItemOK(f[q])
      BY <1>2 DEF Items
    <3> QED
      BY <3>1, <3>2, <1>12, <2>1, <2>5, <2>6
  <2>8. Len(g) \in 1..MaxItems
    BY <1>2, <1>3, <1>12
  <2> QED
    BY <1>12, <2>7, <2>8 DEF Items
<1> DEFINE E == EntriesOf(g, Len(g))
<1>15. /\ DOMAIN E = {<<m, Top>>, <<sz, 0>>, <<sz + 1, 0>>, <<m, 0>>}
       /\ E[<<m, 0>>] = Packed(sz)
       /\ E[<<sz, 0>>] = Plain(Len(f) + 1) /\ E[<<sz + 1, 0>>] = Plain(Len(f) + 2)
  <2>1. E = OrInsert(all, es)
    <3>1. g[Len(g)].stm # 0 /\ g[g[Len(g)].stm].entries = es /\ g[Len(g)].entries = all
      BY <1>2, <1>5, <1>6, <1>12
    <3> QED
      BY <3>1 DEF EntriesOf
  <2>2. <<m, 0>> \notin DOMAIN all
    BY <1>3, <1>8 DEF Top
  <2> HIDE DEF E
  <2> QED
    BY <1>7, <1>8, <2>1, <2>2 DEF OrInsert
<1>16. \A n : <<n, 0>> \in DOMAIN E <=> n \in {m, sz, sz + 1}
  <2> HIDE DEF E
  <2> QED
    BY <1>15 DEF Top
<1>17. \A id \in DOMAIN E : id[1] \in {m, sz, sz + 1}
  <2> HIDE DEF E
  <2> QED
    BY <1>15
<1>18. /\ Len(g) = Len(f) + 3
       /\ \A p \in DOMAIN f : g[p] = f[p]
       /\ g[Len(f) + 1].kind = "bundle" /\ g[Len(f) + 1].num = sz
       /\ DOMAIN g[Len(f) + 1].value = {m} /\ g[Len(f) + 1].value[m] = v + 1
       /\ g[Len(f) + 2].kind = "section" /\ g[Len(f) + 2].num = sz + 1
       /\ g[Len(f) + 2].stm = 0
  <2>1. \A p \in DOMAIN f : g[p] = f[p]
    BY <1>2, <1>12
  <2>2. g[Len(f) + 1] = bundle /\ g[Len(f) + 2] = hidden /\ Len(g) = Len(f) + 3
    BY <1>12
  <2> QED
    BY <2>1, <2>2, <1>4, <1>5
<1>19. /\ g[Len(g)].kind = "section" /\ g[Len(g)].prev = Len(f) /\ g[Len(g)].size = sz + 2
       /\ g[Len(g)].num = 0 /\ g[Len(g)].stm = Len(f) + 2
  BY <1>6, <1>12
<1>20. sz + 2 <= MaxNumber + 1
  BY <1>13
<1> QED
  BY <1>14, <1>15, <1>16, <1>17, <1>18, <1>19, <1>20 DEF Packs

\* Numbers that are listed are below /Size.
LEMMA ListedBelow ==
    ASSUME NEW f, WellFormed(f), NEW n, Listed(f, n)
    PROVE  n < LastSize(f)
<1>1. PICK w \in DOMAIN f : LastWritten(f, w, n)
  BY NewestExists
<1>2. w \in DOMAIN f /\ (f[w].num = n \/ (f[w].kind = "bundle" /\ n \in DOMAIN f[w].value))
  BY <1>1, WrittenIs DEF LastWritten, WellFormed
<1> QED
  BY <1>2 DEF WellFormed, Numbered

\* What the new meaning is when a table of objects is added.
LEMMA LaysMeans ==
    ASSUME NEW f, NEW g, NEW ids, NEW objs, NEW sz, WellFormed(f), Enumerates(ids, DOMAIN objs),
           Lays(f, g, ids, objs, sz), Suited(f, objs, sz), Len(g) <= MaxItems
    PROVE  /\ WellFormed(g)
           /\ Spoken(f) => /\ Spoken(g)
                           /\ \A id \in Ids : Meaning(g)[id] =
                                 IF id \in DOMAIN objs THEN objs[id] ELSE Meaning(f)[id]
<1>1. /\ Extends(f, g) /\ DOMAIN EntriesOf(g, Len(g)) = DOMAIN objs
      /\ \A n : <<n, 0>> \in DOMAIN objs =>
            \E w : LastWritten(g, w, n) /\ ValueAt(g, w, n) = objs[<<n, 0>>]
  BY LaysExtends
<1>2. WellFormed(g)
  BY <1>1, ExtendsIsWellFormed
<1>3. \A id \in DOMAIN objs : id \in Ids /\ id[2] = 0 /\ id = <<id[1], 0>>
  BY IdFacts DEF Suited
<1>4. ASSUME Spoken(f) PROVE Spoken(g)
  <2>1. \A id \in DOMAIN EntriesOf(g, Len(g)) : Lists(g, Len(g), id[1])
    BY <1>1, <1>3 DEF Lists
  <2> QED
    BY <1>1, <1>4, <2>1, ExtendSpoken
<1>5. ASSUME Spoken(f), NEW id \in Ids
      PROVE  Meaning(g)[id] = IF id \in DOMAIN objs THEN objs[id] ELSE Meaning(f)[id]
  <2>1. CASE id \in DOMAIN objs
    <3>1. id[2] = 0 /\ id = <<id[1], 0>>
      BY <1>3, <2>1
    <3>2. Lists(g, Len(g), id[1])
      BY <1>1, <2>1, <3>1 DEF Lists
    <3>3. PICK w : LastWritten(g, w, id[1]) /\ ValueAt(g, w, id[1]) = objs[id]
      BY <1>1, <2>1, <3>1
    <3> QED
      BY <1>1, <1>4, <1>5, <2>1, <3>1, <3>2, <3>3, ExtendMeaning
  <2>2. CASE id \notin DOMAIN objs /\ id[2] # 0
    BY <1>1, <1>4, <1>5, <2>2, ExtendMeaning, MeaningOf
  <2>3. CASE id \notin DOMAIN objs /\ id[2] = 0
    <3>1. ~Lists(g, Len(g), id[1])
      BY <1>1, <2>3, IdFacts DEF Lists
    <3> QED
      BY <1>1, <1>4, <1>5, <2>3, <3>1, ExtendMeaning
  <2> QED
    BY <2>1, <2>2, <2>3
<1> QED
  BY <1>2, <1>4, <1>5

\* g means what f means but for object i, which has the value x.
Changes(f, g, i, x) == Meaning(g) = [Meaning(f) EXCEPT ![i] = x]

\* Meanings that differ in one object.
LEMMA OneChanged ==
    ASSUME NEW f, NEW g, NEW i \in Ids, NEW x,
           \A id \in Ids : Meaning(g)[id] = IF id = i THEN x ELSE Meaning(f)[id]
    PROVE  Changes(f, g, i, x)
<1>1. Meaning(g) = [id \in Ids |-> Meaning(g)[id]] /\ Meaning(f) = [id \in Ids |-> Meaning(f)[id]]
  BY DEF Meaning
<1> QED
  BY <1>1 DEF Changes

\* And when an object stream is.
LEMMA PacksMeans ==
    ASSUME NEW f, NEW g, WellFormed(f), NEW m \in Numbers, NEW x \in Int, Packs(f, g, m, x),
           m < LastSize(f), LastSize(f) + 2 <= MaxNumber + 1,
           \A q \in DOMAIN f : f[q].num = m => f[q].kind = "object" /\ f[q].value \in Int
    PROVE  /\ WellFormed(g)
           /\ Spoken(f) => Spoken(g) /\ Changes(f, g, <<m, 0>>, x)
<1>1. /\ Extends(f, g)
      /\ \A id \in DOMAIN EntriesOf(g, Len(g)) : Lists(g, Len(g), id[1])
      /\ LastWritten(g, Len(f) + 1, m) /\ ValueAt(g, Len(f) + 1, m) = x
      /\ \A n : Lists(g, Len(g), n) => n = m \/ LastSize(f) <= n
      /\ \A w, n : n # m /\ Lists(g, Len(g), n) /\ LastWritten(g, w, n)
                      => ValueAt(g, w, n) = Nothing
  <2>1. PacksOnly(f, g, m, x)
    BY PacksExtends
  <2> QED
    BY <2>1 DEF PacksOnly
<1>2. WellFormed(g)
  BY <1>1, ExtendsIsWellFormed
<1>3. ASSUME Spoken(f) PROVE Spoken(g)
  BY <1>1, <1>3, ExtendSpoken
<1>4. Lists(g, Len(g), m)
  BY DEF Lists, Packs
<1>5. <<m, 0>> \in Ids
  BY IdFacts
<1>6. ASSUME Spoken(f), NEW id \in Ids
      PROVE  Meaning(g)[id] = IF id = <<m, 0>> THEN x ELSE Meaning(f)[id]
  <2> DEFINE n == id[1]
  <2>1. id = <<n, id[2]>> /\ n \in Nat /\ LastSize(f) \in Nat
    BY IdFacts DEF WellFormed, Chain
  <2>2. CASE id = <<m, 0>>
    <3>1. n = m /\ id[2] = 0
      BY <2>2
    <3> QED
      BY <1>1, <1>3, <1>4, <1>6, <2>2, <3>1, ExtendMeaning
  <2>3. CASE id[2] # 0
    <3>1. id # <<m, 0>>
      BY <2>3
    <3> QED
      BY <1>1, <1>3, <1>6, <2>3, <3>1, ExtendMeaning, MeaningOf
  <2>4. CASE id # <<m, 0>> /\ id[2] = 0 /\ ~Lists(g, Len(g), n)
    BY <1>1, <1>3, <1>6, <2>4, ExtendMeaning
  <2>5. CASE id # <<m, 0>> /\ id[2] = 0 /\ Lists(g, Len(g), n)
    <3>1. n # m
      BY <2>1, <2>5
    <3>2. Len(g) \in Revisions(g)
      BY <1>2, FileFacts
    <3>3. PICK w : LastWritten(g, w, n)
      BY <1>2, <2>5, <3>2, NewestExists DEF Listed
    <3>4. Meaning(g)[id] = Nothing
      BY <1>1, <1>3, <1>6, <2>5, <3>1, <3>3, ExtendMeaning
    <3>5. ~Listed(f, n)
      <4>1. LastSize(f) <= n
        BY <1>1, <2>5, <3>1
      <4>2. Listed(f, n) => n < LastSize(f)
        BY ListedBelow
      <4> QED
        BY <2>1, <4>1, <4>2
    <3> QED
      BY <1>6, <2>5, <3>4, <3>5, MeaningOf
  <2> QED
    BY <2>2, <2>3, <2>4, <2>5
<1>7. ASSUME Spoken(f) PROVE Changes(f, g, <<m, 0>>, x)
  BY <1>5, <1>6, <1>7, OneChanged
<1> QED
  BY <1>2, <1>3, <1>7

\* One object and a table.
LEMMA OneObject ==
    ASSUME NEW f, WellFormed(f), NEW i \in Ids, NEW x, NEW sz,
           NEW ids, NEW objs, Enumerates(ids, DOMAIN objs), DOMAIN objs = {i}, objs[i] = x,
           NEW g, Lays(f, g, ids, objs, sz), Suited(f, objs, sz), Len(g) <= MaxItems
    PROVE  WellFormed(g) /\ (Spoken(f) => Spoken(g) /\ Changes(f, g, i, x))
<1>1. /\ WellFormed(g)
      /\ Spoken(f) => /\ Spoken(g)
                      /\ \A id \in Ids : Meaning(g)[id] =
                            IF id \in DOMAIN objs THEN objs[id] ELSE Meaning(f)[id]
  BY LaysMeans
<1>2. ASSUME Spoken(f) PROVE Changes(f, g, i, x)
  <2>1. \A id \in Ids : Meaning(g)[id] = IF id = i THEN x ELSE Meaning(f)[id]
    BY <1>1, <1>2
  <2> QED
    BY <2>1, OneChanged
<1> QED
  BY <1>1, <1>2

\* A single object, as ids and as objects.
LEMMA Singleton ==
    ASSUME NEW i, NEW x, NEW ids, NEW objs, ids = <<i>>, objs = [j \in {i} |-> x]
    PROVE  Enumerates(ids, DOMAIN objs) /\ DOMAIN objs = {i} /\ objs[i] = x
BY DEF Enumerates

\* The program that changes an object lays out that object.
LEMMA ChangedLays ==
    ASSUME NEW f, WellFormed(f), NEW i, NEW x, NEW sz, NEW g, g = Changed(f, i, x, sz)
    PROVE  Lays(f, g, <<i>>, [j \in {i} |-> x], sz)
<1> DEFINE objs == [j \in {i} |-> x]
<1> DEFINE ids == <<i>>
<1>1. Enumerates(ids, DOMAIN objs)
  BY DEF Enumerates
<1>2. g = Appended(f, ids, objs, sz)
  BY DEF Changed
<1> HIDE DEF objs, ids
<1>3. Lays(f, g, ids, objs, sz)
  BY <1>1, <1>2, AppendedLays
<1> QED
  BY <1>3 DEF objs, ids

\* The table may name itself as the one before.
LEMMA CycleLays ==
    ASSUME NEW f, WellFormed(f), NEW i, NEW x, NEW sz, NEW h,
           Lays(f, h, <<i>>, [j \in {i} |-> x], sz),
           NEW g, g = [h EXCEPT ![Len(h)] = [@ EXCEPT !.prev = Len(h)]]
    PROVE  Lays(f, g, <<i>>, [j \in {i} |-> x], sz)
<1> DEFINE L == Len(h)
<1> DEFINE ids == <<i>>
<1> DEFINE objs == [j \in {i} |-> x]
<1>0. Len(ids) = 1 /\ DOMAIN objs = {i}
  OBVIOUS
<1> HIDE DEF ids, objs
<1>1. Lays(f, h, ids, objs, sz)
  BY DEF ids, objs
<1>2. L = Len(f) + 2 /\ DOMAIN h = 1..L /\ Len(f) \in Nat /\ L \in Nat /\ DOMAIN f = 1..Len(f)
  BY <1>0, <1>1, FileFacts DEF Lays
<1>3. /\ h[L] = Section(0, h[L].entries, h[L].prev, 0, sz)
      /\ h[L].kind = "section" /\ h[L].num = 0 /\ h[L].gen = 0 /\ h[L].stm = 0 /\ h[L].size = sz
      /\ DOMAIN h[L].entries = DOMAIN objs
      /\ \A k \in 1..Len(ids) : h[L].entries[ids[k]] = Plain(Len(f) + k)
  BY <1>1 DEF Lays
<1>4. /\ DOMAIN g = 1..L /\ \A p \in 1..L : p # L => g[p] = h[p]
      /\ g[L] = [h[L] EXCEPT !.prev = L]
  BY <1>2
<1>5. g[L] = Section(0, h[L].entries, L, 0, sz)
  BY <1>3, <1>4 DEF Section
<1> HIDE DEF L
<1>6. /\ g[L].kind = "section" /\ g[L].num = 0 /\ g[L].gen = 0 /\ g[L].stm = 0
      /\ g[L].size = sz /\ g[L].prev = L /\ g[L].entries = h[L].entries
  BY <1>5 DEF Section
<1>7. g \in Seq(Elements(g)) /\ Len(g) = L
  <2>1. g = [p \in 1..L |-> g[p]]
    BY <1>2, <1>4 DEF L
  <2> DEFINE Tabled(t, n) == t = [p \in 1..n |-> t[p]]
  <2>2. \A t, n : n \in Nat /\ Tabled(t, n) => t \in Seq(Elements(t)) /\ Len(t) = n
    BY FunctionIsSeq
  <2>3. Tabled(g, L)
    BY <2>1
  <2> HIDE DEF Tabled
  <2> QED
    BY <1>2, <2>2, <2>3
<1>8. \A p \in DOMAIN f : g[p] = f[p]
  <2>1. \A p \in DOMAIN f : h[p] = f[p]
    BY <1>1 DEF Lays
  <2> QED
    BY <1>2, <1>4, <2>1
<1>9. \A k \in 1..Len(ids) : g[Len(f) + k] = Object(ids[k][1], ids[k][2], objs[ids[k]])
  <2>1. \A k \in 1..Len(ids) : h[Len(f) + k] = Object(ids[k][1], ids[k][2], objs[ids[k]])
    BY <1>1 DEF Lays
  <2>2. \A k \in 1..Len(ids) : Len(f) + k \in 1..L /\ Len(f) + k # L
    BY <1>0, <1>2
  <2> QED
    BY <1>4, <2>1, <2>2
<1>10. Len(g) = Len(f) + Len(ids) + 1 /\ DOMAIN g = 1..Len(g)
  BY <1>0, <1>2, <1>4, <1>7
<1>11. Lays(f, g, ids, objs, sz)
  <2>1. /\ g[L] = Section(0, g[L].entries, g[L].prev, 0, sz) /\ g[L].prev = L
        /\ DOMAIN g[L].entries = DOMAIN objs
        /\ \A k \in 1..Len(ids) : g[L].entries[ids[k]] = Plain(Len(f) + k)
    BY <1>3, <1>5, <1>6
  <2>2. /\ g[Len(g)].kind = "section" /\ g[Len(g)].num = 0 /\ g[Len(g)].gen = 0
        /\ g[Len(g)].stm = 0 /\ g[Len(g)].size = sz /\ g[Len(g)].prev \in {Len(f), Len(g)}
    BY <1>6, <1>7
  <2>3. /\ g[Len(g)] = Section(0, g[Len(g)].entries, g[Len(g)].prev, 0, sz)
        /\ DOMAIN g[Len(g)].entries = DOMAIN objs
        /\ \A k \in 1..Len(ids) : g[Len(g)].entries[ids[k]] = Plain(Len(f) + k)
    BY <1>7, <2>1
  <2> QED
    BY <1>7, <1>8, <1>9, <1>10, <2>2, <2>3 DEF Lays
<1> QED
  BY <1>11 DEF ids, objs

\* A version of an object suits it.
LEMMA VersionSuits ==
    ASSUME NEW f, WellFormed(f), NEW i \in Ids, Meaning(f)[i] \in Int, NEW x \in Int
    PROVE  Suited(f, [j \in {i} |-> x], LastSize(f)) /\ i[2] = 0
<1>1. /\ i[2] = 0 /\ i[1] < LastSize(f)
      /\ \A q \in DOMAIN f : f[q].num = i[1] => f[q].kind = "object" /\ f[q].value \in Int
  BY HasVersions
<1>2. LastSize(f) \in LastSize(f)..(MaxNumber + 1)
  BY IdFacts DEF WellFormed, Chain
<1>3. Stream \notin Int
  BY RevisionAssumption
<1> QED
  BY <1>1, <1>2, <1>3 DEF Suited

\* The number in /Size is free for a new object.
LEMMA NewSuits ==
    ASSUME NEW f, WellFormed(f), LastSize(f) + 1 <= MaxNumber + 1,
           NEW objs, DOMAIN objs = {<<LastSize(f), 0>>}, objs[<<LastSize(f), 0>>] \in Int
    PROVE  /\ Suited(f, objs, LastSize(f) + 1)
           /\ <<LastSize(f), 0>> \in Ids /\ ~Listed(f, LastSize(f))
<1>1. LastSize(f) \in Nat /\ LastSize(f) >= 1
  BY IdFacts DEF WellFormed, Chain
<1>2. <<LastSize(f), 0>> \in Ids
  BY <1>1, IdFacts
<1>3. LastSize(f) + 1 \in LastSize(f)..(MaxNumber + 1)
  BY <1>1, IdFacts
<1>4. \A q \in DOMAIN f : /\ f[q].num # LastSize(f)
                          /\ f[q].kind = "bundle" => LastSize(f) \notin DOMAIN f[q].value
  BY <1>1 DEF WellFormed, Numbered
<1>5. ~Listed(f, LastSize(f))
  BY <1>1, ListedBelow
<1> QED
  BY <1>1, <1>2, <1>3, <1>4, <1>5 DEF Suited

\* A free entry with the next generation changes no number's place.
LEMMA FreedIsWell ==
    ASSUME NEW f, WellFormed(f), NEW m \in Numbers,
           NEW es, DOMAIN es = {<<m, 1>>}, es[<<m, 1>>] = Free,
           NEW g, g \in Seq(Elements(g)), Len(g) = Len(f) + 1, DOMAIN g = 1..(Len(f) + 1),
           \A p \in 1..Len(f) : g[p] = f[p],
           g[Len(f) + 1] = Section(0, es, Len(f), 0, LastSize(f)), Len(g) <= MaxItems
    PROVE  WellFormed(g)
<1> DEFINE sz == LastSize(f)
<1> DEFINE section == g[Len(f) + 1]
<1>2. Items(f) /\ DOMAIN f = 1..Len(f) /\ Len(f) \in Nat \ {0} /\ f \in Seq(Elements(f))
  BY FileFacts DEF WellFormed, Items
<1>3. sz \in Nat /\ sz >= 1 /\ sz \in LastSize(f)..(MaxNumber + 1) /\ MaxItems \in Nat
  BY IdFacts DEF WellFormed, Chain
<1>4. /\ section.kind = "section" /\ section.num = 0 /\ section.gen = 0
      /\ section.stm = 0 /\ section.prev = Len(f) /\ section.size = sz /\ section.entries = es
      /\ section = Section(section.num, section.entries, section.prev, section.stm, section.size)
  BY DEF Section
<1>5. DOMAIN es = {<<m, 1>>} /\ es[<<m, 1>>] = Free /\ <<m, 1>> \in Ids
  BY DEF Ids
<1>6. g \in Seq(Elements(g)) /\ Len(g) = Len(f) + 1 /\ g[Len(f) + 1] = section
  OBVIOUS
<1>7. DOMAIN g = 1..(Len(f) + 1) /\ \A p \in 1..Len(f) : g[p] = f[p]
  OBVIOUS
<1> HIDE DEF section
<1>8. ItemOK(section)
  <2>1. \A id \in DOMAIN section.entries : id[2] = 1 /\ section.entries[id] = Free
    BY <1>4, <1>5
  <2>2. DOMAIN section.entries \subseteq Ids
    BY <1>4, <1>5
  <2>3. section.prev \in Nat /\ section.stm \in Nat /\ section.size \in Nat
    BY <1>2, <1>3, <1>4
  <2>4. section.num \in Nat /\ section.gen = 0 /\ section.kind = "section"
    BY <1>4
  <2>5. section = Section(section.num, section.entries, section.prev, section.stm, section.size)
    BY <1>4
  <2> HIDE DEF sz
  <2> QED
    BY <2>1, <2>2, <2>3, <2>4, <2>5 DEF ItemOK
<1>9. Items(g)
  <2>1. ASSUME NEW p \in DOMAIN g PROVE ItemOK(g[p])
    <3>1. p \in 1..Len(f) \/ p = Len(f) + 1
      BY <1>2, <1>7
    <3> QED
      BY <3>1, <1>2, <1>6, <1>7, <1>8 DEF Items
  <2> QED
    BY <1>2, <1>3, <1>6, <2>1 DEF Items
<1>10. \A n : ~Lists(g, Len(g), n)
  <2>1. DOMAIN EntriesOf(g, Len(g)) = {<<m, 1>>}
    BY <1>4, <1>5, <1>6, PlainEntries
  <2> QED
    BY <2>1 DEF Lists
<1>11. Unique(g)
  <2>1. ASSUME NEW p \in DOMAIN g, NEW q \in DOMAIN g
        PROVE  /\ g[p].num = g[q].num /\ g[p].num # 0 =>
                    /\ g[p].kind = g[q].kind
                    /\ g[p].kind = "object" => (g[p].value = Stream <=> g[q].value = Stream)
                    /\ g[p].kind # "object" => p = q
               /\ g[p].kind = "bundle" /\ g[q].num \in DOMAIN g[p].value =>
                    g[q].kind = "object" /\ g[q].value \in Int
    <3>1. (p \in 1..Len(f) \/ p = Len(f) + 1) /\ (q \in 1..Len(f) \/ q = Len(f) + 1)
      BY <1>2, <1>7
    <3>2. \A r \in 1..Len(f) : f[r].kind = "bundle" => 0 \notin DOMAIN f[r].value
      BY <1>2 DEF Items, ItemOK
    <3>3. CASE p \in 1..Len(f) /\ q \in 1..Len(f)
      BY <3>3, <1>2, <1>7 DEF WellFormed, Unique
    <3>4. CASE p = Len(f) + 1
      BY <3>4, <1>4, <1>6
    <3>5. CASE p \in 1..Len(f) /\ q = Len(f) + 1
      BY <3>2, <3>5, <1>4, <1>6, <1>7
    <3> QED
      BY <3>1, <3>3, <3>4, <3>5
  <2> QED
    BY <2>1 DEF Unique
<1>12. Extends(f, g)
  <2>1. g[Len(g)] = section /\ Len(f) < Len(g) /\ \A p \in DOMAIN f : g[p] = f[p]
    BY <1>2, <1>6, <1>7
  <2>2. \A p \in (Len(f) + 1)..Len(g) : g[p] = section
    BY <1>2, <1>6
  <2>3. (Len(f) + 1)..(Len(g) - 1) = {}
    BY <1>2, <1>6
  <2>4. section.num < section.size /\ section.kind # "bundle" /\ section.num = 0
    BY <1>3, <1>4
  <2>5. section.prev \in {Len(f), Len(g)} /\ section.size \in LastSize(f)..(MaxNumber + 1)
    BY <1>3, <1>4
  <2> HIDE DEF sz
  <2> QED
    BY <1>4, <1>9, <1>10, <1>11, <2>1, <2>2, <2>3, <2>4, <2>5 DEF Extends
<1> QED
  BY <1>12, ExtendsIsWellFormed

\* g is f with every place in its tables gone.
Damaged(f, g) ==
    /\ g \in Seq(Elements(g)) /\ Len(g) = Len(f) /\ DOMAIN g = DOMAIN f
    /\ \A p \in DOMAIN f :
          IF f[p].kind # "section" THEN g[p] = f[p]
          ELSE /\ g[p] = Section(0, g[p].entries, f[p].prev, 0, f[p].size)
               /\ DOMAIN g[p].entries = DOMAIN f[p].entries
               /\ \A id \in DOMAIN f[p].entries :
                     g[p].entries[id] = IF f[p].entries[id].type = "plain" THEN Plain(0)
                                        ELSE f[p].entries[id]

\* Damage moves offsets of tables and nothing else.
LEMMA DamageIs ==
    ASSUME NEW f, WellFormed(f), OnlyTables(f), NEW i, NEW v,
           NEW g, g = RevisedBy("damage", f, i, v)
    PROVE  Damaged(f, g)
<1>1. DOMAIN f = 1..Len(f) /\ Len(f) \in Nat /\ \A p \in DOMAIN f : ItemOK(f[p])
  BY FileFacts DEF WellFormed, Items
<1>2. g = [p \in DOMAIN f |->
             IF f[p].kind # "section" THEN f[p]
             ELSE [f[p] EXCEPT !.entries =
                     [j \in DOMAIN @ |-> IF @[j].type = "plain" THEN Plain(0) ELSE @[j]]]]
  BY DEF RevisedBy
<1>3. DOMAIN g = DOMAIN f
  BY <1>2
<1>4. g \in Seq(Elements(g)) /\ Len(g) = Len(f)
  <2>1. g = [p \in 1..Len(f) |-> g[p]]
    BY <1>1, <1>2
  <2> QED
    BY <1>1, <2>1, FunctionIsSeq
<1>5. ASSUME NEW p \in DOMAIN f, f[p].kind # "section" PROVE g[p] = f[p]
  BY <1>2, <1>5
<1>6. ASSUME NEW p \in DOMAIN f, f[p].kind = "section"
      PROVE  /\ g[p] = Section(0, g[p].entries, f[p].prev, 0, f[p].size)
             /\ DOMAIN g[p].entries = DOMAIN f[p].entries
             /\ \A id \in DOMAIN f[p].entries :
                   g[p].entries[id] = IF f[p].entries[id].type = "plain" THEN Plain(0)
                                      ELSE f[p].entries[id]
  <2> DEFINE es == [j \in DOMAIN f[p].entries |->
                      IF f[p].entries[j].type = "plain" THEN Plain(0) ELSE f[p].entries[j]]
  <2>1. g[p] = [f[p] EXCEPT !.entries = es]
    BY <1>2, <1>6
  <2>2. f[p] = Section(0, f[p].entries, f[p].prev, 0, f[p].size)
    BY <1>1, <1>6 DEF ItemOK, OnlyTables
  <2>3. /\ DOMAIN es = DOMAIN f[p].entries
        /\ \A id \in DOMAIN f[p].entries :
              es[id] = IF f[p].entries[id].type = "plain" THEN Plain(0) ELSE f[p].entries[id]
    OBVIOUS
  <2> HIDE DEF es
  <2>4. g[p] = Section(0, es, f[p].prev, 0, f[p].size)
    BY <2>1, <2>2 DEF Section
  <2>5. g[p].entries = es
    BY <2>4 DEF Section
  <2> QED
    BY <2>3, <2>4, <2>5
<1> QED
  BY <1>3, <1>4, <1>5, <1>6 DEF Damaged

\* It is as well formed as before, and means the same.
LEMMA DamagedIsWell ==
    ASSUME NEW f, NEW g, WellFormed(f), OnlyTables(f), Damaged(f, g)
    PROVE  WellFormed(g) /\ (Spoken(f) => Spoken(g) /\ Meaning(g) = Meaning(f))
<1>1. /\ DOMAIN f = 1..Len(f) /\ Len(f) \in Nat \ {0} /\ Len(f) <= MaxItems
      /\ \A p \in DOMAIN f : ItemOK(f[p])
      /\ g \in Seq(Elements(g)) /\ Len(g) = Len(f) /\ DOMAIN g = DOMAIN f
  BY FileFacts DEF WellFormed, Items, Damaged
<1>2. ASSUME NEW p \in DOMAIN f, f[p].kind = "section"
      PROVE  /\ g[p] = Section(g[p].num, g[p].entries, g[p].prev, g[p].stm, g[p].size)
             /\ g[p].kind = "section" /\ g[p].num = 0 /\ f[p].num = 0 /\ g[p].gen = 0
             /\ g[p].prev = f[p].prev /\ g[p].stm = 0 /\ f[p].stm = 0
             /\ g[p].size = f[p].size
             /\ DOMAIN g[p].entries = DOMAIN f[p].entries
             /\ \A id \in DOMAIN f[p].entries :
                   g[p].entries[id] = IF f[p].entries[id].type = "plain" THEN Plain(0)
                                      ELSE f[p].entries[id]
  <2>1. /\ g[p] = Section(0, g[p].entries, f[p].prev, 0, f[p].size)
        /\ DOMAIN g[p].entries = DOMAIN f[p].entries
        /\ \A id \in DOMAIN f[p].entries :
              g[p].entries[id] = IF f[p].entries[id].type = "plain" THEN Plain(0)
                                 ELSE f[p].entries[id]
    BY <1>2 DEF Damaged
  <2>2. f[p].num = 0 /\ f[p].stm = 0
    BY <1>2 DEF OnlyTables
  <2>3. g[p].kind = "section" /\ g[p].num = 0 /\ g[p].gen = 0 /\ g[p].stm = 0
        /\ g[p].prev = f[p].prev /\ g[p].size = f[p].size
    BY <2>1 DEF Section
  <2> QED
    BY <2>1, <2>2, <2>3
<1>3. \A p \in DOMAIN f : f[p].kind # "section" => g[p] = f[p]
  BY DEF Damaged
<1>4. \A p \in DOMAIN f : g[p].kind = f[p].kind /\ g[p].num = f[p].num
  BY <1>2, <1>3
<1>5. Sections(g) = Sections(f)
  BY <1>1, <1>4 DEF Sections
<1>6. \A p \in Sections(f) : p \in DOMAIN f /\ f[p].kind = "section"
  BY DEF Sections
<1>7. Revisions(g) = Revisions(f) /\ Revisions(f) \subseteq Sections(f)
  BY <1>2, <1>5, <1>6 DEF Revisions
<1>8. LastSize(g) = LastSize(f)
  BY <1>2, <1>5, <1>6, FileFacts DEF LastSize, StartXref
<1>9. ASSUME NEW p \in Sections(f)
      PROVE  /\ DOMAIN EntriesOf(g, p) = DOMAIN EntriesOf(f, p)
             /\ \A id \in DOMAIN EntriesOf(f, p) : EntriesOf(g, p)[id] =
                   IF EntriesOf(f, p)[id].type = "plain" THEN Plain(0) ELSE EntriesOf(f, p)[id]
  <2>1. g[p].stm = 0 /\ f[p].stm = 0
    BY <1>2, <1>6
  <2>2. /\ DOMAIN EntriesOf(g, p) = DOMAIN g[p].entries
        /\ \A id \in DOMAIN g[p].entries : EntriesOf(g, p)[id] = g[p].entries[id]
    BY <2>1, PlainEntries
  <2>3. /\ DOMAIN EntriesOf(f, p) = DOMAIN f[p].entries
        /\ \A id \in DOMAIN f[p].entries : EntriesOf(f, p)[id] = f[p].entries[id]
    BY <2>1, PlainEntries
  <2> QED
    BY <1>2, <1>6, <2>2, <2>3
<1>10. \A p \in Revisions(f) : \A n : Lists(g, p, n) <=> Lists(f, p, n)
  BY <1>7, <1>9 DEF Lists
<1>11. \A n : Listed(g, n) <=> Listed(f, n)
  BY <1>7, <1>10 DEF Listed
<1>12. Items(g)
  <2>1. ASSUME NEW p \in DOMAIN g PROVE ItemOK(g[p])
    <3>1. CASE f[p].kind # "section"
      BY <3>1, <1>1, <1>3
    <3>2. CASE f[p].kind = "section"
      <4>1. /\ DOMAIN f[p].entries \subseteq Ids
            /\ \A id \in DOMAIN f[p].entries :
                  IF id[2] = 0 THEN f[p].entries[id] \in InUse ELSE f[p].entries[id] = Free
            /\ f[p].prev \in Nat /\ f[p].size \in Nat
        BY <1>1, <3>2 DEF ItemOK
      <4>2. Plain(0) \in InUse
        BY IdFacts DEF InUse, Offsets
      <4>3. Free.type # "plain"
        BY DEF Free
      <4>4. ASSUME NEW id \in DOMAIN g[p].entries
            PROVE  IF id[2] = 0 THEN g[p].entries[id] \in InUse ELSE g[p].entries[id] = Free
        BY <1>1, <1>2, <3>2, <4>1, <4>2, <4>3
      <4> QED
        BY <1>1, <1>2, <3>2, <4>1, <4>4 DEF ItemOK
    <3> QED
      BY <3>1, <3>2
  <2> QED
    BY <1>1, <2>1, IdFacts DEF Items
<1>13. Chain(g)
  <2>1. \A p \in Sections(g) : g[p].stm = 0
    BY <1>2, <1>5, <1>6
  <2>2. \A p \in Revisions(f) : g[p].prev = f[p].prev
    BY <1>2, <1>6, <1>7
  <2> QED
    BY <1>1, <1>5, <1>7, <1>8, <2>1, <2>2 DEF WellFormed, Chain
<1>14. Numbered(g)
  BY <1>1, <1>2, <1>3, <1>4, <1>8, <1>11 DEF WellFormed, Numbered
<1>15. Unique(g)
  <2>1. ASSUME NEW p \in DOMAIN f, NEW q \in DOMAIN f
        PROVE  /\ g[p].num = g[q].num /\ g[p].num # 0 =>
                    /\ g[p].kind = g[q].kind
                    /\ g[p].kind = "object" => (g[p].value = Stream <=> g[q].value = Stream)
                    /\ g[p].kind # "object" => p = q
               /\ g[p].kind = "bundle" /\ g[q].num \in DOMAIN g[p].value =>
                    g[q].kind = "object" /\ g[q].value \in Int
    <3>1. /\ f[p].num = f[q].num /\ f[p].num # 0 =>
                    /\ f[p].kind = f[q].kind
                    /\ f[p].kind = "object" => (f[p].value = Stream <=> f[q].value = Stream)
                    /\ f[p].kind # "object" => p = q
          /\ f[p].kind = "bundle" /\ f[q].num \in DOMAIN f[p].value =>
                    f[q].kind = "object" /\ f[q].value \in Int
      BY DEF WellFormed, Unique
    <3>2. f[p].kind # "section" => g[p] = f[p]
      BY <1>3
    <3>3. f[q].kind # "section" => g[q] = f[q]
      BY <1>3
    <3>4. g[p].kind = f[p].kind /\ g[p].num = f[p].num /\ g[q].kind = f[q].kind /\ g[q].num = f[q].num
      BY <1>4
    <3>5. f[p].kind = "section" => f[p].num = 0
      BY <1>2
    <3>6. CASE f[p].kind = "section"
      BY <3>4, <3>5, <3>6
    <3>7. CASE f[p].kind # "section" /\ f[q].kind = "section"
      BY <3>1, <3>2, <3>4, <3>7
    <3>8. CASE f[p].kind # "section" /\ f[q].kind # "section"
      BY <3>1, <3>2, <3>3, <3>8
    <3> QED
      BY <3>6, <3>7, <3>8
  <2> QED
    BY <1>1, <2>1 DEF Unique
<1>16. \A n, w : w \in Written(g, <<n, 0>>) <=> w \in Written(f, <<n, 0>>)
  <2>1. ASSUME NEW n, NEW w PROVE w \in Written(g, <<n, 0>>) <=> w \in Written(f, <<n, 0>>)
    <3>1. w \in Written(f, <<n, 0>>) <=>
             w \in DOMAIN f /\ (f[w].num = n \/ (f[w].kind = "bundle" /\ n \in DOMAIN f[w].value))
      BY WrittenIs DEF WellFormed
    <3>2. w \in Written(g, <<n, 0>>) <=>
             w \in DOMAIN g /\ (g[w].num = n \/ (g[w].kind = "bundle" /\ n \in DOMAIN g[w].value))
      BY <1>12, WrittenIs
    <3> QED
      BY <1>1, <1>3, <1>4, <3>1, <3>2
  <2> QED
    BY <2>1
<1>17. \A n, w : LastWritten(g, w, n) <=> LastWritten(f, w, n)
  BY <1>16 DEF LastWritten
<1>18. Placed(g)
  <2>1. ASSUME NEW p \in Revisions(g), NEW n \in Numbers, Newest(g, p, n)
        PROVE  \E w \in DOMAIN g :
                  LastWritten(g, w, n) /\ Leads(g, EntriesOf(g, p)[<<n, 0>>], w, n)
    <3>1. Newest(f, p, n)
      BY <2>1, <1>7, <1>10 DEF Newest
    <3>2. PICK w \in DOMAIN f :
             LastWritten(f, w, n) /\ Leads(f, EntriesOf(f, p)[<<n, 0>>], w, n)
      BY <3>1, <1>7 DEF WellFormed, Placed
    <3>3. EntriesOf(g, p)[<<n, 0>>] =
             IF EntriesOf(f, p)[<<n, 0>>].type = "plain" THEN Plain(0)
             ELSE EntriesOf(f, p)[<<n, 0>>]
      BY <1>7, <1>9, <3>1 DEF Newest, Lists
    <3>4. Leads(g, EntriesOf(g, p)[<<n, 0>>], w, n)
      BY <1>4, <3>2, <3>3 DEF Leads, Plain, Packed
    <3> QED
      BY <1>1, <1>17, <3>2, <3>4
  <2> QED
    BY <2>1 DEF Placed
<1>22. Peopled(g)
  BY <1>1, <1>4 DEF WellFormed, Peopled
<1>19. WellFormed(g)
  BY <1>12, <1>13, <1>14, <1>15, <1>18, <1>22 DEF WellFormed
<1>20. ASSUME Spoken(f) PROVE Spoken(g)
  BY <1>7, <1>9, <1>10, <1>20 DEF Spoken
<1>21. ASSUME Spoken(f) PROVE Meaning(g) = Meaning(f)
  <2>1. ASSUME NEW id \in Ids PROVE Meaning(g)[id] = Meaning(f)[id]
    <3>1. CASE id[2] # 0 \/ ~Listed(f, id[1])
      BY <1>11, <1>19, <1>20, <1>21, <3>1, MeaningOf
    <3>2. CASE id[2] = 0 /\ Listed(f, id[1])
      <4>1. PICK w \in DOMAIN f : LastWritten(f, w, id[1])
        BY <3>2, NewestExists
      <4>2. Meaning(f)[id] = ValueAt(f, w, id[1])
        BY <1>21, <3>2, <4>1, MeaningOf
      <4>3. Meaning(g)[id] = ValueAt(g, w, id[1])
        BY <1>11, <1>17, <1>19, <1>20, <1>21, <3>2, <4>1, MeaningOf
      <4>4. ValueAt(g, w, id[1]) = ValueAt(f, w, id[1])
        BY <1>3, <1>4 DEF ValueAt
      <4> QED
        BY <4>2, <4>3, <4>4
    <3> QED
      BY <3>1, <3>2
  <2>2. Meaning(g) = [id \in Ids |-> Meaning(g)[id]] /\ Meaning(f) = [id \in Ids |-> Meaning(f)[id]]
    BY DEF Meaning
  <2> QED
    BY <2>1, <2>2
<1> QED
  BY <1>19, <1>20, <1>21

\* What other programs do to a file's meaning.
Revised(d, e) ==
    \/ e = d
    \/ \E id \in Ids : \/ d[id] \in Int /\ e = [d EXCEPT ![id] = @ + 1]
                       \/ d[id] = Nothing /\ e = [d EXCEPT ![id] = 0]

\* Whatever other programs write, the file stays well formed, and one
\* object changes at most, unless objects are freed.
LEMMA RevisedIsWell ==
    ASSUME NEW f, WellFormed(f), NEW w \in Writers, NEW i \in Ids, i[2] = 0,
           NEW v, v = Meaning(f)[i], v \in Int, w = "damage" => OnlyTables(f),
           NEW g, g = RevisedBy(w, f, i, v), Len(g) <= MaxItems, LastSize(g) <= MaxNumber + 1
    PROVE  /\ WellFormed(g)
           /\ Spoken(f) /\ w # "free" => Spoken(g) /\ Revised(Meaning(f), Meaning(g))
<1> DEFINE sz == LastSize(f)
<1> DEFINE m == i[1]
<1>1. w \in {"change", "add", "pack", "hybrid", "cycle", "damage", "free"}
  BY RevisionAssumption
<1>2. /\ m < sz /\ m \in Numbers /\ i = <<m, 0>> /\ v + 1 \in Int
      /\ \A q \in DOMAIN f : f[q].num = m => f[q].kind = "object" /\ f[q].value \in Int
  BY HasVersions, IdFacts
<1>3. ASSUME Changes(f, g, i, v + 1) PROVE Revised(Meaning(f), Meaning(g))
  BY <1>3 DEF Changes, Revised
<1>4. Suited(f, [j \in {i} |-> v + 1], sz)
  BY <1>2, VersionSuits
<1>5. CASE w = "change" \/ w = "cycle"
  <2> DEFINE h == Changed(f, i, v + 1, sz)
  <2> DEFINE ids == <<i>>
  <2> DEFINE objs == [j \in {i} |-> v + 1]
  <2>1. Lays(f, h, ids, objs, sz)
    BY ChangedLays
  <2>2. Lays(f, g, ids, objs, sz)
    <3>1. CASE w = "change"
      <4>1. g = h
        BY <3>1 DEF RevisedBy
      <4> QED
        BY <2>1, <4>1
    <3>2. CASE w = "cycle"
      <4>1. g = [h EXCEPT ![Len(h)] = [@ EXCEPT !.prev = Len(h)]]
        BY <3>2 DEF RevisedBy
      <4> DEFINE Looped(t, u) == t = [u EXCEPT ![Len(u)] = [@ EXCEPT !.prev = Len(u)]]
      <4>2. ASSUME NEW t, NEW u, Looped(t, u), Lays(f, u, <<i>>, [j \in {i} |-> v + 1], sz)
            PROVE  Lays(f, t, <<i>>, [j \in {i} |-> v + 1], sz)
        BY <4>2, CycleLays
      <4>3. Looped(g, h)
        BY <4>1
      <4> HIDE DEF h, Looped, ids, objs
      <4>4. Lays(f, h, <<i>>, [j \in {i} |-> v + 1], sz)
        BY <2>1 DEF ids, objs
      <4>5. Lays(f, g, <<i>>, [j \in {i} |-> v + 1], sz)
        BY <4>2, <4>3, <4>4
      <4> QED
        BY <4>5 DEF ids, objs
    <3> QED
      BY <1>5, <3>1, <3>2
  <2>3. Enumerates(ids, DOMAIN objs) /\ DOMAIN objs = {i} /\ objs[i] = v + 1
    BY Singleton
  <2>4. Suited(f, objs, sz)
    BY <1>4
  <2> HIDE DEF ids, objs
  <2>5. WellFormed(g) /\ (Spoken(f) => Spoken(g) /\ Changes(f, g, i, v + 1))
    BY <2>2, <2>3, <2>4, OneObject
  <2> QED
    BY <1>3, <2>5
<1>6. CASE w = "add"
  <2> DEFINE a == <<sz, 0>>
  <2> DEFINE ids == <<a>>
  <2> DEFINE objs == [j \in {a} |-> 0]
  <2>1. g = Changed(f, a, 0, sz + 1)
    BY <1>6 DEF RevisedBy
  <2>2. Lays(f, g, ids, objs, sz + 1)
    BY <2>1, ChangedLays
  <2>3. sz + 1 <= MaxNumber + 1
    <3>1. g[Len(g)].kind = "section" /\ g[Len(g)].size = sz + 1 /\ DOMAIN g = 1..Len(g)
          /\ Len(g) \in Nat \ {0}
      <4>1. Len(ids) = 1 /\ Len(f) \in Nat
        BY FileFacts
      <4> HIDE DEF ids, objs
      <4> QED
        BY <2>2, <4>1 DEF Lays
    <3> QED
      BY <3>1, LastIs
  <2>5. Enumerates(ids, DOMAIN objs) /\ DOMAIN objs = {a} /\ objs[a] = 0
    BY Singleton
  <2>9. Suited(f, objs, sz + 1) /\ a \in Ids /\ ~Listed(f, sz)
    <3>1. DOMAIN objs = {<<LastSize(f), 0>>} /\ objs[<<LastSize(f), 0>>] \in Int
      BY <2>5
    <3>2. LastSize(f) + 1 <= MaxNumber + 1
      BY <2>3
    <3> HIDE DEF objs
    <3>3. Suited(f, objs, LastSize(f) + 1)
      BY <3>1, <3>2, NewSuits
    <3>4. <<LastSize(f), 0>> \in Ids /\ ~Listed(f, LastSize(f))
      BY <3>1, <3>2, NewSuits
    <3> QED
      BY <3>3, <3>4
  <2> HIDE DEF ids, objs
  <2>6. WellFormed(g) /\ (Spoken(f) => Spoken(g) /\ Changes(f, g, a, 0))
    BY <2>2, <2>9, <2>5, OneObject
  <2>7. Spoken(f) => Meaning(f)[a] = Nothing
    BY <2>9, MeaningOf
  <2> HIDE DEF a
  <2> QED
    BY <2>9, <2>6, <2>7 DEF Changes, Revised
<1>7. CASE w = "pack" \/ w = "hybrid"
  <2>1. Packs(f, g, m, v + 1) /\ sz + 2 <= MaxNumber + 1
    BY <1>2, <1>7, PackLays, HybridLays
  <2>2. WellFormed(g) /\ (Spoken(f) => Spoken(g) /\ Changes(f, g, <<m, 0>>, v + 1))
    BY <1>2, <2>1, PacksMeans
  <2> QED
    BY <1>2, <1>3, <2>2
<1>8. CASE w = "damage"
  <2>1. Damaged(f, g)
    BY <1>8, DamageIs
  <2> QED
    BY <1>8, <2>1, DamagedIsWell DEF Revised
<1>9. CASE w = "free"
  <2> DEFINE es == [j \in {<<m, 1>>} |-> Free]
  <2> DEFINE s == Section(0, es, Len(f), 0, sz)
  <2>1. g = Append(f, s)
    BY <1>2, <1>9, FileFacts DEF RevisedBy
  <2>2. f \in Seq(Elements(f))
    BY DEF WellFormed, Items
  <2>3. DOMAIN es = {<<m, 1>>} /\ es[<<m, 1>>] = Free
    OBVIOUS
  <2> HIDE DEF es
  <2>4. s = Section(0, es, Len(f), 0, LastSize(f))
    OBVIOUS
  <2> HIDE DEF s
  <2>5. g \in Seq(Elements(g)) /\ Len(g) = Len(f) + 1
    BY <2>1, <2>2, Added
  <2>6. DOMAIN g = 1..(Len(f) + 1) /\ g[Len(f) + 1] = s
    BY <2>1, <2>2, Added
  <2>7. ASSUME NEW p \in 1..Len(f) PROVE g[p] = f[p]
    BY <2>1, <2>2, Added
  <2>8. WellFormed(g)
    BY <1>2, <2>3, <2>4, <2>5, <2>6, <2>7, FreedIsWell
  <2> QED
    BY <1>9, <2>8
<1> QED
  BY <1>1, <1>5, <1>6, <1>7, <1>8, <1>9

-----------------------------------------------------------------------------
(***************************************************************************)
(* The order of objects in a saved file.                                   *)
(***************************************************************************)

\* There are finitely many identifiers.
LEMMA IdsAreFinite == IsFiniteSet(Ids)
<1> DEFINE c(id) == 3 * id[1] + (IF id[2] = 0 THEN 0 ELSE IF id[2] = 1 THEN 1 ELSE 2)
<1> DEFINE M == [id \in Ids |-> c(id)]
<1> DEFINE T == 0..(3 * MaxNumber + 2)
<1>1. \A id \in Ids : id[1] \in Nat /\ id[1] <= MaxNumber /\ id[2] \in {0, 1, Top}
                      /\ id = <<id[1], id[2]>>
  BY IdFacts
<1>2. \A id \in Ids : c(id) \in T
  BY <1>1, IdFacts DEF Top
<1>3. ASSUME NEW a \in Ids, NEW b \in Ids, c(a) = c(b) PROVE a = b
  <2>1. a[1] \in Nat /\ b[1] \in Nat /\ a[2] \in {0, 1, Top} /\ b[2] \in {0, 1, Top}
    BY <1>1
  <2>2. a[1] = b[1] /\ a[2] = b[2]
    BY <1>3, <2>1 DEF Top
  <2> QED
    BY <1>1, <2>2
<1>4. M \in Injection(Ids, T)
  <2>1. M \in [Ids -> T]
    BY <1>2
  <2>2. \A a, b \in Ids : M[a] = M[b] => a = b
    BY <1>3
  <2> HIDE DEF M, T
  <2> QED
    BY <2>1, <2>2, Fun_IsInj
<1>5. IsFiniteSet(T)
  BY FS_Interval, IdFacts
<1> HIDE DEF M, T
<1> QED
  BY <1>4, <1>5, FS_Injection

\* The order in which objects are written is total and strict.
LEMMA BeforeOrders ==
    /\ \A a \in Ids : ~Before(a, a)
    /\ \A a, b \in Ids : a = b \/ Before(a, b) \/ Before(b, a)
    /\ \A a, b, c \in Ids : Before(a, b) /\ Before(b, c) => Before(a, c)
<1>1. \A id \in Ids : id[1] \in Nat /\ id[2] \in Nat /\ id = <<id[1], id[2]>>
  BY IdFacts DEF Top
<1>2. \A a \in Ids : ~Before(a, a)
  BY <1>1 DEF Before
<1>3. ASSUME NEW a \in Ids, NEW b \in Ids PROVE a = b \/ Before(a, b) \/ Before(b, a)
  <2>1. a[1] \in Nat /\ a[2] \in Nat /\ b[1] \in Nat /\ b[2] \in Nat
    BY <1>1
  <2>2. a[1] = b[1] /\ a[2] = b[2] => a = b
    BY <1>1
  <2> QED
    BY <2>1, <2>2 DEF Before
<1>4. ASSUME NEW a \in Ids, NEW b \in Ids, NEW c \in Ids, Before(a, b), Before(b, c)
      PROVE  Before(a, c)
  <2>1. /\ a[1] \in Nat /\ a[2] \in Nat /\ b[1] \in Nat /\ b[2] \in Nat
        /\ c[1] \in Nat /\ c[2] \in Nat
    BY <1>1
  <2> QED
    BY <1>4, <2>1 DEF Before
<1> QED
  BY <1>2, <1>3, <1>4

\* Sorted counts the members that come before: each id has a place of its own.
LEMMA SortedEnumerates ==
    ASSUME NEW S \in SUBSET Ids
    PROVE  /\ Enumerates(Sorted(S), S)
           /\ Len(Sorted(S)) = Cardinality(S) /\ Cardinality(S) \in Nat /\ IsFiniteSet(S)
<1> DEFINE below(id) == {a \in S : Before(a, id)}
<1> DEFINE rank(id) == Cardinality(below(id))
<1> DEFINE n == Cardinality(S)
<1>1. IsFiniteSet(S) /\ n \in Nat
  BY IdsAreFinite, FS_Subset, FS_CardinalityType
<1>2. ASSUME NEW id PROVE IsFiniteSet(below(id)) /\ rank(id) \in Nat /\ below(id) \in SUBSET S
  <2>1. below(id) \in SUBSET S
    OBVIOUS
  <2> HIDE DEF below
  <2> QED
    BY <1>1, <2>1, FS_Subset, FS_CardinalityType
<1>3. ASSUME NEW a \in S, NEW b \in S, Before(a, b) PROVE rank(a) < rank(b)
  <2>1. below(a) \in SUBSET below(b)
    BY <1>3, BeforeOrders
  <2>2. a \in below(b) /\ a \notin below(a)
    BY <1>3, BeforeOrders
  <2>3. IsFiniteSet(below(b)) /\ rank(a) \in Nat /\ rank(b) \in Nat
    BY <1>2
  <2> HIDE DEF below
  <2>4. Cardinality(below(a)) <= Cardinality(below(b)) /\ Cardinality(below(a)) # Cardinality(below(b))
    BY <2>1, <2>2, <2>3, FS_Subset
  <2> QED
    BY <2>3, <2>4
<1>4. ASSUME NEW a \in S PROVE rank(a) \in 0..(n - 1)
  <2>1. below(a) \in SUBSET S /\ a \notin below(a) /\ rank(a) \in Nat
    BY <1>2, BeforeOrders
  <2> HIDE DEF below
  <2>2. Cardinality(below(a)) <= Cardinality(S) /\ Cardinality(below(a)) # Cardinality(S)
    BY <1>1, <2>1, FS_Subset
  <2> QED
    BY <1>1, <2>1, <2>2
<1>5. ASSUME NEW a \in S, NEW b \in S, rank(a) = rank(b) PROVE a = b
  <2>1. rank(a) \in Nat /\ rank(b) \in Nat
    BY <1>2
  <2>2. Before(a, b) => rank(a) < rank(b)
    BY <1>3
  <2>3. Before(b, a) => rank(b) < rank(a)
    BY <1>3
  <2>4. a = b \/ Before(a, b) \/ Before(b, a)
    BY BeforeOrders
  <2> HIDE DEF rank
  <2> QED
    BY <1>5, <2>1, <2>2, <2>3, <2>4
<1> HIDE DEF rank
<1>6. \A k \in 0..(n - 1) : \E a \in S : rank(a) = k
  <2> DEFINE M == [id \in S |-> rank(id)]
  <2> DEFINE T == 0..(n - 1)
  <2>1. M \in Injection(S, T)
    <3>1. M \in [S -> T]
      BY <1>4
    <3>2. \A a, b \in S : M[a] = M[b] => a = b
      BY <1>5
    <3> HIDE DEF M, T
    <3> QED
      BY <3>1, <3>2, Fun_IsInj
  <2>2. IsFiniteSet(T) /\ Cardinality(T) = n
    BY <1>1, FS_Interval
  <2>3. M \in Surjection(S, T)
    <3> HIDE DEF M, T
    <3> QED
      BY <1>1, <2>1, <2>2, FS_Injection
  <2>4. \A t \in T : \E s \in S : M[s] = t
    <3> HIDE DEF M, T
    <3> QED
      BY <2>3 DEF Surjection
  <2> QED
    BY <2>4
<1> DEFINE s == Sorted(S)
<1>7. s = [k \in 1..n |-> CHOOSE id \in S : rank(id) = k - 1]
  BY DEF Sorted, rank
<1>8. ASSUME NEW k \in 1..n PROVE s[k] \in S /\ rank(s[k]) = k - 1
  <2>1. s[k] = CHOOSE id \in S : rank(id) = k - 1
    BY <1>7
  <2>2. k - 1 \in 0..(n - 1)
    BY <1>1
  <2>3. \E id \in S : rank(id) = k - 1
    BY <1>6, <2>2
  <2> HIDE DEF s
  <2> QED
    BY <2>1, <2>3, Zenon
<1>9. Len(s) = n /\ DOMAIN s = 1..n
  <2>1. s = [k \in 1..n |-> s[k]]
    BY <1>7
  <2> HIDE DEF s
  <2> QED
    BY <1>1, <2>1, FunctionIsSeq
<1> HIDE DEF s, n
<1>10. ASSUME NEW id \in S PROVE \E k \in 1..n : s[k] = id
  <2>1. rank(id) + 1 \in 1..n /\ (rank(id) + 1) - 1 = rank(id)
    BY <1>1, <1>4
  <2>2. s[rank(id) + 1] \in S /\ rank(s[rank(id) + 1]) = rank(id)
    BY <1>8, <2>1
  <2> QED
    BY <1>5, <2>1, <2>2
<1>11. ASSUME NEW j \in 1..n, NEW k \in 1..n, s[j] = s[k] PROVE j = k
  <2>1. j - 1 = k - 1
    BY <1>8, <1>11
  <2> QED
    BY <2>1, <1>1
<1>12. Enumerates(s, S)
  BY <1>1, <1>8, <1>9, <1>10, <1>11 DEF Enumerates
<1> QED
  BY <1>1, <1>9, <1>12 DEF s, n

-----------------------------------------------------------------------------
(***************************************************************************)
(* Rewritten files.                                                        *)
(***************************************************************************)

Packable(objects) ==
    {id \in DOMAIN objects : objects[id].kind = "object" /\ objects[id].value # Stream}

\* What a rewrite may collect: objects and object streams under their own
\* numbers, and the members of the latter as well.
Gathered(objects) ==
    /\ DOMAIN objects \subseteq Ids /\ DOMAIN objects # {}
    /\ \A id \in DOMAIN objects :
          /\ id[2] = 0 /\ ItemOK(objects[id]) /\ objects[id].num = id[1]
          /\ objects[id].kind \in {"object", "bundle"}
          /\ objects[id].kind = "bundle" =>
                \A n \in DOMAIN objects[id].value : <<n, 0>> \in Packable(objects)

IsPack(item, objects, num) ==
    /\ item.kind = "bundle" /\ item.num = num /\ item.gen = 0
    /\ DOMAIN item.value = {id[1] : id \in Packable(objects)}
    /\ \A id \in Packable(objects) : item.value[id[1]] = objects[id].value

\* g is one object after another, the new object stream if there is one, and
\* their section of the cross-reference.
LaidOut(g, objects, nb, packNum, xrefNum) ==
    LET last == g[nb + 1] IN
    /\ g \in Seq(Elements(g)) /\ nb \in Nat /\ Len(g) = nb + 1 /\ DOMAIN g = 1..(nb + 1)
    /\ packNum \in Nat /\ \A id \in DOMAIN objects : id[1] < packNum
    /\ xrefNum = IF Packable(objects) = {} THEN packNum ELSE packNum + 1
    /\ \A k \in 1..nb :
          \/ \E id \in DOMAIN objects \ Packable(objects) : g[k] = objects[id]
          \/ k = nb /\ Packable(objects) # {} /\ IsPack(g[k], objects, packNum)
    /\ \A j, k \in 1..nb : g[j].num = g[k].num => j = k
    /\ \A id \in DOMAIN objects \ Packable(objects) : \E k \in 1..nb : g[k] = objects[id]
    /\ Packable(objects) # {} => nb # 0 /\ IsPack(g[nb], objects, packNum)
    /\ last = Section(xrefNum, last.entries, 0, 0, xrefNum + 1)
    /\ DOMAIN last.entries = {<<g[k].num, 0>> : k \in 1..nb} \cup Packable(objects)
                                \cup {<<xrefNum, 0>>}
    /\ \A k \in 1..nb : last.entries[<<g[k].num, 0>>] = Plain(k)
    /\ \A id \in Packable(objects) : last.entries[id] = Packed(packNum)
    /\ last.entries[<<xrefNum, 0>>] = Plain(nb + 1)

\* A full rewrite lays out streams, an object stream, and an xref stream.
LEMMA RewriteIs ==
    ASSUME NEW objects, Gathered(objects), NEW g, g = FullRewrite(objects)
    PROVE  \E nb, packNum, xrefNum : LaidOut(g, objects, nb, packNum, xrefNum)
<1> DEFINE packable == Packable(objects)
<1> DEFINE D == DOMAIN objects \ packable
<1> DEFINE direct == Sorted(D)
<1> DEFINE packNum == Max({id[1] : id \in DOMAIN objects}) + 1
<1> DEFINE members == [n \in {id[1] : id \in packable} |-> objects[<<n, 0>>].value]
<1> DEFINE s == [k \in 1..Len(direct) |-> objects[direct[k]]]
<1> DEFINE t == IF packable = {} THEN <<>> ELSE <<Bundle(packNum, members)>>
<1> DEFINE body == s \o t
<1> DEFINE xrefNum == IF packable = {} THEN packNum ELSE packNum + 1
<1> DEFINE at == [id \in {<<body[k].num, 0>> : k \in 1..Len(body)} |->
                    Plain(CHOOSE k \in 1..Len(body) : body[k].num = id[1])]
<1> DEFINE packed == [id \in packable |-> Packed(packNum)]
<1> DEFINE own == [id \in {<<xrefNum, 0>>} |-> Plain(Len(body) + 1)]
<1> DEFINE es == OrInsert(OrInsert(at, packed), own)
<1> DEFINE last == Section(xrefNum, es, 0, 0, xrefNum + 1)
<1>1. g = Append(body, last)
  BY DEF FullRewrite, Packable
<1>2. \A id \in DOMAIN objects :
         /\ id \in Ids /\ id[2] = 0 /\ id = <<id[1], 0>> /\ id[1] \in Nat \ {0}
         /\ id[1] <= MaxNumber /\ objects[id].num = id[1]
  BY IdFacts DEF Gathered
<1>3. packNum \in Nat /\ packNum \in Int /\ \A id \in DOMAIN objects : id[1] < packNum
  <2> DEFINE N == {id[1] : id \in DOMAIN objects}
  <2>1. N \subseteq Int /\ N # {} /\ MaxNumber \in Int /\ \A n \in N : n <= MaxNumber
    BY <1>2, IdFacts DEF Gathered
  <2>2. Max(N) \in N /\ \A n \in N : n <= Max(N)
    <3> HIDE DEF N
    <3> QED
      BY <2>1, GreatestExists
  <2>3. Max(N) \in Nat /\ packNum = Max(N) + 1
    BY <1>2, <2>2
  <2>4. \A id \in DOMAIN objects : id[1] \in N
    OBVIOUS
  <2> HIDE DEF N, packNum
  <2> QED
    BY <1>2, <2>2, <2>3, <2>4
<1>4. /\ Enumerates(direct, D) /\ Len(direct) \in Nat
  <2>1. D \in SUBSET Ids
    BY <1>2
  <2> HIDE DEF D
  <2>2. Enumerates(direct, D)
    BY <2>1, SortedEnumerates
  <2> QED
    BY <2>2 DEF Enumerates
<1>5. s \in Seq(Elements(s)) /\ Len(s) = Len(direct) /\ \A k \in 1..Len(s) : s[k] = objects[direct[k]]
  <2>1. s = [k \in 1..Len(direct) |-> s[k]]
    OBVIOUS
  <2>2. \A k \in 1..Len(direct) : s[k] = objects[direct[k]]
    OBVIOUS
  <2> HIDE DEF s, direct
  <2> QED
    BY <1>4, <2>1, <2>2, FunctionIsSeq
<1>6. \A k \in 1..Len(s) : direct[k] \in D /\ s[k] = objects[direct[k]] /\ s[k].num = direct[k][1]
  BY <1>2, <1>4, <1>5 DEF Enumerates
<1>7. \A id \in D : \E k \in 1..Len(s) : s[k] = objects[id]
  BY <1>4, <1>5 DEF Enumerates
<1>8. \A j, k \in 1..Len(s) : s[j].num = s[k].num => j = k
  <2>1. ASSUME NEW j \in 1..Len(s), NEW k \in 1..Len(s), s[j].num = s[k].num PROVE j = k
    <3>1. direct[j] \in DOMAIN objects /\ direct[k] \in DOMAIN objects /\ direct[j][1] = direct[k][1]
      BY <2>1, <1>6
    <3>2. direct[j] = direct[k]
      BY <3>1, <1>2
    <3>3. j \in 1..Len(direct) /\ k \in 1..Len(direct)
      BY <1>5
    <3> HIDE DEF direct
    <3> QED
      BY <3>2, <3>3, <1>4 DEF Enumerates
  <2> QED
    BY <2>1
<1> DEFINE b == Bundle(packNum, members)
<1>9. IsPack(b, objects, packNum)
  <2>1. b.kind = "bundle" /\ b.num = packNum /\ b.gen = 0 /\ b.value = members
    BY DEF Bundle
  <2>2. DOMAIN members = {id[1] : id \in packable}
    OBVIOUS
  <2>3. ASSUME NEW id \in packable PROVE members[id[1]] = objects[id].value
    <3>1. id = <<id[1], 0>>
      BY <1>2 DEF Packable
    <3>2. members[id[1]] = objects[<<id[1], 0>>].value
      OBVIOUS
    <3> QED
      BY <3>1, <3>2
  <2> HIDE DEF members
  <2> QED
    BY <2>1, <2>2, <2>3 DEF IsPack
<1>10. /\ t \in Seq(Elements(t)) /\ Len(t) = (IF packable = {} THEN 0 ELSE 1)
       /\ packable # {} => t[1] = b
  <2> HIDE DEF packNum, members, b
  <2>1. CASE packable = {}
    <3>1. t = <<>>
      BY <2>1
    <3>2. t = [k \in 1..0 |-> t[k]]
      BY <3>1
    <3> HIDE DEF t
    <3>3. t \in Seq(Elements(t)) /\ Len(t) = 0
      BY <3>2, FunctionIsSeq
    <3> QED
      BY <2>1, <3>3
  <2>2. CASE packable # {}
    <3>1. t = <<b>>
      BY <2>2 DEF b
    <3>2. t = [k \in 1..1 |-> t[k]] /\ t[1] = b
      BY <3>1
    <3> HIDE DEF t
    <3>3. t \in Seq(Elements(t)) /\ Len(t) = 1
      BY <3>2, FunctionIsSeq
    <3> QED
      BY <2>2, <3>2, <3>3
  <2> QED
    BY <2>1, <2>2
<1> DEFINE nb == Len(body)
<1>11. /\ body \in Seq(Elements(body)) /\ nb = Len(s) + Len(t) /\ nb \in Nat
       /\ \A k \in 1..Len(s) : body[k] = s[k]
       /\ \A k \in 1..Len(t) : body[Len(s) + k] = t[k]
  <2>1. s \in Seq(Elements(s))
    BY <1>5
  <2>2. t \in Seq(Elements(t))
    BY <1>10
  <2>3. body = s \o t
    OBVIOUS
  <2> HIDE DEF s, t, body
  <2>4. body \in Seq(Elements(body)) /\ nb = Len(s) + Len(t)
    BY <2>1, <2>2, <2>3, Joined
  <2>5. ASSUME NEW k \in 1..Len(s) PROVE body[k] = s[k]
    BY <2>1, <2>2, <2>3, Joined
  <2>6. ASSUME NEW k \in 1..Len(t) PROVE body[Len(s) + k] = t[k]
    BY <2>1, <2>2, <2>3, Joined
  <2>7. nb \in Nat
    BY <2>4, LenProperties
  <2> QED
    BY <2>4, <2>5, <2>6, <2>7
<1> HIDE DEF s, t, body, b, packNum
<1>12. ASSUME NEW k \in 1..nb
       PROVE  \/ k \in 1..Len(s) /\ body[k] = s[k]
              \/ k = nb /\ packable # {} /\ body[k] = b
  <2>1. Len(s) \in Nat /\ (Len(t) = 0 \/ Len(t) = 1)
    BY <1>4, <1>5, <1>10
  <2>2. CASE k <= Len(s)
    BY <2>1, <2>2, <1>11
  <2>3. CASE ~(k <= Len(s))
    <3>1. Len(t) = 1 /\ k = Len(s) + 1 /\ k = nb
      BY <2>1, <2>3, <1>11
    <3>2. packable # {} /\ body[Len(s) + 1] = t[1] /\ t[1] = b
      BY <3>1, <1>10, <1>11
    <3> QED
      BY <3>1, <3>2
  <2> QED
    BY <2>2, <2>3
<1>13. packable # {} => nb # 0 /\ body[nb] = b
  <2>1. ASSUME packable # {} PROVE nb # 0 /\ body[nb] = b
    <3>1. Len(t) = 1 /\ t[1] = b /\ 1 \in 1..Len(t) /\ Len(s) \in Nat
      BY <2>1, <1>4, <1>5, <1>10
    <3>2. nb = Len(s) + 1 /\ body[Len(s) + 1] = t[1]
      BY <3>1, <1>11
    <3> QED
      BY <3>1, <3>2
  <2> QED
    BY <2>1
<1>14. \A k \in 1..Len(s) : k \in 1..nb /\ body[k] = s[k]
  <2>1. Len(s) \in Nat /\ (Len(t) = 0 \/ Len(t) = 1)
    BY <1>4, <1>5, <1>10
  <2> QED
    BY <2>1, <1>11
<1>15. \A k \in 1..nb : (body[k].num = packNum /\ body[k] = b /\ k = nb) \/ body[k].num < packNum
  BY <1>3, <1>6, <1>9, <1>12 DEF IsPack
<1>16. \A j, k \in 1..nb : body[j].num = body[k].num => j = k
  <2>1. \A k \in 1..Len(s) : s[k].num < packNum /\ s[k].num \in Int
    BY <1>2, <1>3, <1>6
  <2>2. packable # {} => b.num = packNum
    BY <1>9 DEF IsPack
  <2>3. ASSUME NEW j \in 1..nb, NEW k \in 1..nb, body[j].num = body[k].num PROVE j = k
    BY <2>1, <2>2, <2>3, <1>3, <1>8, <1>12
  <2> QED
    BY <2>3
<1>17. DOMAIN at = {<<body[k].num, 0>> : k \in 1..nb}
  OBVIOUS
<1>18. ASSUME NEW k \in 1..nb PROVE at[<<body[k].num, 0>>] = Plain(k)
  <2> DEFINE c == CHOOSE j \in 1..nb : body[j].num = <<body[k].num, 0>>[1]
  <2>1. at[<<body[k].num, 0>>] = Plain(c)
    OBVIOUS
  <2>2. <<body[k].num, 0>>[1] = body[k].num
    OBVIOUS
  <2>3. c \in 1..nb /\ body[c].num = body[k].num
    BY <2>2, Zenon
  <2> HIDE DEF c
  <2>4. c = k
    BY <2>3, <1>16
  <2> QED
    BY <2>1, <2>4
<1> HIDE DEF at
<1>19. DOMAIN packed = packable /\ \A id \in packable : packed[id] = Packed(packNum)
  OBVIOUS
<1>20. DOMAIN own = {<<xrefNum, 0>>} /\ own[<<xrefNum, 0>>] = Plain(nb + 1)
  OBVIOUS
<1> HIDE DEF packed, own
<1>21. xrefNum \in Nat /\ \A k \in 1..nb : body[k].num # xrefNum
  BY <1>3, <1>13, <1>15, <1>12, <1>6, <1>2
<1>22. \A id \in packable : id # <<xrefNum, 0>> /\ \A k \in 1..nb : id # <<body[k].num, 0>>
  <2>1. ASSUME NEW id \in packable, NEW k \in 1..nb PROVE id # <<body[k].num, 0>>
    <3>1. id \in DOMAIN objects /\ id = <<id[1], 0>> /\ id[1] < packNum /\ id[1] \in Nat
      BY <1>2, <1>3 DEF Packable
    <3>2. CASE k \in 1..Len(s) /\ body[k] = s[k]
      <4>1. direct[k] \in D /\ body[k].num = direct[k][1] /\ direct[k] = <<direct[k][1], 0>>
        BY <3>2, <1>2, <1>6
      <4> QED
        BY <4>1, <3>1
    <3>3. CASE body[k] = b
      <4>1. body[k].num = packNum
        BY <3>3, <1>9 DEF IsPack
      <4> QED
        BY <3>1, <4>1, <1>3
    <3> QED
      BY <3>2, <3>3, <1>12
  <2>2. ASSUME NEW id \in packable PROVE id # <<xrefNum, 0>>
    <3>1. id = <<id[1], 0>> /\ id[1] < packNum /\ id[1] \in Nat
      BY <1>2, <1>3 DEF Packable
    <3>2. id[1] # xrefNum
      BY <1>3, <3>1
    <3> HIDE DEF xrefNum
    <3> QED
      BY <3>1, <3>2
  <2> QED
    BY <2>1, <2>2
<1>23. /\ DOMAIN es = {<<body[k].num, 0>> : k \in 1..nb} \cup packable \cup {<<xrefNum, 0>>}
       /\ \A k \in 1..nb : es[<<body[k].num, 0>>] = Plain(k)
       /\ \A id \in packable : es[id] = Packed(packNum)
       /\ es[<<xrefNum, 0>>] = Plain(nb + 1)
  <2> DEFINE e2 == OrInsert(at, packed)
  <2>1. DOMAIN e2 = DOMAIN at \cup packable
    BY <1>19 DEF OrInsert
  <2>2. ASSUME NEW k \in 1..nb PROVE <<body[k].num, 0>> \in DOMAIN at /\ e2[<<body[k].num, 0>>] = Plain(k)
    <3>1. <<body[k].num, 0>> \in DOMAIN at
      BY <1>17
    <3> QED
      BY <3>1, <1>18 DEF OrInsert
  <2>3. ASSUME NEW id \in packable PROVE e2[id] = Packed(packNum)
    <3>1. id \notin DOMAIN at
      BY <1>17, <1>22
    <3> QED
      BY <3>1, <1>19 DEF OrInsert
  <2>4. <<xrefNum, 0>> \notin DOMAIN e2
    <3>1. \A k \in 1..nb : <<xrefNum, 0>> # <<body[k].num, 0>>
      BY <1>21
    <3> HIDE DEF e2, xrefNum
    <3> QED
      BY <3>1, <2>1, <1>17, <1>22
  <2>5. es = OrInsert(e2, own)
    OBVIOUS
  <2> HIDE DEF e2, es, xrefNum
  <2>6. DOMAIN es = DOMAIN at \cup packable \cup {<<xrefNum, 0>>}
    BY <2>1, <2>5, <1>20 DEF OrInsert
  <2>7. \A id \in DOMAIN e2 : es[id] = e2[id]
    BY <2>5 DEF OrInsert
  <2>8. es[<<xrefNum, 0>>] = Plain(nb + 1)
    BY <2>4, <2>5, <1>20 DEF OrInsert
  <2> QED
    BY <2>1, <2>2, <2>3, <2>6, <2>7, <2>8, <1>17
<1>24. /\ last = Section(xrefNum, last.entries, 0, 0, xrefNum + 1) /\ last.entries = es
  BY DEF Section
<1> HIDE DEF es, last
<1>25. g \in Seq(Elements(g)) /\ Len(g) = nb + 1 /\ g[nb + 1] = last
  <2>1. body \in Seq(Elements(body))
    BY <1>11
  <2>2. g \in Seq(Elements(g)) /\ Len(g) = nb + 1
    BY <1>1, <2>1, Added
  <2>3. g[nb + 1] = last
    BY <1>1, <2>1, Added
  <2> QED
    BY <2>2, <2>3
<1>26. DOMAIN g = 1..(nb + 1)
  BY <1>11, <1>25, LenProperties
<1>27. ASSUME NEW k \in 1..nb PROVE g[k] = body[k]
  BY <1>1, <1>11, Added
<1>28. nb \in 1..nb \/ nb = 0
  BY <1>11
<1> HIDE DEF nb
<1>29. ASSUME NEW k \in 1..nb
       PROVE  \/ \E id \in DOMAIN objects \ Packable(objects) : g[k] = objects[id]
              \/ k = nb /\ Packable(objects) # {} /\ IsPack(g[k], objects, packNum)
  BY <1>6, <1>9, <1>12, <1>27
<1>30. \A j, k \in 1..nb : g[j].num = g[k].num => j = k
  BY <1>16, <1>27
<1>31. \A id \in DOMAIN objects \ Packable(objects) : \E k \in 1..nb : g[k] = objects[id]
  BY <1>7, <1>14, <1>27
<1>32. Packable(objects) # {} => nb # 0 /\ IsPack(g[nb], objects, packNum)
  BY <1>9, <1>13, <1>27, <1>28
<1>33. {<<g[k].num, 0>> : k \in 1..nb} = {<<body[k].num, 0>> : k \in 1..nb}
  BY <1>27
<1>34. /\ \A k \in 1..nb : last.entries[<<g[k].num, 0>>] = Plain(k)
       /\ DOMAIN last.entries = {<<g[k].num, 0>> : k \in 1..nb} \cup packable \cup {<<xrefNum, 0>>}
       /\ \A id \in packable : last.entries[id] = Packed(packNum)
       /\ last.entries[<<xrefNum, 0>>] = Plain(nb + 1)
  BY <1>23, <1>24, <1>27, <1>33
<1>35. LaidOut(g, objects, nb, packNum, xrefNum)
  BY <1>3, <1>11, <1>24, <1>25, <1>26, <1>29, <1>30, <1>31, <1>32, <1>34 DEF LaidOut, nb
<1> QED
  BY <1>35

\* Such a file is well formed, and means what was collected.
LEMMA LaidOutIsWell ==
    ASSUME NEW objects, Gathered(objects), NEW g, NEW nb, NEW packNum, NEW xrefNum,
           LaidOut(g, objects, nb, packNum, xrefNum),
           nb + 1 <= MaxItems, xrefNum <= MaxNumber
    PROVE  /\ WellFormed(g) /\ Spoken(g)
           /\ \A id \in Ids : Meaning(g)[id] =
                 IF id \in DOMAIN objects /\ objects[id].kind = "object"
                 THEN objects[id].value ELSE Nothing
<1> DEFINE P == Packable(objects)
<1> DEFINE D == DOMAIN objects \ P
<1> DEFINE L == nb + 1
<1> DEFINE es == g[L].entries
<1>1. /\ g \in Seq(Elements(g)) /\ nb \in Nat /\ Len(g) = L /\ DOMAIN g = 1..L
      /\ packNum \in Nat /\ \A id \in DOMAIN objects : id[1] < packNum
      /\ xrefNum = IF P = {} THEN packNum ELSE packNum + 1
      /\ \A k \in 1..nb : \/ \E id \in D : g[k] = objects[id]
                          \/ k = nb /\ P # {} /\ IsPack(g[k], objects, packNum)
      /\ \A j, k \in 1..nb : g[j].num = g[k].num => j = k
      /\ \A id \in D : \E k \in 1..nb : g[k] = objects[id]
      /\ P # {} => nb # 0 /\ IsPack(g[nb], objects, packNum)
      /\ g[L] = Section(xrefNum, es, 0, 0, xrefNum + 1)
      /\ DOMAIN es = {<<g[k].num, 0>> : k \in 1..nb} \cup P \cup {<<xrefNum, 0>>}
      /\ \A k \in 1..nb : es[<<g[k].num, 0>>] = Plain(k)
      /\ \A id \in P : es[id] = Packed(packNum)
      /\ es[<<xrefNum, 0>>] = Plain(L)
  BY DEF LaidOut
<1>a. /\ g \in Seq(Elements(g)) /\ nb \in Nat /\ Len(g) = L /\ DOMAIN g = 1..L /\ L = nb + 1
      /\ L \in Nat \ {0} /\ L <= MaxItems /\ \A k \in 1..nb : k \in DOMAIN g /\ k # L
  BY <1>1
<1>b. packNum \in Nat /\ xrefNum = (IF P = {} THEN packNum ELSE packNum + 1)
  BY <1>1
<1>2. /\ g[L].kind = "section" /\ g[L].num = xrefNum /\ g[L].gen = 0 /\ g[L].prev = 0
      /\ g[L].stm = 0 /\ g[L].size = xrefNum + 1
      /\ g[L] = Section(g[L].num, g[L].entries, g[L].prev, g[L].stm, g[L].size)
  <2>1. g[L] = Section(xrefNum, es, 0, 0, xrefNum + 1)
    BY <1>1
  <2> HIDE DEF L, es
  <2>2. /\ g[L].kind = "section" /\ g[L].num = xrefNum /\ g[L].gen = 0 /\ g[L].prev = 0
        /\ g[L].stm = 0 /\ g[L].size = xrefNum + 1 /\ g[L].entries = es
    BY <2>1 DEF Section
  <2> QED
    BY <2>1, <2>2
<1> HIDE DEF es
<1>3. \A id \in DOMAIN objects :
         /\ id \in Ids /\ id[2] = 0 /\ id = <<id[1], 0>> /\ id[1] \in Nat \ {0} /\ id[1] < packNum
         /\ ItemOK(objects[id]) /\ objects[id].num = id[1]
         /\ objects[id].kind \in {"object", "bundle"}
         /\ objects[id].kind = "bundle" => \A n \in DOMAIN objects[id].value : <<n, 0>> \in P
  BY <1>1, IdFacts DEF Gathered
<1>4. packNum # 0 /\ xrefNum \in Nat \ {0} /\ packNum <= xrefNum
  <2>1. PICK id \in DOMAIN objects : TRUE
    BY DEF Gathered
  <2>2. id[1] \in Nat \ {0} /\ id[1] < packNum
    BY <1>3
  <2> QED
    BY <1>1, <2>2
<1>5. \A id \in P : /\ id \in DOMAIN objects /\ objects[id].kind = "object"
                    /\ objects[id].value \in Int /\ objects[id].value # Stream
  BY <1>3, RevisionAssumption DEF Packable, ItemOK
<1>6. ASSUME NEW k \in 1..nb, P # {}, IsPack(g[k], objects, packNum)
      PROVE  /\ ItemOK(g[k]) /\ g[k].kind = "bundle" /\ g[k].num = packNum /\ packNum < xrefNum
             /\ \A n \in DOMAIN g[k].value : <<n, 0>> \in P
             /\ \A id \in P : id[1] \in DOMAIN g[k].value /\ g[k].value[id[1]] = objects[id].value
  <2>1. /\ g[k].kind = "bundle" /\ g[k].num = packNum /\ g[k].gen = 0
        /\ DOMAIN g[k].value = {id[1] : id \in P}
        /\ \A id \in P : g[k].value[id[1]] = objects[id].value
    BY <1>6 DEF IsPack
  <2>2. ASSUME NEW n \in DOMAIN g[k].value
        PROVE  <<n, 0>> \in P /\ n \in Nat \ {0} /\ g[k].value[n] \in Int
    <3>1. PICK id \in P : n = id[1]
      BY <2>1
    <3>2. id = <<n, 0>>
      BY <3>1, <1>3, <1>5
    <3> QED
      BY <3>1, <3>2, <2>1, <1>3, <1>5
  <2>3. ItemOK(g[k])
    BY <1>1, <1>4, <2>1, <2>2 DEF ItemOK
  <2>4. packNum < xrefNum
    BY <1>1, <1>6
  <2>5. \A id \in P : id[1] \in DOMAIN g[k].value
    BY <2>1
  <2> QED
    BY <2>1, <2>2, <2>3, <2>4, <2>5
<1>7. ASSUME NEW k \in 1..nb
      PROVE  /\ ItemOK(g[k]) /\ g[k].kind \in {"object", "bundle"}
             /\ g[k].num \in Nat \ {0} /\ g[k].num < xrefNum /\ <<g[k].num, 0>> \notin P
             /\ g[k].kind = "bundle" => \A n \in DOMAIN g[k].value : <<n, 0>> \in P
  <2>1. CASE \E id \in D : g[k] = objects[id]
    <3>1. PICK id \in D : g[k] = objects[id]
      BY <2>1
    <3>2. id = <<g[k].num, 0>> /\ g[k].num < packNum /\ g[k].num \in Nat \ {0}
      BY <3>1, <1>3
    <3>3. id \in DOMAIN objects /\ id \notin P
      OBVIOUS
    <3> HIDE DEF D, P, L
    <3>4. /\ ItemOK(g[k]) /\ g[k].kind \in {"object", "bundle"}
          /\ g[k].kind = "bundle" => \A n \in DOMAIN g[k].value : <<n, 0>> \in P
      BY <3>1, <3>3, <1>3
    <3>5. g[k].num < xrefNum
      BY <3>2, <1>4, <1>b
    <3>6. <<g[k].num, 0>> \notin P
      BY <3>2, <3>3
    <3> QED
      BY <3>2, <3>4, <3>5, <3>6
  <2>2. CASE P # {} /\ IsPack(g[k], objects, packNum)
    <3>1. /\ ItemOK(g[k]) /\ g[k].kind = "bundle" /\ g[k].num = packNum /\ packNum < xrefNum
          /\ \A n \in DOMAIN g[k].value : <<n, 0>> \in P
      BY <2>2, <1>6
    <3>2. <<packNum, 0>> \notin P
      <4>1. ASSUME <<packNum, 0>> \in P PROVE FALSE
        <5>1. <<packNum, 0>>[1] < packNum
          BY <4>1, <1>1, <1>5
        <5> QED
          BY <5>1, <1>1
      <4> QED
        BY <4>1
    <3> QED
      BY <3>1, <3>2, <1>1, <1>4
  <2> QED
    BY <1>1, <2>1, <2>2
<1> HIDE DEF L, P, D
<1>k. /\ \A k \in 1..nb : ItemOK(g[k])
      /\ \A k \in 1..nb : g[k].kind \in {"object", "bundle"}
      /\ \A k \in 1..nb : g[k].num \in Nat \ {0} /\ g[k].num < xrefNum
      /\ \A k \in 1..nb : <<g[k].num, 0>> \notin P
      /\ \A k \in 1..nb : g[k].kind = "bundle" => \A n \in DOMAIN g[k].value : <<n, 0>> \in P
  BY <1>7
<1>8. \A p \in DOMAIN g : p = L \/ (p \in 1..nb /\ p # L)
  BY <1>a
<1>9. L \in DOMAIN g /\ L \in Nat \ {0}
  BY <1>a
<1>10. Sections(g) = {L} /\ Revisions(g) = {L} /\ LastSize(g) = xrefNum + 1
  <2>1. Sections(g) = {L}
    <3>1. \A k \in 1..nb : g[k].kind # "section"
      BY <1>k
    <3> HIDE DEF L
    <3> QED
      BY <3>1, <1>2, <1>8, <1>9 DEF Sections
  <2>2. Revisions(g) = {L}
    BY <2>1, <1>2, <1>9 DEF Revisions
  <2>3. LastSize(g) = xrefNum + 1
    <3>1. DOMAIN g = 1..Len(g) /\ Len(g) \in Nat \ {0} /\ g[Len(g)].kind = "section"
          /\ g[Len(g)].size = xrefNum + 1
      BY <1>a, <1>2
    <3> QED
      BY <3>1, LastIs
  <2> QED
    BY <2>1, <2>2, <2>3
<1>11. DOMAIN EntriesOf(g, L) = DOMAIN es /\ \A id \in DOMAIN es : EntriesOf(g, L)[id] = es[id]
  BY <1>2, PlainEntries DEF es
<1>12. ASSUME NEW n
       PROVE  Lists(g, L, n) <=> (\E k \in 1..nb : g[k].num = n) \/ <<n, 0>> \in P \/ n = xrefNum
  <2>1. <<n, 0>> \in {<<g[k].num, 0>> : k \in 1..nb} <=> \E k \in 1..nb : g[k].num = n
    OBVIOUS
  <2> QED
    BY <1>1, <1>11, <2>1 DEF Lists
<1>13. ASSUME NEW id \in DOMAIN es
       PROVE  id \in Ids /\ id[2] = 0 /\ es[id] \in InUse
  <2>1. \A n : n \in Nat /\ n # 0 /\ n <= xrefNum => n \in Numbers
    BY <1>4, IdFacts
  <2>2. CASE \E k \in 1..nb : id = <<g[k].num, 0>>
    <3>1. PICK k \in 1..nb : id = <<g[k].num, 0>>
      BY <2>2
    <3>2. g[k].num \in Numbers
      <4>1. g[k].num \in Nat /\ g[k].num # 0 /\ g[k].num < xrefNum
        BY <1>k
      <4> QED
        BY <4>1, <1>4, <2>1
    <3>3. k \in Offsets
      BY <1>a, IdFacts DEF Offsets
    <3>4. es[id] = Plain(k) /\ id[2] = 0
      BY <3>1, <1>1
    <3> QED
      BY <3>1, <3>2, <3>3, <3>4, IdFacts DEF InUse
  <2>3. CASE id \in P
    <3>1. packNum \in Numbers
      BY <1>4, <1>b, <2>1
    <3>2. es[id] = Packed(packNum) /\ id[2] = 0 /\ id \in Ids
      BY <2>3, <1>1, <1>3, <1>5
    <3> QED
      BY <3>1, <3>2 DEF InUse
  <2>4. CASE id = <<xrefNum, 0>>
    <3>1. xrefNum \in Numbers /\ L \in Offsets
      BY <1>a, <1>4, <2>1, IdFacts DEF Offsets
    <3>2. es[id] = Plain(L) /\ id[2] = 0
      BY <2>4, <1>1
    <3> QED
      BY <2>4, <3>1, <3>2, IdFacts DEF InUse
  <2> QED
    BY <1>1, <2>2, <2>3, <2>4
<1>14. Items(g)
  <2>1. ItemOK(g[L])
    BY <1>2, <1>4, <1>13 DEF ItemOK, es
  <2>2. \A p \in DOMAIN g : ItemOK(g[p])
    BY <1>k, <1>8, <2>1
  <2>3. Len(g) \in 1..MaxItems
    BY <1>a, IdFacts
  <2> QED
    BY <1>a, <2>2, <2>3 DEF Items
<1>15. Peopled(g)
  <2>1. PICK id \in DOMAIN objects : TRUE
    BY DEF Gathered
  <2>2. \E k \in 1..nb : TRUE
    <3>1. CASE id \in P
      <4>1. P # {}
        BY <3>1
      <4>2. nb # 0
        BY <1>1, <4>1
      <4> QED
        BY <1>a, <4>2
    <3>2. CASE id \notin P
      <4>1. id \in D
        BY <3>2 DEF D
      <4> QED
        BY <1>1, <4>1
    <3> QED
      BY <3>1, <3>2
  <2>3. PICK k \in 1..nb : TRUE
    BY <2>2
  <2>4. k \in DOMAIN g /\ g[k].kind # "section"
    BY <1>a, <1>k
  <2> QED
    BY <2>4 DEF Peopled
<1>16. Chain(g)
  <2>1. LastSize(g) \in 1..(MaxNumber + 1)
    BY <1>4, <1>10, IdFacts
  <2>2. Len(g) = L
    BY <1>1
  <2> HIDE DEF L
  <2> QED
    BY <1>2, <1>9, <1>10, <2>1, <2>2 DEF Chain
<1>17. \A n : Lists(g, L, n) => Listed(g, n)
  BY <1>10 DEF Listed
<1>18. Numbered(g)
  <2>1. ASSUME NEW k \in 1..nb
        PROVE  /\ g[k].num < LastSize(g) /\ Listed(g, g[k].num)
               /\ g[k].kind = "bundle" => \A n \in DOMAIN g[k].value : n < LastSize(g) /\ Listed(g, n)
    <3>1. g[k].num < LastSize(g)
      <4>1. g[k].num \in Nat /\ g[k].num < xrefNum /\ LastSize(g) = xrefNum + 1
        BY <1>k, <1>10
      <4> QED
        BY <4>1, <1>4
    <3>2. Listed(g, g[k].num)
      <4> DEFINE n == g[k].num
      <4>1. \E j \in 1..nb : g[j].num = n
        OBVIOUS
      <4> HIDE DEF n
      <4>2. Listed(g, n)
        BY <4>1, <1>12, <1>17
      <4> QED
        BY <4>2 DEF n
    <3>3. ASSUME g[k].kind = "bundle", NEW n \in DOMAIN g[k].value
          PROVE  n < LastSize(g) /\ Listed(g, n)
      <4>1. <<n, 0>> \in P /\ n \in Nat
        BY <1>k, <3>3 DEF ItemOK
      <4>2. <<n, 0>>[1] < packNum
        BY <4>1, <1>1, <1>5
      <4>3. Listed(g, n)
        BY <4>1, <1>12, <1>17
      <4> QED
        BY <4>1, <4>2, <4>3, <1>b, <1>4, <1>10
    <3> QED
      BY <3>1, <3>2, <3>3
  <2>2. g[L].num < LastSize(g) /\ Listed(g, g[L].num) /\ g[L].kind # "bundle"
    <3>1. Listed(g, xrefNum)
      BY <1>12, <1>17
    <3> QED
      BY <3>1, <1>2, <1>4, <1>10
  <2>3. ASSUME NEW p \in DOMAIN g
        PROVE  /\ g[p].num < LastSize(g) /\ Listed(g, g[p].num)
               /\ g[p].kind = "bundle" => \A n \in DOMAIN g[p].value : n < LastSize(g) /\ Listed(g, n)
    BY <1>8, <2>1, <2>2
  <2> QED
    BY <2>3, <2>2 DEF Numbered
<1>19. ASSUME NEW p \in DOMAIN g, NEW q \in DOMAIN g, g[p].num = g[q].num PROVE p = q
  <2>1. ASSUME NEW k \in 1..nb PROVE g[k].num # g[L].num
    <3>1. g[k].num \in Nat /\ g[k].num < xrefNum /\ g[L].num = xrefNum
      BY <1>k, <1>2
    <3> QED
      BY <3>1, <1>4
  <2> QED
    BY <1>1, <1>8, <1>19, <2>1
<1>20. ASSUME NEW p \in DOMAIN g, g[p].kind = "bundle", NEW q \in DOMAIN g
       PROVE  g[q].num \notin DOMAIN g[p].value
  <2>1. p \in 1..nb
    BY <1>2, <1>8, <1>20
  <2>2. SUFFICES ASSUME g[q].num \in DOMAIN g[p].value PROVE FALSE
    OBVIOUS
  <2>3. <<g[q].num, 0>> \in P
    BY <1>k, <1>20, <2>1, <2>2
  <2>4. q = L
    BY <1>k, <1>8, <2>3
  <2>5. <<xrefNum, 0>>[1] < packNum
    BY <1>1, <1>2, <1>5, <2>3, <2>4
  <2> QED
    BY <2>5, <1>1, <1>4
<1>21. Unique(g)
  BY <1>19, <1>20 DEF Unique
<1>22. ASSUME NEW n, NEW v
       PROVE  v \in Written(g, <<n, 0>>) <=>
                 v \in DOMAIN g /\ (g[v].num = n \/ (g[v].kind = "bundle" /\ n \in DOMAIN g[v].value))
  BY <1>14, WrittenIs
<1>23. ASSUME NEW p \in DOMAIN g PROVE LastWritten(g, p, g[p].num)
  <2> DEFINE n == g[p].num
  <2>1. \A v : v \in Written(g, <<n, 0>>) <=>
                 v \in DOMAIN g /\ (g[v].num = n \/ (g[v].kind = "bundle" /\ n \in DOMAIN g[v].value))
    <3> HIDE DEF n
    <3> QED
      BY <1>22
  <2>2. \A v \in DOMAIN g : g[v].num = n => v = p
    BY <1>19
  <2>3. \A v \in DOMAIN g : g[v].kind = "bundle" => n \notin DOMAIN g[v].value
    BY <1>20
  <2>4. p \in Nat /\ g[p].num = n
    BY <1>1
  <2> HIDE DEF n, L
  <2>5. LastWritten(g, p, n)
    BY <2>1, <2>2, <2>3, <2>4 DEF LastWritten
  <2> QED
    BY <2>5 DEF n
<1>24. ASSUME NEW id \in P
       PROVE  /\ LastWritten(g, nb, id[1]) /\ nb \in DOMAIN g /\ g[nb].num = packNum
              /\ id[1] # packNum /\ g[nb].kind = "bundle" /\ g[nb].value[id[1]] = objects[id].value
  <2> DEFINE n == id[1]
  <2>1. P # {} /\ nb \in 1..nb /\ IsPack(g[nb], objects, packNum)
    <3>1. P # {}
      BY <1>24
    <3> QED
      BY <3>1, <1>1
  <2>2. /\ g[nb].kind = "bundle" /\ g[nb].num = packNum
        /\ id[1] \in DOMAIN g[nb].value /\ g[nb].value[id[1]] = objects[id].value
    BY <1>6, <2>1
  <2>3. nb \in DOMAIN g
    BY <1>a, <2>1
  <2>4. n \in Nat /\ n < packNum /\ id = <<n, 0>>
    BY <1>3, <1>5
  <2>5. nb \in Written(g, <<n, 0>>)
    BY <1>22, <2>2, <2>3
  <2>6. ASSUME NEW v \in Written(g, <<n, 0>>) PROVE v <= nb
    <3>1. v \in DOMAIN g /\ (g[v].num = n \/ g[v].kind = "bundle")
      BY <1>22
    <3>2. v # L
      BY <1>b, <1>2, <1>4, <2>4, <3>1
    <3> QED
      BY <1>8, <1>a, <3>1, <3>2
  <2>7. LastWritten(g, nb, n)
    BY <2>5, <2>6 DEF LastWritten
  <2> QED
    BY <2>2, <2>3, <2>4, <2>7
<1>25. ASSUME NEW n, Lists(g, L, n)
       PROVE  \/ \E p \in DOMAIN g : g[p].num = n /\ EntriesOf(g, L)[<<n, 0>>] = Plain(p)
              \/ <<n, 0>> \in P /\ EntriesOf(g, L)[<<n, 0>>] = Packed(packNum)
  <2>1. <<n, 0>> \in DOMAIN es /\ EntriesOf(g, L)[<<n, 0>>] = es[<<n, 0>>]
    BY <1>11, <1>25 DEF Lists
  <2>2. CASE \E k \in 1..nb : g[k].num = n
    <3>1. PICK k \in 1..nb : g[k].num = n
      BY <2>2
    <3>2. es[<<g[k].num, 0>>] = Plain(k) /\ k \in DOMAIN g
      BY <1>1, <1>a
    <3> QED
      BY <2>1, <3>1, <3>2
  <2>3. CASE <<n, 0>> \in P
    BY <1>1, <2>1, <2>3
  <2>4. CASE n = xrefNum
    BY <1>1, <1>2, <1>9, <2>1, <2>4
  <2> QED
    BY <1>12, <1>25, <2>2, <2>3, <2>4
<1>26. Placed(g)
  <2>1. ASSUME NEW p \in Revisions(g), NEW n \in Numbers, Newest(g, p, n)
        PROVE  \E w \in DOMAIN g :
                  LastWritten(g, w, n) /\ Leads(g, EntriesOf(g, p)[<<n, 0>>], w, n)
    <3>1. p = L /\ Lists(g, L, n)
      BY <1>10, <2>1 DEF Newest
    <3>2. CASE \E w \in DOMAIN g : g[w].num = n /\ EntriesOf(g, L)[<<n, 0>>] = Plain(w)
      BY <1>23, <3>1, <3>2 DEF Leads
    <3>3. CASE <<n, 0>> \in P /\ EntriesOf(g, L)[<<n, 0>>] = Packed(packNum)
      <4>1. <<n, 0>>[1] = n
        OBVIOUS
      <4>2. LastWritten(g, nb, n) /\ nb \in DOMAIN g /\ g[nb].num = packNum /\ n # packNum
        BY <1>24, <3>3, <4>1
      <4> QED
        BY <3>1, <3>3, <4>2 DEF Leads
    <3> QED
      BY <1>25, <3>1, <3>2, <3>3
  <2> QED
    BY <2>1 DEF Placed
<1>27. WellFormed(g)
  BY <1>14, <1>15, <1>16, <1>18, <1>21, <1>26 DEF WellFormed
<1>28. Spoken(g)
  <2>1. \A id \in DOMAIN es : Lists(g, L, id[1])
    BY <1>11, <1>13, IdFacts DEF Lists
  <2> QED
    BY <1>10, <1>11, <2>1 DEF Spoken
<1>29. ASSUME NEW id \in Ids
       PROVE  Meaning(g)[id] = IF id \in DOMAIN objects /\ objects[id].kind = "object"
                               THEN objects[id].value ELSE Nothing
  <2> DEFINE n == id[1]
  <2>1. id[2] = 0 => id = <<n, 0>>
    BY IdFacts
  <2>2. CASE id[2] # 0
    <3>1. id \notin DOMAIN objects
      BY <2>2, <1>3
    <3> QED
      BY <2>2, <3>1, <1>27, <1>28, MeaningOf
  <2>3. CASE id \in P
    <3>1. Lists(g, L, n) /\ id[2] = 0
      BY <2>3, <1>3, <1>5, <1>12
    <3>2. LastWritten(g, nb, n) /\ ValueAt(g, nb, n) = objects[id].value
      BY <2>3, <1>24 DEF ValueAt
    <3>3. Meaning(g)[id] = objects[id].value
      BY <3>1, <3>2, <1>17, <1>27, <1>28, MeaningOf
    <3> QED
      BY <2>3, <3>3, <1>5
  <2>4. CASE id \in D
    <3>1. PICK k \in 1..nb : g[k] = objects[id]
      BY <2>4, <1>1
    <3>7. id \in DOMAIN objects
      BY <2>4 DEF D
    <3>2. g[k].num = n /\ k \in DOMAIN g /\ id[2] = 0
      BY <3>1, <3>7, <1>a, <1>3
    <3>3. Lists(g, L, n)
      BY <3>2, <1>12
    <3>4. LastWritten(g, k, n)
      BY <3>2, <1>23
    <3>5. Meaning(g)[id] = ValueAt(g, k, n)
      BY <3>2, <3>3, <3>4, <1>17, <1>27, <1>28, MeaningOf
    <3>6. ValueAt(g, k, n) = IF objects[id].kind = "object" THEN objects[id].value ELSE Nothing
      BY <3>1, <3>2 DEF ValueAt
    <3> QED
      BY <3>5, <3>6, <3>7
  <2>5. CASE id[2] = 0 /\ id \notin DOMAIN objects
    <3>1. CASE ~Listed(g, n)
      BY <2>5, <3>1, <1>27, <1>28, MeaningOf
    <3>2. CASE Listed(g, n)
      <4>1. Lists(g, L, n) /\ <<n, 0>> \notin P
        BY <3>2, <2>1, <2>5, <1>5, <1>10 DEF Listed
      <4>2. PICK p \in DOMAIN g : g[p].num = n
        BY <4>1, <1>25
      <4>3. LastWritten(g, p, n)
        BY <4>2, <1>23
      <4>4. Meaning(g)[id] = ValueAt(g, p, n)
        BY <2>5, <3>2, <4>3, <1>27, <1>28, MeaningOf
      <4>5. g[p].kind # "object"
        <5>1. CASE p = L
          BY <5>1, <1>2
        <5>2. CASE p \in 1..nb
          <6>1. ~\E i \in D : g[p] = objects[i]
            BY <2>1, <2>5, <4>2, <1>3 DEF D
          <6>2. IsPack(g[p], objects, packNum)
            BY <5>2, <6>1, <1>1
          <6> QED
            BY <6>2 DEF IsPack
        <5> QED
          BY <5>1, <5>2, <1>8
      <4>6. ValueAt(g, p, n) = Nothing
        BY <4>2, <4>5 DEF ValueAt
      <4> QED
        BY <2>5, <4>4, <4>6
    <3> QED
      BY <3>1, <3>2
  <2>6. id \in D \/ id \in P \/ id \notin DOMAIN objects
    BY DEF D
  <2> QED
    BY <2>2, <2>3, <2>4, <2>5, <2>6
<1> QED
  BY <1>27, <1>28, <1>29

-----------------------------------------------------------------------------
(***************************************************************************)
(* An open document.                                                       *)
(***************************************************************************)

\* The entry e leads to the item w for n, and to no other place.
PointsTo(f, e, w, n) == IF f[w].num = n THEN e = Plain(w) ELSE e = Packed(f[w].num)

\* After repair: the ids of every revision, and the last place of each in use.
IndexedBy(f, x) ==
    /\ DOMAIN x = UNION {DOMAIN EntriesOf(f, q) : q \in Revisions(f)}
    /\ \A id \in DOMAIN x : id[2] # 0 => x[id] = Free
    /\ \A id \in DOMAIN x : id[2] = 0 =>
          \E w \in DOMAIN f : LastWritten(f, w, id[1]) /\ PointsTo(f, x[id], w, id[1])

Indexed == IndexedBy(base, xref)

\* And what an editor may have queued.
Opened ==
    /\ size = LastSize(base)
    /\ Indexed
    /\ forms \cup edits \subseteq object_ids
    /\ \A id \in forms \cup edits : Shown(id) \in Int

\* An open reader lists what the revisions list, in generation 0.
LEMMA OpenIds ==
    ASSUME WellFormed(base), Indexed
    PROVE  /\ \A id \in object_ids :
                 /\ id \in DOMAIN xref /\ id \in Ids /\ id[2] = 0 /\ id = <<id[1], 0>>
                 /\ id[1] \in Nat \ {0} /\ id[1] < LastSize(base) /\ Listed(base, id[1])
           /\ \A n : Listed(base, n) => <<n, 0>> \in object_ids
           /\ DOMAIN xref \subseteq Ids
<1>1. ASSUME NEW id \in DOMAIN xref
      PROVE  id \in Ids /\ (id[2] = 0 => id = <<id[1], 0>> /\ Listed(base, id[1]))
  <2>1. PICK q \in Revisions(base) : id \in DOMAIN EntriesOf(base, q)
    BY DEF Indexed, IndexedBy
  <2>2. id \in Ids
    BY <2>1, FileFacts, EntryFacts
  <2>3. ASSUME id[2] = 0 PROVE id = <<id[1], 0>>
    BY <2>2, <2>3, IdFacts
  <2> QED
    BY <2>1, <2>2, <2>3 DEF Listed, Lists
<1>2. ASSUME NEW id \in object_ids PROVE id \in DOMAIN xref /\ id[2] = 0
  BY DEF object_ids, Indexed, IndexedBy
<1>3. ASSUME NEW n, Listed(base, n) PROVE <<n, 0>> \in object_ids
  <2> DEFINE id == <<n, 0>>
  <2>1. id \in DOMAIN xref /\ id[2] = 0
    BY <1>3 DEF Indexed, IndexedBy, Listed, Lists
  <2>2. xref[id] # Free
    <3>1. PICK w \in DOMAIN base : PointsTo(base, xref[id], w, id[1])
      BY <2>1 DEF Indexed, IndexedBy
    <3> QED
      BY <3>1 DEF PointsTo, Free, Plain, Packed
  <2> QED
    BY <2>1, <2>2 DEF object_ids
<1>4. \A id \in object_ids : id \in Ids /\ id[2] = 0 /\ id = <<id[1], 0>> /\ Listed(base, id[1])
  BY <1>1, <1>2
<1>5. \A id \in object_ids : id[1] \in Nat \ {0} /\ id[1] < LastSize(base)
  BY <1>4, IdFacts, ListedBelow
<1> QED
  BY <1>1, <1>2, <1>3, <1>4, <1>5

\* What an id that is in use stands for: the item at the last place of its number.
LEMMA GetIs ==
    ASSUME WellFormed(base), Indexed, NEW id \in object_ids
    PROVE  \E w \in DOMAIN base :
              /\ LastWritten(base, w, id[1])
              /\ base[w].num = id[1] => Get(id) = {base[w]}
              /\ base[w].num # id[1] =>
                    /\ base[w].kind = "bundle" /\ id[1] \in DOMAIN base[w].value
                    /\ Get(id) = {Object(id[1], 0, base[w].value[id[1]])}
<1> DEFINE n == id[1]
<1>1. id \in DOMAIN xref /\ id[2] = 0 /\ id = <<n, 0>>
  BY OpenIds
<1>2. PICK w \in DOMAIN base : LastWritten(base, w, n) /\ PointsTo(base, xref[id], w, id[1])
  BY <1>1 DEF Indexed, IndexedBy
<1>3. \A q \in DOMAIN base : base[q].gen = 0 /\ At(base, q) = base[q]
  BY DEF WellFormed, Items, ItemOK, At
<1>4. ASSUME NEW i \in DOMAIN xref, i[2] = 0, NEW v \in DOMAIN base,
             xref[i] = Plain(v), base[v].num = i[1], i = <<i[1], 0>>
      PROVE  Direct(i) = {base[v]}
  <2>1. \A q : xref[i] = Plain(q) => q = v
    BY <1>4 DEF Plain
  <2>2. HeaderMatches(base, v, i)
    BY <1>3, <1>4 DEF HeaderMatches
  <2> QED
    BY <1>4, <2>1, <2>2 DEF Direct
<1>5. CASE base[w].num = n
  <2>1. xref[id] = Plain(w)
    BY <1>2, <1>5 DEF PointsTo
  <2>2. Direct(id) = {base[w]}
    BY <1>1, <1>4, <1>5, <2>1
  <2>3. InBundle(id) = {}
    BY <2>1 DEF InBundle, Plain
  <2>4. Get(id) = {base[w]}
    BY <2>2, <2>3 DEF Get
  <2> QED
    BY <1>2, <1>5, <2>4
<1>6. CASE base[w].num # n
  <2> DEFINE m == base[w].num
  <2>1. base[w].kind = "bundle" /\ n \in DOMAIN base[w].value
    BY <1>2, <1>6, WrittenIs DEF LastWritten, WellFormed
  <2>2. xref[id] = Packed(m)
    BY <1>2, <1>6 DEF PointsTo
  <2>3. Direct(id) = {}
    <3>1. \A q : xref[id] # Plain(q)
      BY <2>2 DEF Plain, Packed
    <3> QED
      BY <3>1 DEF Direct
  <2>4. <<m, 0>> \in object_ids
    <3>1. m # 0
      BY <2>1 DEF WellFormed, Items, ItemOK
    <3>2. Listed(base, m)
      BY <3>1 DEF WellFormed, Numbered
    <3> QED
      BY <3>2, OpenIds
  <2>5. <<m, 0>> \in DOMAIN xref /\ <<m, 0>>[1] = m /\ <<m, 0>>[2] = 0 /\ m # 0
    BY <2>4, OpenIds
  <2>6. PICK v \in DOMAIN base : LastWritten(base, v, m) /\ PointsTo(base, xref[<<m, 0>>], v, m)
    BY <2>5 DEF Indexed, IndexedBy
  <2>7. v = w
    <3>1. base[v].num = m \/ (base[v].kind = "bundle" /\ m \in DOMAIN base[v].value)
      BY <2>6, WrittenIs DEF LastWritten, WellFormed
    <3>2. ~(base[v].kind = "bundle" /\ m \in DOMAIN base[v].value)
      BY <2>1 DEF WellFormed, Unique
    <3> QED
      BY <2>1, <2>5, <3>1, <3>2 DEF WellFormed, Unique
  <2>8. xref[<<m, 0>>] = Plain(w)
    BY <2>5, <2>6, <2>7 DEF PointsTo
  <2>9. Direct(<<m, 0>>) = {base[w]}
    BY <1>4, <2>5, <2>8
  <2>10. InBundle(id) = {base[w]}
    <3>1. xref[id].type = "packed" /\ xref[id].to = m
      BY <2>2 DEF Packed
    <3> QED
      BY <1>1, <2>1, <2>9, <3>1 DEF InBundle
  <2>11. Get(id) = {Object(n, 0, base[w].value[n])}
    BY <1>1, <2>3, <2>10 DEF Get
  <2> QED
    BY <1>2, <1>6, <2>1, <2>11
<1> QED
  BY <1>5, <1>6

\* So what is shown is the version at that place.
LEMMA ShownIs ==
    ASSUME WellFormed(base), Indexed, NEW id \in object_ids
    PROVE  \E w \in DOMAIN base : /\ LastWritten(base, w, id[1])
                                  /\ Shown(id) = ValueAt(base, w, id[1])
                                  /\ Shown(id) \in Int \cup {Stream, Nothing}
<1> DEFINE n == id[1]
<1>1. PICK w \in DOMAIN base :
              /\ LastWritten(base, w, id[1])
              /\ base[w].num = id[1] => Get(id) = {base[w]}
              /\ base[w].num # id[1] =>
                    /\ base[w].kind = "bundle" /\ id[1] \in DOMAIN base[w].value
                    /\ Get(id) = {Object(id[1], 0, base[w].value[id[1]])}
  BY GetIs
<1>2. ASSUME NEW o, Get(id) = {o}
      PROVE  Shown(id) = IF o.kind = "object" THEN o.value ELSE Nothing
  <2>1. (CHOOSE a \in Get(id) : TRUE) = o
    BY <1>2
  <2> QED
    BY <1>2, <2>1 DEF Shown
<1>3. ItemOK(base[w])
  BY DEF WellFormed, Items
<1>4. LastWritten(base, w, id[1])
  BY <1>1
<1>5. CASE base[w].num = n
  <2>1. Shown(id) = IF base[w].kind = "object" THEN base[w].value ELSE Nothing
    BY <1>1, <1>2, <1>5
  <2>2. Shown(id) = ValueAt(base, w, n)
    BY <1>5, <2>1 DEF ValueAt
  <2>3. Shown(id) \in Int \cup {Stream, Nothing}
    BY <1>3, <2>1 DEF ItemOK
  <2> QED
    BY <1>4, <2>2, <2>3
<1>6. CASE base[w].num # n
  <2>1. Shown(id) = base[w].value[n]
    <3> DEFINE o == Object(n, 0, base[w].value[n])
    <3>1. Get(id) = {o} /\ o.kind = "object" /\ o.value = base[w].value[n]
      BY <1>1, <1>6 DEF Object
    <3> HIDE DEF o
    <3> QED
      BY <1>2, <3>1
  <2> QED
    BY <1>1, <1>3, <1>4, <1>6, <2>1 DEF ValueAt, ItemOK
<1> QED
  BY <1>5, <1>6

\* What is not listed is not shown.
LEMMA NotShown ==
    ASSUME NEW id, id \notin object_ids
    PROVE  Shown(id) = Nothing
<1>1. Direct(id) = {}
  <2>1. \A q : Plain(q) # Free
    BY DEF Plain, Free
  <2> QED
    BY <2>1 DEF Direct, object_ids
<1>2. InBundle(id) = {}
  BY DEF InBundle, object_ids, Free
<1>3. Get(id) = {}
  BY <1>1, <1>2 DEF Get
<1> QED
  BY <1>3 DEF Shown

\* An open reader shows what the file it was opened on means.
LEMMA ShownMeans ==
    ASSUME WellFormed(base), Indexed, Spoken(base), NEW id \in Ids
    PROVE  Shown(id) = Meaning(base)[id]
<1>1. CASE id \in object_ids
  <2>1. PICK w \in DOMAIN base : LastWritten(base, w, id[1]) /\ Shown(id) = ValueAt(base, w, id[1])
    BY <1>1, ShownIs
  <2>2. id[2] = 0 /\ Listed(base, id[1])
    BY <1>1, OpenIds
  <2> QED
    BY <2>1, <2>2, MeaningOf
<1>2. CASE id \notin object_ids
  <2>1. id[2] # 0 \/ ~Listed(base, id[1])
    <3>1. id[2] = 0 => id = <<id[1], 0>>
      BY IdFacts
    <3> QED
      BY <1>2, <3>1, OpenIds
  <2>2. Shown(id) = Nothing
    BY <1>2, NotShown
  <2> QED
    BY <2>1, <2>2, MeaningOf
<1> QED
  BY <1>1, <1>2

\* The items of an object that an editor can change are versions of it.
LEMMA EditableHasVersions ==
    ASSUME WellFormed(base), Indexed, NEW id \in object_ids, Shown(id) \in Int
    PROVE  \A q \in DOMAIN base : base[q].num = id[1] => base[q].kind = "object" /\ base[q].value \in Int
<1> DEFINE n == id[1]
<1>1. PICK w \in DOMAIN base : LastWritten(base, w, n) /\ Shown(id) = ValueAt(base, w, n)
  BY ShownIs
<1>2. Nothing \notin Int /\ Stream \notin Int
  BY RevisionAssumption
<1>3. n # 0
  BY OpenIds
<1>4. base[w].num = n \/ (base[w].kind = "bundle" /\ n \in DOMAIN base[w].value)
  BY <1>1, WrittenIs DEF LastWritten, WellFormed
<1>5. ASSUME NEW q \in DOMAIN base, base[q].num = n
      PROVE  base[q].kind = "object" /\ base[q].value \in Int
  <2>1. CASE base[w].num = n
    <3>1. base[w].kind = "object" /\ base[w].value \in Int
      BY <1>1, <1>2, <2>1 DEF ValueAt
    <3>2. base[q].kind = "object" /\ base[q].value # Stream
      BY <1>2, <1>3, <1>5, <2>1, <3>1 DEF WellFormed, Unique
    <3> QED
      BY <3>2 DEF WellFormed, Items, ItemOK
  <2>2. CASE base[w].kind = "bundle" /\ n \in DOMAIN base[w].value
    BY <1>5, <2>2 DEF WellFormed, Unique
  <2> QED
    BY <1>4, <2>1, <2>2
<1> QED
  BY <1>5

\* The number the editor starts from is the /Size it read.
LEMMA NextFreeIs ==
    ASSUME WellFormed(base), Indexed, size = LastSize(base)
    PROVE  next_free_object_number = LastSize(base) /\ LastSize(base) \in 1..(MaxNumber + 1)
<1> DEFINE N == {id[1] : id \in object_ids} \cup {size - 1}
<1>1. LastSize(base) \in 1..(MaxNumber + 1) /\ LastSize(base) \in Int
  BY IdFacts DEF WellFormed, Chain
<1>2. ASSUME NEW n \in N PROVE n \in Int /\ n <= size - 1
  BY <1>1, OpenIds
<1>3. Max(N) = size - 1
  <2>1. N \subseteq Int /\ size - 1 \in N
    BY <1>2
  <2> HIDE DEF N
  <2> QED
    BY <1>2, <2>1, GreatestIs
<1> HIDE DEF N
<1>4. next_free_object_number = Max(N) + 1
  BY DEF next_free_object_number, N
<1> QED
  BY <1>1, <1>3, <1>4

-----------------------------------------------------------------------------
(***************************************************************************)
(* Saving: the change set, and the two ways of writing it.                 *)
(***************************************************************************)

\* The change set: each queued object once, with all its edits, and the numbers
\* S for the content streams, one for each page.
Built(changes, S) ==
    /\ DOMAIN changes = forms \cup edits \cup S
    /\ IsFiniteSet(DOMAIN changes) /\ Cardinality(S) = Cardinality(edits)
    /\ \A id \in S : /\ id[1] \in Nat /\ id[2] = 0 /\ id = <<id[1], 0>>
                     /\ LastSize(base) <= id[1] /\ id[1] < LastSize(base) + Cardinality(edits)
                     /\ changes[id] = Stream
    /\ \A id \in forms \cup edits : changes[id] = Shown(id) + Queued(id)

\* The queued edits can be counted.
LEMMA QueuedAreFinite ==
    ASSUME WellFormed(base), Opened
    PROVE  IsFiniteSet(forms) /\ IsFiniteSet(edits) /\ Cardinality(edits) \in Nat
<1>1. forms \in SUBSET Ids /\ edits \in SUBSET Ids
  BY OpenIds DEF Opened
<1> QED
  BY <1>1, IdsAreFinite, FS_Subset, FS_CardinalityType

\* Consecutive numbers are as many identifiers.
LEMMA FreshNumbers ==
    ASSUME NEW n \in Nat, NEW c \in Nat, NEW S, S = {<<n + k, 0>> : k \in 0..(c - 1)}
    PROVE  IsFiniteSet(S) /\ Cardinality(S) = c
<1> DEFINE T == 0..(c - 1)
<1> DEFINE M == [k \in T |-> <<n + k, 0>>]
<1>1. IsFiniteSet(T) /\ Cardinality(T) = c
  BY FS_Interval
<1>2. M \in Injection(T, S)
  <2>1. M \in [T -> S]
    OBVIOUS
  <2>2. ASSUME NEW a \in T, NEW b \in T, M[a] = M[b] PROVE a = b
    <3>1. n + a = n + b
      BY <2>2
    <3> QED
      BY <3>1
  <2> HIDE DEF M, T
  <2> QED
    BY <2>1, <2>2, Fun_IsInj
<1>3. M \in Surjection(T, S)
  <2>1. M \in [T -> S]
    OBVIOUS
  <2>2. \A s \in S : \E k \in T : M[k] = s
    OBVIOUS
  <2> HIDE DEF M, T
  <2> QED
    BY <2>1, <2>2 DEF Surjection
<1> HIDE DEF M, T
<1>4. IsFiniteSet(S) /\ Cardinality(S) = Cardinality(T)
  BY <1>1, <1>2, <1>3, FS_Surjection
<1> QED
  BY <1>1, <1>4

\* The change set holds the queued edits and one new stream for each page.
LEMMA BuildIs ==
    ASSUME WellFormed(base), Opened
    PROVE  \E S : Built(build_changes, S)
<1> DEFINE sz == LastSize(base)
<1> DEFINE c == Cardinality(edits)
<1> DEFINE filled == [id \in forms |-> Shown(id) + 1]
<1> DEFINE paged == [id \in edits |-> current_object(filled, id) + 1]
<1> DEFINE S == {<<next_free_object_number + k, 0>> : k \in 0..(c - 1)}
<1> DEFINE streams == [id \in S |-> Stream]
<1>1. sz \in Nat /\ next_free_object_number = sz
  BY NextFreeIs, IdFacts DEF Opened
<1>2. c \in Nat /\ IsFiniteSet(forms) /\ IsFiniteSet(edits)
  BY QueuedAreFinite
<1>3. build_changes = OrInsert(OrInsert(streams, paged), filled)
  BY DEF build_changes
<1>4. S = {<<sz + k, 0>> : k \in 0..(c - 1)}
  BY <1>1
<1>5. ASSUME NEW id \in S
      PROVE  /\ id[1] \in Nat /\ id[2] = 0 /\ id = <<id[1], 0>>
             /\ sz <= id[1] /\ id[1] < sz + c
  <2>1. PICK k \in 0..(c - 1) : id = <<sz + k, 0>>
    BY <1>4
  <2> HIDE DEF sz, c, S
  <2> QED
    BY <1>1, <1>2, <2>1
<1>6. IsFiniteSet(S) /\ Cardinality(S) = c
  <2> HIDE DEF sz, c, S
  <2> QED
    BY <1>1, <1>2, <1>4, FreshNumbers
<1>7. \A id \in forms \cup edits : id \notin S /\ Shown(id) \in Int
  <2>1. \A id \in forms \cup edits : id[1] \in Nat /\ id[1] < sz /\ Shown(id) \in Int
    BY OpenIds DEF Opened
  <2> HIDE DEF sz, S
  <2> QED
    BY <1>1, <1>5, <2>1
<1>8. DOMAIN build_changes = forms \cup edits \cup S
  <2> HIDE DEF S
  <2> QED
    BY <1>3 DEF OrInsert
<1>9. IsFiniteSet(DOMAIN build_changes)
  <2> HIDE DEF S
  <2>1. IsFiniteSet(forms \cup edits)
    BY <1>2, FS_Union
  <2> QED
    BY <1>6, <1>8, <2>1, FS_Union
<1> DEFINE both == OrInsert(streams, paged)
<1>10. /\ DOMAIN both = S \cup edits /\ \A id \in S : both[id] = Stream
       /\ \A id \in edits : id \notin S => both[id] = current_object(filled, id) + 1
  <2> HIDE DEF S, filled
  <2> QED
    BY DEF OrInsert
<1>11. \A id \in DOMAIN both : build_changes[id] = both[id]
  <2> HIDE DEF both, filled
  <2> QED
    BY <1>3 DEF both, OrInsert
<1>12. ASSUME NEW id \in S PROVE build_changes[id] = Stream
  <2> HIDE DEF both, S
  <2> QED
    BY <1>10, <1>11
<1>13. ASSUME NEW id \in edits PROVE build_changes[id] = Shown(id) + Queued(id)
  <2>1. id \notin S /\ Shown(id) \in Int
    BY <1>7
  <2>2. build_changes[id] = current_object(filled, id) + 1
    <3> HIDE DEF both, S, filled
    <3> QED
      BY <1>10, <1>11, <2>1
  <2>3. current_object(filled, id) = IF id \in forms THEN Shown(id) + 1 ELSE Shown(id)
    BY DEF current_object
  <2> HIDE DEF filled, both, S
  <2>4. Queued(id) = IF id \in forms THEN 2 ELSE 1
    BY DEF Queued
  <2> QED
    BY <2>1, <2>2, <2>3, <2>4
<1>14. ASSUME NEW id \in forms, id \notin edits PROVE build_changes[id] = Shown(id) + Queued(id)
  <2>1. id \notin DOMAIN both
    <3> HIDE DEF both, S
    <3> QED
      BY <1>7, <1>10, <1>14
  <2>2. build_changes[id] = filled[id]
    <3>1. DOMAIN filled = forms
      OBVIOUS
    <3> HIDE DEF filled, both
    <3> QED
      BY <1>3, <2>1, <3>1 DEF both, OrInsert
  <2>3. filled[id] = Shown(id) + 1
    OBVIOUS
  <2> HIDE DEF filled, both, S
  <2>4. Queued(id) = 1
    BY <1>14 DEF Queued
  <2> QED
    BY <2>2, <2>3, <2>4
<1>15. Built(build_changes, S)
  <2> HIDE DEF S, filled, both
  <2> QED
    BY <1>5, <1>6, <1>8, <1>9, <1>12, <1>13, <1>14 DEF Built
<1> QED
  BY <1>15

\* The values of a change set, and where its numbers can lie.
LEMMA BuiltFacts ==
    ASSUME WellFormed(base), Opened, NEW C, NEW S, Built(C, S), NEW id \in DOMAIN C
    PROVE  /\ id[1] \in Nat \ {0} /\ id[2] = 0 /\ id = <<id[1], 0>>
           /\ C[id] \in Int \cup {Stream}
           /\ id[1] < LastSize(base) + Cardinality(edits)
           /\ \/ id \in object_ids /\ Shown(id) \in Int /\ C[id] \in Int /\ id[1] < LastSize(base)
              \/ id \notin object_ids /\ id \in S /\ LastSize(base) <= id[1] /\ C[id] = Stream
<1>1. LastSize(base) \in Nat \ {0} /\ Cardinality(edits) \in Nat
  BY NextFreeIs, QueuedAreFinite DEF Opened
<1>2. CASE id \in forms \cup edits
  <2>1. id \in object_ids /\ Shown(id) \in Int
    BY <1>2 DEF Opened
  <2>2. id[1] \in Nat \ {0} /\ id[2] = 0 /\ id = <<id[1], 0>> /\ id[1] < LastSize(base)
    BY <2>1, OpenIds DEF Opened
  <2>3. C[id] = Shown(id) + Queued(id) /\ Queued(id) \in Int
    BY <1>2 DEF Built, Queued
  <2> QED
    BY <1>1, <2>1, <2>2, <2>3
<1>3. CASE id \in S
  <2>1. /\ id[1] \in Nat /\ id[2] = 0 /\ id = <<id[1], 0>> /\ C[id] = Stream
        /\ LastSize(base) <= id[1] /\ id[1] < LastSize(base) + Cardinality(edits)
    BY <1>3 DEF Built
  <2>2. id \notin object_ids
    <3>1. id \in object_ids => id[1] < LastSize(base)
      BY OpenIds DEF Opened
    <3> QED
      BY <1>1, <2>1, <3>1
  <2> QED
    BY <1>1, <1>3, <2>1, <2>2
<1> QED
  BY <1>2, <1>3 DEF Built

\* The file g means what was opened, with the changes C.
Saved(g, C) ==
    \A id \in Ids : Meaning(g)[id] = IF id \in DOMAIN C THEN C[id] ELSE Shown(id)

\* /Size of an incremental save.
LEMMA AppendedSize ==
    ASSUME NEW f, f \in Seq(Elements(f)), NEW ids, Len(ids) \in Nat, NEW objs, NEW sz,
           NEW g, g = Appended(f, ids, objs, sz)
    PROVE  g[Len(g)].size = sz
<1> DEFINE body == [k \in 1..Len(ids) |-> Object(ids[k][1], ids[k][2], objs[ids[k]])]
<1> DEFINE at == [id \in DOMAIN objs |-> Plain(Len(f) + CHOOSE k \in 1..Len(ids) : ids[k] = id)]
<1> DEFINE table == Section(0, at, StartXref(f), 0, sz)
<1> DEFINE h == f \o body
<1>1. g = h \o <<table>>
  BY DEF Appended
<1>2. table.size = sz
  BY DEF Section
<1>3. body \in Seq(Elements(body))
  <2>1. body = [k \in 1..Len(ids) |-> body[k]]
    OBVIOUS
  <2> HIDE DEF body
  <2> QED
    BY <2>1, FunctionIsSeq
<1> HIDE DEF body, table
<1>4. h \in Seq(Elements(h))
  BY <1>3, Joined
<1> HIDE DEF h
<1>5. g = Append(h, table)
  BY <1>1, <1>4, OneJoined
<1>6. Len(g) = Len(h) + 1
  BY <1>4, <1>5, Added
<1>7. g[Len(h) + 1] = table
  BY <1>4, <1>5, Added
<1> QED
  BY <1>2, <1>6, <1>7

\* An incremental update keeps the file well formed and saves the changes.
LEMMA IncrementalIs ==
    ASSUME WellFormed(base), Opened, NEW C, NEW S, Built(C, S), NEW g, g = Incremental(base, C),
           Len(g) <= MaxItems, g[Len(g)].size <= MaxNumber + 1
    PROVE  /\ WellFormed(g) /\ DOMAIN C \subseteq Ids
           /\ Spoken(base) => Spoken(g) /\ Saved(g, C)
<1>1. CASE DOMAIN C = {}
  <2>1. g = base
    BY <1>1 DEF Incremental
  <2> QED
    BY <1>1, <2>1, ShownMeans DEF Saved, Opened
<1>2. CASE DOMAIN C # {}
  <2> DEFINE sz == NewSize(C)
  <2> DEFINE N == {size} \cup {id[1] + 1 : id \in DOMAIN C}
  <2> DEFINE bound == LastSize(base) + Cardinality(edits)
  <2>1. /\ LastSize(base) \in Nat /\ LastSize(base) >= 1 /\ bound \in Int
        /\ LastSize(base) <= bound /\ size = LastSize(base)
    BY NextFreeIs, QueuedAreFinite DEF Opened
  <2>2. \A id \in DOMAIN C : id[1] \in Nat \ {0} /\ id[1] < bound
    BY BuiltFacts
  <2>3. sz \in N /\ \A n \in N : n <= sz
    <3>1. N \subseteq Int /\ N # {} /\ \A n \in N : n <= bound
      BY <2>1, <2>2
    <3> HIDE DEF N, bound
    <3> QED
      BY <2>1, <3>1, GreatestExists DEF NewSize, N
  <2>4. sz \in Int /\ LastSize(base) <= sz /\ \A id \in DOMAIN C : id[1] < sz
    <3>1. sz \in Int
      BY <2>1, <2>2, <2>3
    <3>2. \A id \in DOMAIN C : id[1] + 1 \in N
      OBVIOUS
    <3>3. size \in N
      OBVIOUS
    <3> HIDE DEF N, sz
    <3> QED
      BY <2>1, <2>2, <2>3, <3>1, <3>2, <3>3
  <2>5. g = Appended(base, Sorted(DOMAIN C), C, sz)
    BY <1>2 DEF Incremental
  <2> HIDE DEF sz, N, bound
  <2>6. g[Len(g)].size = sz
    <3>1. base \in Seq(Elements(base))
      BY DEF WellFormed, Items
    <3>2. Cardinality(DOMAIN C) \in Nat
      BY FS_CardinalityType DEF Built
    <3>3. Len(Sorted(DOMAIN C)) \in Nat
      <4> DEFINE s == Sorted(DOMAIN C)
      <4> DEFINE at(k) == CHOOSE id \in DOMAIN C :
                            Cardinality({a \in DOMAIN C : Before(a, id)}) = k - 1
      <4>1. s = [k \in 1..Cardinality(DOMAIN C) |-> at(k)]
        BY DEF Sorted
      <4> HIDE DEF at
      <4>2. s = [k \in 1..Cardinality(DOMAIN C) |-> s[k]]
        BY <4>1
      <4> HIDE DEF s
      <4>3. Len(s) \in Nat
        BY <3>2, <4>2, FunctionIsSeq
      <4> QED
        BY <4>3 DEF s
    <3> QED
      BY <2>5, <3>1, <3>3, AppendedSize
  <2>7. ASSUME NEW id \in DOMAIN C PROVE id \in Ids
    <3>1. id[1] \in Nat \ {0} /\ id = <<id[1], 0>> /\ id[1] < sz /\ sz <= MaxNumber + 1
      BY <2>4, <2>6, BuiltFacts
    <3>2. id[1] \in Numbers
      BY <2>4, <3>1, IdFacts
    <3> QED
      BY <3>1, <3>2, IdFacts
  <2>8. Enumerates(Sorted(DOMAIN C), DOMAIN C)
    BY <2>7, SortedEnumerates
  <2>9. Suited(base, C, sz)
    <3>1. sz \in LastSize(base)..(MaxNumber + 1)
      BY <2>1, <2>4, <2>6, IdFacts
    <3>2. ASSUME NEW id \in DOMAIN C, NEW q \in DOMAIN base
          PROVE  /\ base[q].num = id[1] =>
                      base[q].kind = "object" /\ (base[q].value = Stream <=> C[id] = Stream)
                 /\ base[q].kind = "bundle" /\ id[1] \in DOMAIN base[q].value => C[id] \in Int
      <4>1. CASE id \in object_ids /\ Shown(id) \in Int /\ C[id] \in Int
        <5>1. base[q].num = id[1] => base[q].kind = "object" /\ base[q].value \in Int
          BY <4>1, EditableHasVersions DEF Opened
        <5>2. Stream \notin Int
          BY RevisionAssumption
        <5> QED
          BY <4>1, <5>1, <5>2
      <4>2. CASE LastSize(base) <= id[1]
        <5>1. id[1] \in Nat /\ base[q].num < LastSize(base) /\ base[q].num \in Nat
          BY <2>2 DEF WellFormed, Numbered, Items, ItemOK
        <5>2. base[q].kind = "bundle" => id[1] \notin DOMAIN base[q].value
          BY <2>1, <2>2, <4>2 DEF WellFormed, Numbered
        <5> QED
          BY <2>1, <4>2, <5>1, <5>2
      <4> QED
        BY <4>1, <4>2, BuiltFacts
    <3> QED
      BY <2>4, <2>7, <3>1, <3>2, BuiltFacts DEF Suited
  <2>10. Lays(base, g, Sorted(DOMAIN C), C, sz)
    BY <2>5, <2>8, AppendedLays
  <2>11. /\ WellFormed(g)
         /\ Spoken(base) => /\ Spoken(g)
                            /\ \A id \in Ids : Meaning(g)[id] =
                                  IF id \in DOMAIN C THEN C[id] ELSE Meaning(base)[id]
    BY <2>8, <2>9, <2>10, LaysMeans
  <2>12. Spoken(base) => Saved(g, C)
    BY <2>11, ShownMeans DEF Saved, Opened
  <2> QED
    BY <2>7, <2>11, <2>12
<1> QED
  BY <1>1, <1>2

\* What the rewrite collects for an id that the editor did not change.
Old(id) == CHOOSE o \in Get(id) : TRUE

\* What a rewrite finds of a listed object is what lies at its last place.
LEMMA OldIs ==
    ASSUME WellFormed(base), Indexed, NEW id \in object_ids
    PROVE  /\ Get(id) = {Old(id)} /\ ItemOK(Old(id)) /\ Old(id).num = id[1]
           /\ Shown(id) = IF Old(id).kind = "object" THEN Old(id).value ELSE Nothing
           /\ \/ \E w \in DOMAIN base : base[w].num = id[1] /\ Old(id) = base[w]
              \/ Old(id).kind = "object" /\ Old(id).value \in Int
<1> DEFINE n == id[1]
<1>1. PICK w \in DOMAIN base :
              /\ LastWritten(base, w, id[1])
              /\ base[w].num = id[1] => Get(id) = {base[w]}
              /\ base[w].num # id[1] =>
                    /\ base[w].kind = "bundle" /\ id[1] \in DOMAIN base[w].value
                    /\ Get(id) = {Object(id[1], 0, base[w].value[id[1]])}
  BY GetIs
<1>2. ItemOK(base[w]) /\ n \in Nat \ {0}
  BY OpenIds DEF WellFormed, Items
<1>3. ASSUME NEW o, Get(id) = {o}
      PROVE  Old(id) = o /\ Shown(id) = IF o.kind = "object" THEN o.value ELSE Nothing
  BY <1>3 DEF Old, Shown
<1>4. CASE base[w].num = n
  <2>1. Get(id) = {base[w]}
    BY <1>1, <1>4
  <2>2. Old(id) = base[w]
    BY <1>3, <2>1
  <2>3. Shown(id) = IF base[w].kind = "object" THEN base[w].value ELSE Nothing
    BY <1>3, <2>1
  <2> QED
    BY <1>2, <1>4, <2>1, <2>2, <2>3
<1>5. CASE base[w].num # n
  <2> DEFINE o == Object(n, 0, base[w].value[n])
  <2>1. Get(id) = {o}
    BY <1>1, <1>5
  <2>2. base[w].value[n] \in Int
    BY <1>1, <1>2, <1>5 DEF ItemOK
  <2>3. ItemOK(o)
    BY <1>2, <2>2 DEF Object, ItemOK
  <2>4. o.kind = "object" /\ o.num = n /\ o.value \in Int
    BY <2>2 DEF Object
  <2> HIDE DEF o
  <2>5. Old(id) = o
    BY <1>3, <2>1
  <2>6. Shown(id) = IF o.kind = "object" THEN o.value ELSE Nothing
    BY <1>3, <2>1
  <2> QED
    BY <2>1, <2>3, <2>4, <2>5, <2>6
<1> QED
  BY <1>4, <1>5

\* The collection, id by id.
CollectedFacts(O, C) ==
    /\ DOMAIN O = DOMAIN C \cup {id \in object_ids : Old(id).kind # "section"}
    /\ \A id \in DOMAIN C : O[id] = Object(id[1], 0, C[id])
    /\ \A id \in object_ids : id \notin DOMAIN C /\ Old(id).kind # "section" => O[id] = Old(id)

\* A rewrite collects the changes, and else what it finds.
LEMMA CollectedIs ==
    ASSUME NEW C
    PROVE  CollectedFacts(Collected(C), C)
<1> DEFINE old == [id \in object_ids |-> Old(id)]
<1> DEFINE kept == [id \in {i \in object_ids : old[i].kind # "section"} |-> old[id]]
<1> DEFINE new == [id \in DOMAIN C |-> Object(id[1], 0, C[id])]
<1>1. Collected(C) = OrInsert(new, kept)
  BY DEF Collected, Old
<1>2. DOMAIN kept = {id \in object_ids : Old(id).kind # "section"}
  OBVIOUS
<1>3. \A id \in DOMAIN kept : kept[id] = Old(id)
  OBVIOUS
<1>4. DOMAIN new = DOMAIN C /\ \A id \in DOMAIN C : new[id] = Object(id[1], 0, C[id])
  OBVIOUS
<1> HIDE DEF new, kept
<1>5. /\ DOMAIN Collected(C) = DOMAIN new \cup DOMAIN kept
      /\ \A id \in DOMAIN new : Collected(C)[id] = new[id]
      /\ \A id \in DOMAIN kept : id \notin DOMAIN new => Collected(C)[id] = kept[id]
  BY <1>1 DEF OrInsert
<1> QED
  BY <1>2, <1>3, <1>4, <1>5 DEF CollectedFacts

\* A rewritten file is limited by its /Size.
LEMMA RewriteSize ==
    ASSUME NEW O, IsFiniteSet(DOMAIN O), DOMAIN O # {}, NEW bound \in Int,
           \A id \in DOMAIN O : id[1] \in Nat /\ id[1] <= bound,
           NEW g, g = FullRewrite(O), g[Len(g)].size <= MaxNumber + 1
    PROVE  \A id \in DOMAIN O : id[1] <= MaxNumber
<1> DEFINE packable == Packable(O)
<1> DEFINE D == DOMAIN O \ packable
<1> DEFINE direct == Sorted(D)
<1> DEFINE N == {id[1] : id \in DOMAIN O}
<1> DEFINE packNum == Max(N) + 1
<1> DEFINE members == [n \in {id[1] : id \in packable} |-> O[<<n, 0>>].value]
<1> DEFINE s == [k \in 1..Len(direct) |-> O[direct[k]]]
<1> DEFINE t == IF packable = {} THEN <<>> ELSE <<Bundle(packNum, members)>>
<1> DEFINE body == s \o t
<1> DEFINE xrefNum == IF packable = {} THEN packNum ELSE packNum + 1
<1> DEFINE at == [id \in {<<body[k].num, 0>> : k \in 1..Len(body)} |->
                    Plain(CHOOSE k \in 1..Len(body) : body[k].num = id[1])]
<1> DEFINE packed == [id \in packable |-> Packed(packNum)]
<1> DEFINE own == [id \in {<<xrefNum, 0>>} |-> Plain(Len(body) + 1)]
<1> DEFINE es == OrInsert(OrInsert(at, packed), own)
<1> DEFINE last == Section(xrefNum, es, 0, 0, xrefNum + 1)
<1>1. g = Append(body, last)
  BY DEF FullRewrite, Packable
<1>2. last.size = xrefNum + 1
  BY DEF Section
<1>3. Max(N) \in Nat /\ \A id \in DOMAIN O : id[1] <= Max(N)
  <2>1. N \subseteq Nat /\ N \subseteq Int /\ N # {} /\ \A n \in N : n <= bound
    OBVIOUS
  <2>2. \A id \in DOMAIN O : id[1] \in N
    OBVIOUS
  <2> HIDE DEF N
  <2>3. Max(N) \in N /\ \A n \in N : n <= Max(N)
    BY <2>1, GreatestExists
  <2> QED
    BY <2>1, <2>2, <2>3
<1>4. Max(N) + 1 <= xrefNum
  <2> HIDE DEF N, packable
  <2> QED
    BY <1>3
<1>5. Len(direct) \in Nat
  <2>1. IsFiniteSet(D)
    <3>1. D \in SUBSET DOMAIN O
      OBVIOUS
    <3> HIDE DEF D
    <3> QED
      BY <3>1, FS_Subset
  <2> HIDE DEF D
  <2>2. Cardinality(D) \in Nat
    BY <2>1, FS_CardinalityType
  <2> DEFINE nth(k) == CHOOSE id \in D : Cardinality({a \in D : Before(a, id)}) = k - 1
  <2>3. direct = [k \in 1..Cardinality(D) |-> nth(k)]
    BY DEF Sorted
  <2> HIDE DEF nth, direct
  <2>4. direct = [k \in 1..Cardinality(D) |-> direct[k]]
    BY <2>3
  <2> QED
    BY <2>2, <2>4, FunctionIsSeq
<1>6. s \in Seq(Elements(s))
  <2>1. s = [k \in 1..Len(direct) |-> s[k]]
    OBVIOUS
  <2> HIDE DEF s, direct
  <2> QED
    BY <1>5, <2>1, FunctionIsSeq
<1>7. t \in Seq(Elements(t))
  <2> DEFINE b == Bundle(packNum, members)
  <2> HIDE DEF packNum, members, packable, b
  <2>1. t = [k \in 1..(IF packable = {} THEN 0 ELSE 1) |-> t[k]]
    BY DEF b
  <2> HIDE DEF t
  <2> QED
    BY <2>1, FunctionIsSeq
<1> HIDE DEF s, t, last
<1>8. body \in Seq(Elements(body))
  BY <1>6, <1>7, Joined
<1> HIDE DEF body
<1>9. Len(g) = Len(body) + 1
  BY <1>1, <1>8, Added
<1>10. g[Len(body) + 1] = last
  BY <1>1, <1>8, Added
<1>11. xrefNum + 1 <= MaxNumber + 1
  BY <1>2, <1>9, <1>10
<1>12. xrefNum \in Int
  <2> HIDE DEF N, packable
  <2> QED
    BY <1>3
<1> HIDE DEF xrefNum, N
<1> QED
  BY <1>3, <1>4, <1>11, <1>12, IdFacts

\* A full rewrite is a well-formed file that has the changes saved.
LEMMA RewrittenIs ==
    ASSUME WellFormed(base), Opened, NEW C, NEW S, Built(C, S),
           NEW g, g = FullRewrite(Collected(C)),
           Len(g) <= MaxItems, g[Len(g)].size <= MaxNumber + 1
    PROVE  WellFormed(g) /\ DOMAIN C \subseteq Ids /\ Spoken(g) /\ Saved(g, C)
<1> DEFINE O == Collected(C)
<1> DEFINE kept == {id \in object_ids : Old(id).kind # "section"}
<1>1. CollectedFacts(O, C)
  BY CollectedIs
<1>2. g = FullRewrite(O)
  OBVIOUS
<1> HIDE DEF O
<1>3. /\ DOMAIN O = DOMAIN C \cup kept
      /\ \A id \in DOMAIN C : O[id] = Object(id[1], 0, C[id])
      /\ \A id \in object_ids : id \notin DOMAIN C /\ Old(id).kind # "section" => O[id] = Old(id)
  BY <1>1 DEF CollectedFacts
<1>4. Indexed /\ Stream \notin Int /\ Nothing \notin Int
  BY RevisionAssumption DEF Opened
<1>5. ASSUME NEW id \in DOMAIN C
      PROVE  O[id].kind = "object" /\ O[id].num = id[1] /\ O[id].value = C[id] /\ ItemOK(O[id])
  <2>1. O[id] = Object(id[1], 0, C[id])
    BY <1>3
  <2>2. id[1] \in Nat \ {0} /\ C[id] \in Int \cup {Stream}
    BY BuiltFacts
  <2> QED
    BY <2>1, <2>2 DEF Object, ItemOK
<1>6. ASSUME NEW id \in kept, id \notin DOMAIN C PROVE O[id] = Old(id)
  BY <1>3, <1>6
<1>7. DOMAIN O # {}
  <2>1. PICK p \in DOMAIN base : base[p].kind # "section"
    BY DEF WellFormed, Peopled
  <2> DEFINE n == base[p].num
  <2>2. n # 0 /\ Listed(base, n)
    BY <2>1 DEF WellFormed, Items, ItemOK, Numbered
  <2>3. <<n, 0>> \in object_ids
    BY <1>4, <2>2, OpenIds
  <2>4. Old(<<n, 0>>).kind # "section"
    <3>1. \/ \E w \in DOMAIN base : base[w].num = <<n, 0>>[1] /\ Old(<<n, 0>>) = base[w]
          \/ Old(<<n, 0>>).kind = "object"
      BY <1>4, <2>3, OldIs
    <3>2. \A w \in DOMAIN base : base[w].num = n => base[w].kind = base[p].kind
      BY <2>1, <2>2 DEF WellFormed, Unique
    <3> QED
      BY <2>1, <3>1, <3>2
  <2> QED
    BY <1>3, <2>3, <2>4
<1> DEFINE bound == LastSize(base) + Cardinality(edits)
<1>8. LastSize(base) \in Nat /\ Cardinality(edits) \in Nat
  BY <1>4, NextFreeIs, QueuedAreFinite DEF Opened
<1>9. ASSUME NEW id \in DOMAIN O
      PROVE  id[1] \in Nat \ {0} /\ id[2] = 0 /\ id = <<id[1], 0>> /\ id[1] <= bound
  <2>1. CASE id \in DOMAIN C
    BY <1>8, <2>1, BuiltFacts
  <2>2. CASE id \in object_ids
    BY <1>4, <1>8, <2>2, OpenIds
  <2> QED
    BY <1>3, <2>1, <2>2
<1>10. IsFiniteSet(DOMAIN O)
  <2>1. kept \in SUBSET Ids
    BY <1>4, OpenIds
  <2>2. IsFiniteSet(kept)
    <3> HIDE DEF kept
    <3> QED
      BY <2>1, IdsAreFinite, FS_Subset
  <2> HIDE DEF kept
  <2>3. IsFiniteSet(DOMAIN C)
    BY DEF Built
  <2>4. IsFiniteSet(DOMAIN C \cup kept)
    BY <2>2, <2>3, FS_Union
  <2> QED
    BY <1>3, <2>4
<1>11. \A id \in DOMAIN O : id[1] <= MaxNumber
  <2>1. bound \in Int
    BY <1>8
  <2> HIDE DEF bound
  <2> QED
    BY <1>2, <1>7, <1>9, <1>10, <2>1, RewriteSize
<1>12. DOMAIN O \subseteq Ids
  <2>1. ASSUME NEW id \in DOMAIN O PROVE id \in Ids
    <3>1. id = <<id[1], 0>> /\ id[1] \in Numbers
      BY <1>9, <1>11, IdFacts
    <3> QED
      BY <3>1, IdFacts
  <2> QED
    BY <2>1
<1>13. ASSUME NEW id \in kept, id \notin DOMAIN C, Old(id).kind = "bundle",
              NEW n \in DOMAIN Old(id).value
       PROVE  <<n, 0>> \in Packable(O)
  <2> DEFINE i == <<n, 0>>
  <2>1. PICK p \in DOMAIN base : Old(id) = base[p]
    BY <1>4, <1>13, OldIs
  <2>2. n < LastSize(base) /\ Listed(base, n)
    BY <1>13, <2>1 DEF WellFormed, Numbered
  <2>3. i \in object_ids
    BY <1>4, <2>2, OpenIds
  <2>4. Old(i).kind = "object" /\ Old(i).value \in Int
    <3>1. \/ \E w \in DOMAIN base : base[w].num = i[1] /\ Old(i) = base[w]
          \/ Old(i).kind = "object" /\ Old(i).value \in Int
      BY <1>4, <2>3, OldIs
    <3>2. \A w \in DOMAIN base : base[w].num = n => base[w].kind = "object" /\ base[w].value \in Int
      BY <1>13, <2>1 DEF WellFormed, Unique
    <3> QED
      BY <3>1, <3>2
  <2>5. i \in DOMAIN O /\ O[i].kind = "object" /\ O[i].value # Stream
    <3>1. CASE i \in DOMAIN C
      <4>1. C[i] \in Int
        BY <2>3, <3>1, BuiltFacts
      <4> QED
        BY <1>3, <1>4, <1>5, <3>1, <4>1
    <3>2. CASE i \notin DOMAIN C
      <4>1. i \in kept
        BY <2>3, <2>4
      <4>2. O[i] = Old(i) /\ i \in DOMAIN O
        BY <1>3, <1>6, <3>2, <4>1
      <4> QED
        BY <1>4, <2>4, <4>2
    <3> QED
      BY <3>1, <3>2
  <2> QED
    BY <2>5 DEF Packable
<1>14. ASSUME NEW id \in DOMAIN O
       PROVE  /\ id[2] = 0 /\ ItemOK(O[id]) /\ O[id].num = id[1]
              /\ O[id].kind \in {"object", "bundle"}
              /\ O[id].kind = "bundle" => \A n \in DOMAIN O[id].value : <<n, 0>> \in Packable(O)
  <2>1. CASE id \in DOMAIN C
    BY <1>5, <1>9, <2>1
  <2>2. CASE id \notin DOMAIN C
    <3>1. id \in kept /\ O[id] = Old(id)
      BY <1>3, <1>6, <2>2
    <3>2. ItemOK(Old(id)) /\ Old(id).num = id[1] /\ Old(id).kind # "section"
      BY <1>4, <3>1, OldIs
    <3>3. Old(id).kind = "bundle" => \A n \in DOMAIN Old(id).value : <<n, 0>> \in Packable(O)
      BY <1>13, <2>2, <3>1
    <3>4. Old(id).kind \in {"object", "bundle"}
      BY <3>2 DEF ItemOK
    <3> QED
      BY <1>9, <3>1, <3>2, <3>3, <3>4
  <2> QED
    BY <2>1, <2>2
<1>15. Gathered(O)
  BY <1>7, <1>12, <1>14 DEF Gathered
<1>16. PICK nb, packNum, xrefNum : LaidOut(g, O, nb, packNum, xrefNum)
  BY <1>2, <1>15, RewriteIs
<1>17. nb \in Nat /\ Len(g) = nb + 1 /\ packNum \in Nat /\ xrefNum \in Nat /\ g[nb + 1].size = xrefNum + 1
  <2>1. /\ nb \in Nat /\ Len(g) = nb + 1 /\ packNum \in Nat
        /\ xrefNum = IF Packable(O) = {} THEN packNum ELSE packNum + 1
        /\ g[nb + 1] = Section(xrefNum, g[nb + 1].entries, 0, 0, xrefNum + 1)
    BY <1>16 DEF LaidOut
  <2>2. g[nb + 1].size = xrefNum + 1
    BY <2>1 DEF Section
  <2> QED
    BY <2>1, <2>2
<1>18. nb + 1 <= MaxItems /\ xrefNum <= MaxNumber
  BY <1>17, IdFacts
<1>19. /\ WellFormed(g) /\ Spoken(g)
       /\ \A id \in Ids : Meaning(g)[id] =
             IF id \in DOMAIN O /\ O[id].kind = "object" THEN O[id].value ELSE Nothing
  BY <1>15, <1>16, <1>18, LaidOutIsWell
<1>20. ASSUME NEW id \in Ids PROVE Meaning(g)[id] = IF id \in DOMAIN C THEN C[id] ELSE Shown(id)
  <2>1. CASE id \in DOMAIN C
    BY <1>3, <1>5, <1>19, <2>1
  <2>2. CASE id \notin DOMAIN C /\ id \in object_ids
    <3>1. Shown(id) = IF Old(id).kind = "object" THEN Old(id).value ELSE Nothing
      BY <1>4, <2>2, OldIs
    <3>2. CASE id \in kept
      <4>1. id \in DOMAIN O /\ O[id] = Old(id)
        BY <1>3, <1>6, <2>2, <3>2
      <4> QED
        BY <1>19, <2>2, <3>1, <4>1
    <3>3. CASE id \notin kept
      <4>1. id \notin DOMAIN O /\ Old(id).kind = "section"
        BY <1>3, <2>2, <3>3
      <4> QED
        BY <1>19, <2>2, <3>1, <4>1
    <3> QED
      BY <3>2, <3>3
  <2>3. CASE id \notin DOMAIN C /\ id \notin object_ids
    BY <1>3, <1>19, <2>3, NotShown
  <2> QED
    BY <2>1, <2>2, <2>3
<1> QED
  BY <1>3, <1>12, <1>19, <1>20 DEF Saved

-----------------------------------------------------------------------------
(***************************************************************************)
(* The walk over the chain, and the repair at its end.                     *)
(***************************************************************************)

\* The table x holds what the revisions V say, the newest of them first.
Merged(f, x, V) ==
    /\ DOMAIN x = UNION {DOMAIN EntriesOf(f, q) : q \in V}
    /\ \A q \in V : \A id \in DOMAIN EntriesOf(f, q) :
          (\A r \in V : id \in DOMAIN EntriesOf(f, r) => r <= q) => x[id] = EntriesOf(f, q)[id]

Walking ==
    /\ base = file
    /\ next \in Revisions(base) \cup {0}
    /\ visited \subseteq Revisions(base)
    /\ \A q \in visited : next <= q
    /\ \A q \in Revisions(base) : next < q => q \in visited
    /\ IF visited = {} THEN size = 0 /\ next = Len(base) ELSE size = LastSize(base)
    /\ Merged(base, xref, visited)

\* One more revision, older than those merged so far, keeps the merge newest first.
LEMMA MergeOne ==
    ASSUME NEW f, NEW x, NEW V, NEW p \in Int, V \subseteq Int, Merged(f, x, V),
           p \notin V, \A q \in V : p <= q,
           NEW y, DOMAIN y = DOMAIN x \cup DOMAIN EntriesOf(f, p),
           \A id \in DOMAIN x : y[id] = x[id],
           \A id \in DOMAIN EntriesOf(f, p) : id \notin DOMAIN x => y[id] = EntriesOf(f, p)[id]
    PROVE  Merged(f, y, V \cup {p})
<1>1. DOMAIN y = UNION {DOMAIN EntriesOf(f, q) : q \in V \cup {p}}
  BY DEF Merged
<1>2. ASSUME NEW q \in V \cup {p}, NEW id \in DOMAIN EntriesOf(f, q),
             \A r \in V \cup {p} : id \in DOMAIN EntriesOf(f, r) => r <= q
      PROVE  y[id] = EntriesOf(f, q)[id]
  <2>1. CASE q \in V
    <3>1. id \in DOMAIN x /\ x[id] = EntriesOf(f, q)[id]
      BY <1>2, <2>1 DEF Merged
    <3> QED
      BY <3>1
  <2>2. CASE q = p
    <3>1. \A r \in V : id \notin DOMAIN EntriesOf(f, r)
      BY <1>2, <2>2
    <3>2. id \notin DOMAIN x
      BY <3>1 DEF Merged
    <3> QED
      BY <1>2, <2>2, <3>2
  <2> QED
    BY <2>1, <2>2
<1> QED
  BY <1>1, <1>2 DEF Merged

\* Each turn of the walk adds one revision, the one before those it has read.
LEMMA ReadsOn ==
    ASSUME WellFormed(base), Walking, ReadSection
    PROVE  Walking'
<1> DEFINE s == base[next]
<1> DEFINE hidden == IF s.stm \notin visited' \cup {0, next} THEN base[s.stm].entries ELSE <<>>
<1>1. /\ next # 0 /\ next \notin visited /\ visited' = visited \cup {next}
      /\ base' = base /\ file' = file /\ next' = s.prev
      /\ size' = (IF size = 0 THEN s.size ELSE size)
      /\ xref' = OrInsert(OrInsert(xref, s.entries), hidden)
  BY DEF ReadSection, Mark, disk
<1>2. /\ next \in Revisions(base) /\ next \in Sections(base)
      /\ \A q \in Revisions(base) : q \in Nat \ {0}
  BY <1>1, FileFacts DEF Walking
<1>3. hidden = IF s.stm = 0 THEN <<>> ELSE base[s.stm].entries
  <2>1. s.stm \notin Revisions(base)
    BY <1>2 DEF Revisions
  <2>2. visited' \cup {next} \subseteq Revisions(base)
    BY <1>1, <1>2 DEF Walking
  <2> QED
    BY <2>1, <2>2
<1> DEFINE es == EntriesOf(base, next)
<1>4. es = OrInsert(s.entries, hidden)
  BY <1>3 DEF EntriesOf
<1> HIDE DEF hidden, es
<1>5. /\ DOMAIN xref' = DOMAIN xref \cup DOMAIN es
      /\ \A id \in DOMAIN xref : xref'[id] = xref[id]
      /\ \A id \in DOMAIN es : id \notin DOMAIN xref => xref'[id] = es[id]
  BY <1>1, <1>4 DEF OrInsert
<1>6. Merged(base, xref', visited')
  <2>1. visited \subseteq Int /\ next \in Int /\ \A q \in visited : next <= q
    BY <1>2 DEF Walking
  <2>2. Merged(base, xref, visited)
    BY DEF Walking
  <2> QED
    BY <1>1, <1>5, <2>1, <2>2, MergeOne DEF es
<1>7. \/ s.prev = next
      \/ /\ s.prev < next /\ s.prev \in Revisions(base) \cup {0}
         /\ \A q \in Revisions(base) : q < next => q <= s.prev
  BY <1>2 DEF WellFormed, Chain
<1>8. s.prev \in Revisions(base) \cup {0} /\ s.prev <= next
  BY <1>2, <1>7
<1>9. \A q \in visited' : s.prev <= q
  BY <1>1, <1>2, <1>8 DEF Walking
<1>10. ASSUME NEW q \in Revisions(base), s.prev < q PROVE q \in visited'
  <2>1. q >= next
    BY <1>2, <1>7, <1>8, <1>10
  <2> QED
    BY <1>1, <1>2, <2>1 DEF Walking
<1>11. size' = LastSize(base)
  <2>1. LastSize(base) # 0 /\ LastSize(base) = base[Len(base)].size
    BY FileFacts, IdFacts DEF WellFormed, Chain
  <2> QED
    BY <1>1, <2>1 DEF Walking
<1>12. visited' \subseteq Revisions(base) /\ visited' # {}
  BY <1>1, <1>2 DEF Walking
<1>13. base' = file'
  BY <1>1 DEF Walking
<1> QED
  BY <1>1, <1>6, <1>8, <1>9, <1>10, <1>11, <1>12, <1>13 DEF Walking

\* At the end of the chain every revision was read, and repair finds what damage
\* has hidden: the last place of every number.
LEMMA RepairIndexes ==
    ASSUME WellFormed(base), Walking, next = 0,
           NEW x, x = [id \in DOMAIN xref |-> Repaired(id)]
    PROVE  IndexedBy(base, x) /\ size = LastSize(base)
<1>1. visited = Revisions(base)
  <2>1. \A q \in Revisions(base) : 0 < q
    BY FileFacts
  <2>2. visited \subseteq Revisions(base) /\ \A q \in Revisions(base) : 0 < q => q \in visited
    BY DEF Walking
  <2> QED
    BY <2>1, <2>2
<1>2. DOMAIN x = DOMAIN xref /\ DOMAIN xref = UNION {DOMAIN EntriesOf(base, q) : q \in Revisions(base)}
  BY <1>1 DEF Walking, Merged
<1>3. size = LastSize(base)
  <2>1. visited # {}
    BY <1>1, FileFacts
  <2> QED
    BY <2>1 DEF Walking
<1>4. ASSUME NEW id \in DOMAIN x
      PROVE  \E p \in Revisions(base) :
                /\ id \in DOMAIN EntriesOf(base, p) /\ xref[id] = EntriesOf(base, p)[id]
                /\ \A q \in Revisions(base) : id \in DOMAIN EntriesOf(base, q) => q <= p
  <2> DEFINE P == {q \in Revisions(base) : id \in DOMAIN EntriesOf(base, q)}
  <2>1. P # {}
    BY <1>2, <1>4
  <2>2. P \subseteq Int /\ Len(base) \in Int /\ \A p \in P : p <= Len(base)
    BY FileFacts
  <2>3. Max(P) \in P /\ \A p \in P : p <= Max(P)
    <3> HIDE DEF P
    <3> QED
      BY <2>1, <2>2, GreatestExists
  <2>4. PICK p \in P : \A q \in P : q <= p
    BY <2>3
  <2>5. \A r \in visited : id \in DOMAIN EntriesOf(base, r) => r <= p
    BY <1>1, <2>4
  <2>6. p \in visited /\ id \in DOMAIN EntriesOf(base, p)
    BY <1>1, <2>4
  <2>7. xref[id] = EntriesOf(base, p)[id]
    BY <2>5, <2>6 DEF Walking, Merged
  <2> QED
    BY <1>1, <2>5, <2>6, <2>7
<1>5. ASSUME NEW id \in DOMAIN x PROVE id \in Ids /\ (id[2] # 0 => xref[id] = Free)
  <2>1. PICK p \in Revisions(base) :
           id \in DOMAIN EntriesOf(base, p) /\ xref[id] = EntriesOf(base, p)[id]
    BY <1>4
  <2> QED
    BY <2>1, FileFacts, EntryFacts
<1>6. ASSUME NEW id \in DOMAIN x, id[2] # 0 PROVE x[id] = Free
  <2>1. x[id] = Repaired(id)
    BY <1>6
  <2>2. xref[id] = Free
    BY <1>5, <1>6
  <2> QED
    BY <2>1, <2>2 DEF Repaired, Free
<1>7. ASSUME NEW id \in DOMAIN x, id[2] = 0
      PROVE  \E w \in DOMAIN base :
                /\ LastWritten(base, w, id[1])
                /\ IF base[w].num = id[1] THEN x[id] = Plain(w) ELSE x[id] = Packed(base[w].num)
  <2> DEFINE n == id[1]
  <2>1. PICK p \in Revisions(base) :
           /\ id \in DOMAIN EntriesOf(base, p) /\ xref[id] = EntriesOf(base, p)[id]
           /\ \A q \in Revisions(base) : id \in DOMAIN EntriesOf(base, q) => q <= p
    BY <1>4
  <2>2. n \in Numbers /\ id = <<n, 0>> /\ n # 0
    BY <1>5, <1>7, IdFacts
  <2>3. Newest(base, p, n)
    BY <2>1, <2>2 DEF Newest, Lists
  <2>4. PICK w \in DOMAIN base : LastWritten(base, w, n) /\ Leads(base, xref[id], w, n)
    BY <2>1, <2>2, <2>3 DEF WellFormed, Placed
  <2>5. x[id] = Repaired(id)
    BY <1>7
  <2>6. base[w].gen = 0 /\ At(base, w) = base[w]
    BY DEF WellFormed, Items, ItemOK, At
  <2>7. CASE base[w].num # n
    <3>1. xref[id] = Packed(base[w].num)
      BY <2>4, <2>7 DEF Leads
    <3>2. x[id] = xref[id]
      BY <2>5, <3>1 DEF Repaired, Packed
    <3> QED
      BY <2>4, <2>7, <3>1, <3>2
  <2>8. CASE base[w].num = n
    <3>1. HeaderMatches(base, w, id)
      BY <2>2, <2>6, <2>8 DEF HeaderMatches
    <3>2. xref[id] = Plain(w) \/ xref[id] = Plain(0)
      BY <2>4, <2>8 DEF Leads
    <3>3. CASE xref[id] = Plain(w)
      <4>1. xref[id].to = w
        BY <3>3 DEF Plain
      <4>2. x[id] = xref[id]
        BY <2>5, <3>1, <4>1 DEF Repaired
      <4> QED
        BY <2>4, <2>8, <3>3, <4>2
    <3>4. CASE xref[id] = Plain(0)
      <4>1. xref[id].to = 0 /\ xref[id].type = "plain"
        BY <3>4 DEF Plain
      <4>2. ~HeaderMatches(base, 0, id)
        <5>1. 0 \notin DOMAIN base
          BY FileFacts
        <5>2. At(base, 0).num = 0
          BY <5>1 DEF At, Section
        <5> QED
          BY <2>2, <5>2 DEF HeaderMatches
      <4>3. Max(Scanned(base, id)) = w /\ Scanned(base, id) # {}
        <5>1. w \in Scanned(base, id)
          BY <3>1 DEF Scanned
        <5>2. ASSUME NEW q \in Scanned(base, id) PROVE q \in Int /\ q <= w
          <6>1. q \in DOMAIN base /\ <<base[q].num, base[q].gen>> = id
            BY DEF Scanned, HeaderMatches, At
          <6>2. q \in Written(base, <<n, 0>>)
            BY <2>2, <6>1 DEF Written
          <6>3. q \in Int
            BY <6>1, FileFacts
          <6> QED
            BY <2>4, <6>2, <6>3 DEF LastWritten
        <5>3. Scanned(base, id) \subseteq Int
          BY <5>2
        <5> QED
          BY <5>1, <5>2, <5>3, GreatestIs
      <4>4. x[id] = Plain(w)
        BY <2>5, <4>1, <4>2, <4>3 DEF Repaired
      <4> QED
        BY <2>4, <2>8, <4>4
    <3> QED
      BY <3>2, <3>3, <3>4
  <2> QED
    BY <2>7, <2>8
<1>8. IndexedBy(base, x)
  BY <1>2, <1>6, <1>7 DEF IndexedBy, PointsTo
<1> QED
  BY <1>3, <1>8

-----------------------------------------------------------------------------
(***************************************************************************)
(* The first documents.                                                    *)
(***************************************************************************)

\* The first document, as a table.
LEMMA FirstTable ==
    ASSUME NEW f, f = <<Object(1, 0, 0), Object(2, 0, 0),
                        Section(0, OrInsert(Located(1, 1), Located(2, 2)), 0, 0, 3)>>
    PROVE  WellFormed(f) /\ Spoken(f)
<1> DEFINE es == OrInsert(Located(1, 1), Located(2, 2))
<1>1. /\ DOMAIN es = {<<1, 0>>, <<2, 0>>} /\ es[<<1, 0>>] = Plain(1) /\ es[<<2, 0>>] = Plain(2)
  <2>1. /\ DOMAIN Located(1, 1) = {<<1, 0>>} /\ Located(1, 1)[<<1, 0>>] = Plain(1)
        /\ DOMAIN Located(2, 2) = {<<2, 0>>} /\ Located(2, 2)[<<2, 0>>] = Plain(2)
    BY DEF Located
  <2>2. <<2, 0>> \notin {<<1, 0>>}
    OBVIOUS
  <2> QED
    BY <2>1, <2>2 DEF OrInsert
<1> HIDE DEF es
<1>2. f = <<Object(1, 0, 0), Object(2, 0, 0), Section(0, es, 0, 0, 3)>>
  BY DEF es
<1>3. f = [k \in 1..3 |-> f[k]] /\ DOMAIN f = 1..3 /\ Len(f) = 3
  BY <1>2
<1>4. f[1] = Object(1, 0, 0) /\ f[2] = Object(2, 0, 0) /\ f[3] = Section(0, es, 0, 0, 3)
  BY <1>2
<1>5. f \in Seq(Elements(f))
  BY <1>3, FunctionIsSeq
<1>6. /\ f[1].kind = "object" /\ f[1].num = 1 /\ f[1].gen = 0 /\ f[1].value = 0
      /\ f[2].kind = "object" /\ f[2].num = 2 /\ f[2].gen = 0 /\ f[2].value = 0
      /\ f[3].kind = "section" /\ f[3].num = 0 /\ f[3].gen = 0 /\ f[3].entries = es
      /\ f[3].prev = 0 /\ f[3].stm = 0 /\ f[3].size = 3
  BY <1>4 DEF Object, Section
<1>7. \A p \in DOMAIN f : p = 1 \/ p = 2 \/ p = 3
  BY <1>3
<1>8. 1 \in DOMAIN f /\ 2 \in DOMAIN f /\ 3 \in DOMAIN f
  BY <1>3
<1>9. Stream \notin Int
  BY RevisionAssumption
<1>10. /\ 1 \in Numbers /\ 2 \in Numbers /\ Plain(1) \in InUse /\ Plain(2) \in InUse
  BY IdFacts DEF InUse, Offsets
<1>11. ItemOK(f[1]) /\ ItemOK(f[2])
  BY <1>6 DEF ItemOK
<1>12. ItemOK(f[3])
  <2>1. \A id \in DOMAIN es : id \in Ids /\ id[2] = 0 /\ es[id] \in InUse
    BY <1>1, <1>10, IdFacts
  <2>2. f[3] = Section(f[3].num, f[3].entries, f[3].prev, f[3].stm, f[3].size)
    BY <1>4, <1>6
  <2> QED
    BY <1>6, <2>1, <2>2 DEF ItemOK
<1>13. Items(f)
  BY <1>3, <1>5, <1>7, <1>11, <1>12, IdFacts DEF Items
<1>14. Sections(f) = {3} /\ Revisions(f) = {3}
  <2>1. Sections(f) = {3}
    BY <1>6, <1>7, <1>8 DEF Sections
  <2> QED
    BY <1>6, <2>1 DEF Revisions
<1>15. LastSize(f) = 3
  <2>1. DOMAIN f = 1..Len(f) /\ Len(f) \in Nat \ {0} /\ f[Len(f)].kind = "section"
    BY <1>3, <1>6
  <2>2. f[Len(f)].size = 3
    BY <1>3, <1>6
  <2>3. LastSize(f) = f[Len(f)].size
    <3> HIDE <1>2
    <3> QED
      BY <2>1, LastIs
  <2> QED
    BY <2>2, <2>3
<1>16. DOMAIN EntriesOf(f, 3) = DOMAIN es /\ \A id \in DOMAIN es : EntriesOf(f, 3)[id] = es[id]
  BY <1>6, PlainEntries
<1>17. \A n : Lists(f, 3, n) <=> n = 1 \/ n = 2
  BY <1>1, <1>16 DEF Lists
<1>18. Listed(f, 1) /\ Listed(f, 2)
  BY <1>14, <1>17 DEF Listed
<1>19. Chain(f)
  BY <1>3, <1>6, <1>14, <1>15, IdFacts DEF Chain
<1>20. Numbered(f)
  BY <1>6, <1>7, <1>15, <1>18 DEF Numbered
<1>21. Unique(f)
  BY <1>6, <1>7 DEF Unique
<1>22. Peopled(f)
  BY <1>6, <1>8 DEF Peopled
<1>23. ASSUME NEW n \in {1, 2} PROVE LastWritten(f, n, n) /\ Leads(f, EntriesOf(f, 3)[<<n, 0>>], n, n)
  <2>1. n \in DOMAIN f /\ f[n].num = n
    BY <1>6, <1>8
  <2>2. EntriesOf(f, 3)[<<n, 0>>] = Plain(n)
    BY <1>1, <1>16
  <2>3. n \in Written(f, <<n, 0>>)
    BY <1>13, <2>1, WrittenIs
  <2>4. \A v \in Written(f, <<n, 0>>) : v = n
    <3>1. \A v \in Written(f, <<n, 0>>) : v \in DOMAIN f /\ (f[v].num = n \/ f[v].kind = "bundle")
      BY <1>13, WrittenIs
    <3> QED
      BY <1>6, <1>7, <3>1
  <2>5. LastWritten(f, n, n)
    BY <2>3, <2>4 DEF LastWritten
  <2> QED
    BY <2>1, <2>2, <2>5 DEF Leads
<1>24. Placed(f)
  <2>1. ASSUME NEW p \in Revisions(f), NEW n \in Numbers, Newest(f, p, n)
        PROVE  \E w \in DOMAIN f :
                  LastWritten(f, w, n) /\ Leads(f, EntriesOf(f, p)[<<n, 0>>], w, n)
    <3>1. p = 3 /\ n \in {1, 2}
      BY <1>14, <1>17, <2>1 DEF Newest
    <3>2. n \in DOMAIN f
      BY <1>8, <3>1
    <3> QED
      BY <1>23, <3>1, <3>2
  <2> QED
    BY <2>1 DEF Placed
<1>25. Spoken(f)
  BY <1>1, <1>14, <1>16, <1>17 DEF Spoken
<1> QED
  BY <1>13, <1>19, <1>20, <1>21, <1>22, <1>24, <1>25 DEF WellFormed

\* The other first document is laid out as a rewritten one is.
LEMMA FirstPack ==
    ASSUME NEW f, f = <<Bundle(3, [n \in {1, 2} |-> 0]),
                        Section(4, OrInsert([id \in {<<1, 0>>, <<2, 0>>} |-> Packed(3)],
                                            OrInsert(Located(3, 1), Located(4, 2))), 0, 0, 5)>>
    PROVE  WellFormed(f) /\ Spoken(f)
<1> DEFINE I == {<<1, 0>>, <<2, 0>>}
<1> DEFINE objects == [id \in I |-> Object(id[1], 0, 0)]
<1> DEFINE members == [n \in {1, 2} |-> 0]
<1> DEFINE packed == [id \in I |-> Packed(3)]
<1> DEFINE own == OrInsert(Located(3, 1), Located(4, 2))
<1> DEFINE es == OrInsert(packed, own)
<1>1. f = <<Bundle(3, members), Section(4, es, 0, 0, 5)>>
  OBVIOUS
<1>2. DOMAIN own = {<<3, 0>>, <<4, 0>>} /\ own[<<3, 0>>] = Plain(1) /\ own[<<4, 0>>] = Plain(2)
  <2>1. /\ DOMAIN Located(3, 1) = {<<3, 0>>} /\ Located(3, 1)[<<3, 0>>] = Plain(1)
        /\ DOMAIN Located(4, 2) = {<<4, 0>>} /\ Located(4, 2)[<<4, 0>>] = Plain(2)
    BY DEF Located
  <2>2. <<4, 0>> \notin {<<3, 0>>}
    OBVIOUS
  <2> QED
    BY <2>1, <2>2 DEF OrInsert
<1>3. DOMAIN packed = I /\ \A id \in I : packed[id] = Packed(3)
  OBVIOUS
<1>4. <<3, 0>> \notin I /\ <<4, 0>> \notin I
  OBVIOUS
<1> HIDE DEF own, packed
<1>5. /\ DOMAIN es = {<<3, 0>>} \cup I \cup {<<4, 0>>}
      /\ es[<<3, 0>>] = Plain(1) /\ es[<<4, 0>>] = Plain(2) /\ \A id \in I : es[id] = Packed(3)
  BY <1>2, <1>3, <1>4 DEF OrInsert
<1>6. DOMAIN members = {1, 2} /\ members[1] = 0 /\ members[2] = 0
  OBVIOUS
<1>7. DOMAIN objects = I /\ \A id \in I : objects[id] = Object(id[1], 0, 0)
  OBVIOUS
<1> HIDE DEF es, members, objects
<1>8. /\ f = [k \in 1..2 |-> f[k]] /\ DOMAIN f = 1..2 /\ Len(f) = 2
      /\ f[1] = Bundle(3, members) /\ f[2] = Section(4, es, 0, 0, 5)
  BY <1>1
<1>9. f \in Seq(Elements(f))
  BY <1>8, FunctionIsSeq
<1>10. \A id \in I : /\ objects[id].kind = "object" /\ objects[id].num = id[1]
                     /\ objects[id].value = 0 /\ ItemOK(objects[id])
  BY <1>7 DEF Object, ItemOK
<1>11. Packable(objects) = I
  <2>1. Stream # 0
    BY RevisionAssumption
  <2> QED
    BY <1>7, <1>10, <2>1 DEF Packable
<1>12. \A id \in I : id \in Ids /\ id[2] = 0 /\ id[1] < 3 /\ id[1] \in {1, 2}
  BY IdFacts
<1>13. Gathered(objects)
  BY <1>7, <1>10, <1>12 DEF Gathered
<1>14. /\ f[1].kind = "bundle" /\ f[1].num = 3 /\ f[1].gen = 0 /\ f[1].value = members
       /\ f[2].entries = es
  BY <1>8 DEF Bundle, Section
<1>15. IsPack(f[1], objects, 3)
  <2>1. DOMAIN members = {id[1] : id \in I}
    BY <1>6
  <2>2. \A id \in I : members[id[1]] = objects[id].value
    BY <1>6, <1>10
  <2> QED
    BY <1>11, <1>14, <2>1, <2>2 DEF IsPack
<1>16. LaidOut(f, objects, 1, 3, 4)
  <2> DEFINE P == Packable(objects)
  <2>1. f \in Seq(Elements(f)) /\ 1 \in Nat /\ Len(f) = 1 + 1 /\ DOMAIN f = 1..(1 + 1)
    BY <1>8, <1>9
  <2>2. \A id \in DOMAIN objects : id[1] < 3
    BY <1>7, <1>12
  <2>3. P # {} /\ DOMAIN objects \ P = {}
    BY <1>7, <1>11
  <2>4. \A k \in 1..1 : k = 1
    OBVIOUS
  <2>5. f[1 + 1] = Section(4, f[1 + 1].entries, 0, 0, 4 + 1)
    BY <1>8, <1>14
  <2>6. {<<f[k].num, 0>> : k \in 1..1} = {<<3, 0>>}
    BY <1>14, <2>4
  <2>7. DOMAIN f[1 + 1].entries = {<<f[k].num, 0>> : k \in 1..1} \cup P \cup {<<4, 0>>}
    BY <1>5, <1>11, <1>14, <2>6
  <2>8. \A k \in 1..1 : f[1 + 1].entries[<<f[k].num, 0>>] = Plain(k)
    BY <1>5, <1>14, <2>4
  <2>9. \A id \in P : f[1 + 1].entries[id] = Packed(3)
    BY <1>5, <1>11, <1>14
  <2>10. f[1 + 1].entries[<<4, 0>>] = Plain(1 + 1)
    BY <1>5, <1>14
  <2> HIDE DEF P
  <2>11. \A k \in 1..1 : k = 1 /\ P # {} /\ IsPack(f[k], objects, 3)
    BY <1>15, <2>3, <2>4
  <2>12. 4 = (IF P = {} THEN 3 ELSE 3 + 1) /\ 3 \in Nat
    BY <2>3
  <2>13. \A j, k \in 1..1 : f[j].num = f[k].num => j = k
    OBVIOUS
  <2>14. P # {} => 1 # 0 /\ IsPack(f[1], objects, 3)
    BY <1>15
  <2> QED
    BY <2>1, <2>2, <2>3, <2>5, <2>7, <2>8, <2>9, <2>10, <2>11, <2>12, <2>13, <2>14 DEF LaidOut, P
<1>17. 1 + 1 <= MaxItems /\ 4 <= MaxNumber
  BY IdFacts
<1> QED
  BY <1>13, <1>16, <1>17, LaidOutIsWell

\* The first documents are well formed.
LEMMA FreshIsWell ==
    ASSUME NEW f \in Fresh
    PROVE  WellFormed(f) /\ Spoken(f)
BY FirstTable, FirstPack DEF Fresh

-----------------------------------------------------------------------------
(***************************************************************************)
(* The invariant.                                                          *)
(***************************************************************************)

\* What holds of the reader in any mode with a file.
ReaderTypes ==
    /\ next \in Offsets /\ visited \subseteq DOMAIN base
    /\ DOMAIN xref \subseteq Ids /\ Range(xref) \subseteq Entry
    /\ size \in 0..(MaxNumber + 1)

IInv ==
    /\ doc = Meaning(file) /\ WellFormed(file)
    /\ mode \in {"closed", "walking", "open", "failed"}
    /\ mode = "closed" => base = <<>> /\ next = 0 /\ visited = {} /\ xref = <<>> /\ size = 0
    /\ mode # "closed" => WellFormed(base) /\ ReaderTypes
    /\ mode = "walking" => Walking
    /\ mode = "open" => Opened
    /\ mode # "open" => forms = {} /\ edits = {}

\* The variables of a reader that walks.
LEMMA WalkingTypes ==
    ASSUME WellFormed(base), Walking
    PROVE  ReaderTypes
<1>1. \A q \in Revisions(base) : q \in Offsets /\ q \in DOMAIN base
  BY FileFacts, IdFacts DEF Offsets
<1>2. next \in Offsets /\ visited \subseteq DOMAIN base
  BY <1>1, IdFacts DEF Walking, Offsets
<1>3. size \in 0..(MaxNumber + 1)
  BY IdFacts DEF Walking, WellFormed, Chain
<1>4. ASSUME NEW id \in DOMAIN xref PROVE id \in Ids /\ xref[id] \in Entry
  <2> DEFINE P == {q \in visited : id \in DOMAIN EntriesOf(base, q)}
  <2>1. P # {}
    BY <1>4 DEF Walking, Merged
  <2>2. P \subseteq Int /\ Len(base) \in Int /\ \A p \in P : p <= Len(base)
    BY FileFacts DEF Walking
  <2>3. Max(P) \in P /\ \A p \in P : p <= Max(P)
    <3> HIDE DEF P
    <3> QED
      BY <2>1, <2>2, GreatestExists
  <2>4. PICK p \in P : \A q \in P : q <= p
    BY <2>3
  <2>5. p \in visited /\ id \in DOMAIN EntriesOf(base, p) /\ p \in Sections(base)
    BY <2>4, FileFacts DEF Walking
  <2>6. xref[id] = EntriesOf(base, p)[id]
    <3>1. \A r \in visited : id \in DOMAIN EntriesOf(base, r) => r <= p
      BY <2>4
    <3> QED
      BY <2>5, <3>1 DEF Walking, Merged
  <2>7. id \in Ids /\ (xref[id] \in InUse \/ xref[id] = Free)
    BY <2>5, <2>6, EntryFacts
  <2> QED
    BY <2>7 DEF Entry, InUse
<1> QED
  BY <1>2, <1>3, <1>4 DEF ReaderTypes, Range

\* The variables of a reader that is open.
LEMMA OpenTypes ==
    ASSUME WellFormed(base), Indexed, size = LastSize(base), next = 0, visited \subseteq DOMAIN base
    PROVE  ReaderTypes
<1>1. next \in Offsets
  BY IdFacts DEF Offsets
<1>2. size \in 0..(MaxNumber + 1)
  BY IdFacts DEF WellFormed, Chain
<1>3. DOMAIN xref \subseteq Ids
  BY OpenIds
<1>4. ASSUME NEW id \in DOMAIN xref PROVE xref[id] \in Entry
  <2>1. CASE id[2] # 0
    BY <1>4, <2>1 DEF Indexed, IndexedBy, Entry
  <2>2. CASE id[2] = 0
    <3>1. PICK w \in DOMAIN base : LastWritten(base, w, id[1]) /\ PointsTo(base, xref[id], w, id[1])
      BY <1>4, <2>2 DEF Indexed, IndexedBy
    <3>2. w \in Offsets
      BY FileFacts, IdFacts DEF Offsets
    <3>3. CASE xref[id] = Plain(w)
      BY <3>2, <3>3 DEF Entry
    <3>4. CASE base[w].num # id[1] /\ xref[id] = Packed(base[w].num)
      <4>1. base[w].kind = "bundle"
        BY <3>1, <3>4, WrittenIs DEF LastWritten, WellFormed
      <4>2. base[w].num # 0
        BY <4>1 DEF WellFormed, Items, ItemOK
      <4>3. Listed(base, base[w].num)
        BY <4>2 DEF WellFormed, Numbered
      <4>4. base[w].num \in Numbers
        BY <4>3, NewestExists
      <4> QED
        BY <3>4, <4>4 DEF Entry
    <3> QED
      BY <3>1, <3>3, <3>4 DEF PointsTo
  <2> QED
    BY <2>1, <2>2
<1> QED
  BY <1>1, <1>2, <1>3, <1>4 DEF ReaderTypes, Range

\* What an open reader shows depends on its file and its table only.
LEMMA SameShown ==
    ASSUME base' = base, xref' = xref
    PROVE  object_ids' = object_ids /\ \A id : Shown(id)' = Shown(id)
<1>1. object_ids' = object_ids
  BY DEF object_ids
<1>2. \A id : Direct(id)' = Direct(id)
  BY DEF Direct, HeaderMatches, At
<1>3. \A id : InBundle(id)' = InBundle(id)
  BY <1>2 DEF InBundle
<1>4. ASSUME NEW id PROVE Get(id)' = Get(id)
  <2>1. Direct(id)' = Direct(id) /\ InBundle(id)' = InBundle(id)
    BY <1>2, <1>3
  <2> QED
    BY <2>1 DEF Get
<1>5. ASSUME NEW id PROVE Shown(id)' = Shown(id)
  <2>1. Get(id)' = Get(id)
    BY <1>4
  <2> QED
    BY <2>1 DEF Shown
<1> QED
  BY <1>1, <1>5

\* The index stays true while the reader keeps it.
LEMMA SameIndexed ==
    ASSUME Indexed, base' = base, xref' = xref
    PROVE  Indexed'
BY DEF Indexed, IndexedBy

\* A reader that nothing happens to, but for what is queued.
LEMMA OpenedStays ==
    ASSUME Opened, base' = base, xref' = xref, size' = size,
           forms' \cup edits' \subseteq object_ids,
           \A id \in forms' \cup edits' : Shown(id) \in Int
    PROVE  Opened'
<1>1. object_ids' = object_ids /\ \A id : Shown(id)' = Shown(id)
  BY SameShown
<1>2. Indexed'
  BY SameIndexed DEF Opened
<1>3. (size = LastSize(base))'
  BY DEF Opened
<1>4. (forms \cup edits \subseteq object_ids)'
  BY <1>1
<1>5. (\A id \in forms \cup edits : Shown(id) \in Int)'
  BY <1>1
<1> QED
  BY <1>2, <1>3, <1>4, <1>5 DEF Opened

\* The invariant holds at first.
LEMMA InitInv == Init => IInv
<1> SUFFICES ASSUME Init PROVE IInv
  OBVIOUS
<1>1. WellFormed(file)
  BY FreshIsWell DEF Init
<1> QED
  BY <1>1 DEF Init, IInv

\* A step that leaves the file on disk and the opened bytes alone.
LEMMA SameFiles ==
    ASSUME IInv, UNCHANGED disk, base' = base, mode # "closed"
    PROVE  (doc = Meaning(file))' /\ WellFormed(file)' /\ WellFormed(base)'
BY DEF IInv, disk

\* What a save writes, with either writer.
LEMMA SaveIs ==
    ASSUME IInv, Save
    PROVE  /\ WellFormed(file')
           /\ Spoken(base) =>
                 /\ Spoken(file')
                 /\ \E S : Built(build_changes, S) /\ DOMAIN build_changes \subseteq Ids
                           /\ Saved(file', build_changes)
<1>1. WellFormed(base) /\ Opened
  BY DEF IInv, Save
<1> DEFINE C == build_changes
<1>2. PICK S : Built(C, S)
  BY <1>1, BuildIs
<1>3. PICK g : g = file'
  OBVIOUS
<1>4. /\ Len(g) <= MaxItems /\ g[Len(g)].size <= MaxNumber + 1
      /\ g = Incremental(base, C) \/ g = FullRewrite(Collected(C))
  BY <1>3 DEF Save
<1> HIDE DEF C
<1>5. /\ WellFormed(g) /\ DOMAIN C \subseteq Ids
      /\ Spoken(base) => Spoken(g) /\ Saved(g, C)
  <2>1. CASE g = Incremental(base, C)
    BY <1>1, <1>2, <1>4, <2>1, IncrementalIs
  <2>2. CASE g = FullRewrite(Collected(C))
    BY <1>1, <1>2, <1>4, <2>2, RewrittenIs
  <2> QED
    BY <1>4, <2>1, <2>2
<1> QED
  BY <1>2, <1>3, <1>5 DEF C

\* What another program writes.
LEMMA ReviseIs ==
    ASSUME IInv, Revise
    PROVE  /\ WellFormed(file')
           /\ Spoken(file) /\ "free" \notin Writers => Spoken(file') /\ Revised(doc, doc')
<1>1. PICK w \in Writers, i \in Ids :
          /\ doc[i] \in 0..(MaxVersion - 1) /\ i[2] = 0
          /\ w = "damage" => OnlyTables(file)
          /\ file' = RevisedBy(w, file, i, doc[i])
          /\ Len(file') <= MaxItems /\ LastSize(file') <= MaxNumber + 1
  BY DEF Revise
<1>2. PICK f, g, v : f = file /\ g = file' /\ v = doc[i]
  OBVIOUS
<1>3. doc = Meaning(f) /\ WellFormed(f) /\ doc' = Meaning(g)
  BY <1>2 DEF IInv, Revise
<1>4. v = Meaning(f)[i] /\ v \in Int
  BY <1>1, <1>2, <1>3, RevisionAssumption
<1>5. /\ w = "damage" => OnlyTables(f)
      /\ g = RevisedBy(w, f, i, v) /\ Len(g) <= MaxItems /\ LastSize(g) <= MaxNumber + 1
  BY <1>1, <1>2
<1>6. /\ WellFormed(g)
      /\ Spoken(f) /\ w # "free" => Spoken(g) /\ Revised(Meaning(f), Meaning(g))
  BY <1>1, <1>3, <1>4, <1>5, RevisedIsWell
<1> QED
  BY <1>2, <1>3, <1>6

\* Every step keeps the invariant.
LEMMA StepInv == IInv /\ [Next]_vars => IInv'
<1> SUFFICES ASSUME IInv, [Next]_vars PROVE IInv'
  OBVIOUS
<1>1. CASE Open
  <2>1. /\ mode = "closed" /\ mode' = "walking" /\ base' = file /\ next' = StartXref(file)
        /\ file' = file /\ doc' = doc /\ visited' = visited /\ xref' = xref /\ size' = size
        /\ forms' = forms /\ edits' = edits
    BY <1>1 DEF Open, disk
  <2>2. visited = {} /\ xref = <<>> /\ size = 0 /\ forms = {} /\ edits = {}
    BY <2>1 DEF IInv
  <2>3. WellFormed(file) /\ doc = Meaning(file)
    BY DEF IInv
  <2>4. WellFormed(base)'
    BY <2>1, <2>3
  <2>5. Walking'
    <3>1. next' = Len(file) /\ Len(file) \in Revisions(file) /\ \A q \in Revisions(file) : q <= Len(file)
      BY <2>1, <2>3, FileFacts
    <3>2. Len(file) \in Nat /\ \A q \in Revisions(file) : q \in Nat
      BY <2>3, FileFacts
    <3>3. Merged(base', xref', visited')
      BY <2>1, <2>2, EmptyTable DEF Merged
    <3>4. base' = file' /\ next' \in Revisions(base') /\ visited' = {} /\ size' = 0 /\ next' = Len(base')
      BY <2>1, <2>2, <3>1
    <3>5. \A q \in Revisions(base') : ~(next' < q)
      BY <2>1, <3>1, <3>2
    <3> QED
      BY <3>3, <3>4, <3>5 DEF Walking
  <2>6. ReaderTypes'
    BY <2>4, <2>5, WalkingTypes, PTL
  <2> QED
    BY <2>1, <2>2, <2>3, <2>4, <2>5, <2>6 DEF IInv
<1>2. CASE ReadSection
  <2>1. /\ mode = "walking" /\ mode' = mode /\ base' = base /\ UNCHANGED disk
        /\ forms' = forms /\ edits' = edits
    BY <1>2 DEF ReadSection
  <2>2. WellFormed(base) /\ Walking /\ forms = {} /\ edits = {}
    BY <2>1 DEF IInv
  <2>3. Walking'
    BY <1>2, <2>2, ReadsOn
  <2>4. (doc = Meaning(file))' /\ WellFormed(file)' /\ WellFormed(base)'
    BY <2>1, SameFiles
  <2>5. ReaderTypes'
    BY <2>3, <2>4, WalkingTypes, PTL
  <2> QED
    BY <2>1, <2>2, <2>3, <2>4, <2>5 DEF IInv
<1>3. CASE FindCycle
  <2>1. /\ mode = "walking" /\ mode' = "failed" /\ base' = base /\ UNCHANGED disk
        /\ next' = next /\ visited' = visited /\ xref' = xref /\ size' = size
        /\ forms' = forms /\ edits' = edits
    BY <1>3 DEF FindCycle
  <2>2. ReaderTypes /\ forms = {} /\ edits = {}
    BY <2>1 DEF IInv
  <2>3. ReaderTypes'
    BY <2>1, <2>2 DEF ReaderTypes
  <2>4. (doc = Meaning(file))' /\ WellFormed(file)' /\ WellFormed(base)'
    BY <2>1, SameFiles
  <2> QED
    BY <2>1, <2>2, <2>3, <2>4 DEF IInv
<1>4. CASE Repair
  <2>1. /\ mode = "walking" /\ next = 0 /\ mode' = "open" /\ base' = base /\ UNCHANGED disk
        /\ next' = next /\ visited' = visited /\ size' = size
        /\ forms' = forms /\ edits' = edits
        /\ xref' = [id \in DOMAIN xref |-> Repaired(id)]
    BY <1>4 DEF Repair
  <2>2. WellFormed(base) /\ Walking /\ forms = {} /\ edits = {} /\ visited \subseteq DOMAIN base
    BY <2>1 DEF IInv, ReaderTypes
  <2>3. PICK x : x = xref'
    OBVIOUS
  <2>4. IndexedBy(base, x) /\ size = LastSize(base)
    <3>1. x = [id \in DOMAIN xref |-> Repaired(id)]
      BY <2>1, <2>3
    <3> QED
      BY <2>1, <2>2, <3>1, RepairIndexes
  <2>5. Indexed'
    BY <2>1, <2>3, <2>4 DEF Indexed
  <2>6. (size = LastSize(base))' /\ (next = 0)' /\ (visited \subseteq DOMAIN base)'
    BY <2>1, <2>2, <2>4
  <2>7. Opened'
    BY <2>1, <2>2, <2>5, <2>6 DEF Opened
  <2>8. (doc = Meaning(file))' /\ WellFormed(file)' /\ WellFormed(base)'
    BY <2>1, SameFiles
  <2>9. ReaderTypes'
    BY <2>5, <2>6, <2>8, OpenTypes, PTL
  <2> QED
    BY <2>1, <2>2, <2>7, <2>8, <2>9 DEF IInv
<1>5. CASE Close
  <2>1. /\ mode' = "closed" /\ base' = <<>> /\ next' = 0 /\ visited' = {} /\ xref' = <<>>
        /\ size' = 0 /\ forms' = {} /\ edits' = {} /\ file' = file /\ doc' = doc
    BY <1>5 DEF Close, disk
  <2>2. (doc = Meaning(file))' /\ WellFormed(file)'
    BY <2>1 DEF IInv
  <2> QED
    BY <2>1, <2>2 DEF IInv
<1>6. CASE Save
  <2>1. /\ mode = "open" /\ mode' = mode /\ base' = base /\ next' = next /\ visited' = visited
        /\ xref' = xref /\ size' = size /\ forms' = forms /\ edits' = edits
        /\ doc' = Meaning(file')
    BY <1>6 DEF Save, readerVars
  <2>2. WellFormed(file')
    BY <1>6, SaveIs
  <2>3. WellFormed(base) /\ ReaderTypes /\ Opened
    BY <2>1 DEF IInv
  <2>4. Opened'
    BY <2>1, <2>3, OpenedStays DEF Opened
  <2>5. WellFormed(base)' /\ ReaderTypes'
    BY <2>1, <2>3 DEF ReaderTypes
  <2> QED
    BY <2>1, <2>2, <2>4, <2>5 DEF IInv
<1>7. CASE Revise
  <2>1. /\ mode = "closed" /\ mode' = mode /\ base' = base /\ next' = next /\ visited' = visited
        /\ xref' = xref /\ size' = size /\ forms' = forms /\ edits' = edits
        /\ doc' = Meaning(file')
    BY <1>7 DEF Revise, readerVars
  <2>2. WellFormed(file')
    BY <1>7, ReviseIs
  <2> QED
    BY <2>1, <2>2 DEF IInv
<1>8. ASSUME NEW id \in object_ids, FillForm(id) \/ EditPage(id) PROVE IInv'
  <2>1. /\ mode = "open" /\ mode' = mode /\ base' = base /\ next' = next /\ visited' = visited
        /\ xref' = xref /\ size' = size /\ UNCHANGED disk
        /\ Shown(id) \in Int /\ forms' \cup edits' = (forms \cup edits) \cup {id}
    BY <1>8 DEF FillForm, EditPage, Editable, readerVars
  <2>2. WellFormed(base) /\ ReaderTypes /\ Opened
    BY <2>1 DEF IInv
  <2>3. Opened'
    <3>1. forms' \cup edits' \subseteq object_ids /\ \A i \in forms' \cup edits' : Shown(i) \in Int
      BY <2>1, <2>2 DEF Opened
    <3> QED
      BY <2>1, <2>2, <3>1, OpenedStays
  <2>4. ReaderTypes'
    BY <2>1, <2>2 DEF ReaderTypes
  <2>5. (doc = Meaning(file))' /\ WellFormed(file)' /\ WellFormed(base)'
    BY <2>1, SameFiles
  <2> QED
    BY <2>1, <2>3, <2>4, <2>5 DEF IInv
<1>9. CASE UNCHANGED vars
  <2>1. /\ mode' = mode /\ base' = base /\ next' = next /\ visited' = visited
        /\ xref' = xref /\ size' = size /\ file' = file /\ doc' = doc /\ forms' = forms /\ edits' = edits
    BY <1>9 DEF vars, readerVars
  <2>2. Walking => Walking'
    BY <2>1 DEF Walking
  <2>3. Opened => Opened'
    BY <2>1, OpenedStays DEF Opened
  <2>4. ReaderTypes => ReaderTypes'
    BY <2>1 DEF ReaderTypes
  <2> QED
    BY <2>1, <2>2, <2>3, <2>4 DEF IInv
<1> QED
  BY <1>1, <1>2, <1>3, <1>4, <1>5, <1>6, <1>7, <1>8, <1>9 DEF Next, Walk

\* The invariant always holds.
LEMMA SpecInv == Spec => []IInv
<1> QED
  BY InitInv, StepInv, PTL DEF Spec

\* The entries of a section are what entries can be.
LEMMA SectionTypes ==
    ASSUME NEW f, WellFormed(f), NEW p \in DOMAIN f, f[p].kind = "section"
    PROVE  DOMAIN f[p].entries \subseteq Ids /\ Range(f[p].entries) \subseteq Entry
<1>1. /\ DOMAIN f[p].entries \subseteq Ids
      /\ \A id \in DOMAIN f[p].entries :
            IF id[2] = 0 THEN f[p].entries[id] \in InUse ELSE f[p].entries[id] = Free
  BY DEF WellFormed, Items, ItemOK
<1>2. InUse \subseteq Entry /\ Free \in Entry
  BY DEF InUse, Entry
<1> QED
  BY <1>1, <1>2 DEF Range

\* The invariant implies the types.
LEMMA InvTypes == IInv => TypeOK
<1> SUFFICES ASSUME IInv PROVE TypeOK
  OBVIOUS
<1>1. ReaderTypes
  <2>1. CASE mode = "closed"
    <3>1. next = 0 /\ visited = {} /\ xref = <<>> /\ size = 0
      BY <2>1 DEF IInv
    <3>2. next \in Offsets /\ size \in 0..(MaxNumber + 1)
      BY <3>1, IdFacts DEF Offsets
    <3> QED
      BY <3>1, <3>2, EmptyTable DEF ReaderTypes, Range
  <2> QED
    BY <2>1 DEF IInv
<1>2. forms \cup edits \subseteq object_ids
  BY DEF IInv, Opened
<1>3. WellFormed(file) /\ (base = <<>> \/ WellFormed(base))
  BY DEF IInv
<1>4. ASSUME NEW f \in {file, base}, NEW p \in DOMAIN f, f[p].kind = "section"
      PROVE  DOMAIN f[p].entries \subseteq Ids /\ Range(f[p].entries) \subseteq Entry
  <2>1. CASE f = <<>>
    BY <1>4, <2>1, EmptyTable
  <2>2. CASE WellFormed(f)
    BY <1>4, <2>2, SectionTypes
  <2> QED
    BY <1>3, <2>1, <2>2
<1>5. mode \in {"closed", "walking", "open", "failed"}
  BY DEF IInv
<1> QED
  BY <1>1, <1>2, <1>4, <1>5 DEF TypeOK, ReaderTypes

\* Every variable keeps its type, whatever is written to the file and read from it.
THEOREM TypeCorrect == Spec => []TypeOK
<1> QED
  BY SpecInv, InvTypes, PTL

\* /Size exceeds every number ever used in a file, so the numbers that
\* PdfEditor::next_free_object_number gives to new objects (editing.rs) were
\* never used before, by the current revision or by one that was replaced:
\* incremental_trailer_dict and the full rewrite (writer.rs) see to that.
THEOREM NumbersStayFresh == Spec => []NumbersAreFresh
<1>1. IInv => NumbersAreFresh
  <2> SUFFICES ASSUME IInv PROVE NumbersAreFresh
    OBVIOUS
  <2> DEFINE Below(f, limit) == \A p \in DOMAIN f :
                /\ f[p].num < limit
                /\ f[p].kind = "bundle" => \A n \in DOMAIN f[p].value : n < limit
  <2>1. Below(file, LastSize(file))
    BY DEF IInv, WellFormed, Numbered
  <2>2. ASSUME mode = "open" PROVE Below(base, next_free_object_number)
    <3>1. WellFormed(base) /\ Opened
      BY <2>2 DEF IInv
    <3>2. next_free_object_number = LastSize(base)
      BY <3>1, NextFreeIs DEF Opened
    <3> QED
      BY <3>1, <3>2 DEF WellFormed, Numbered
  <2>3. TypeOK
    BY InvTypes
  <2> QED
    BY <2>1, <2>2, <2>3 DEF NumbersAreFresh
<1> QED
  BY <1>1, SpecInv, PTL

-----------------------------------------------------------------------------
(***************************************************************************)
(* What readers and editors promise.                                       *)
(***************************************************************************)

\* When no program frees objects, every revision says what is in use.
SpokenInv == "free" \notin Writers => Spoken(file) /\ (mode # "closed" => Spoken(base))

\* What the open reader shows, or Closed.
View == IF mode = "open" THEN [id \in Ids |-> Shown(id)] ELSE Closed

\* The first documents free nothing.
LEMMA SpokenInit == Init => SpokenInv
BY FreshIsWell DEF Init, SpokenInv

\* Programs that free nothing leave no revision that does.
LEMMA SpokenStep == IInv /\ SpokenInv /\ [Next]_vars => SpokenInv'
<1> SUFFICES ASSUME IInv, SpokenInv, [Next]_vars, "free" \notin Writers
             PROVE  Spoken(file') /\ (mode' # "closed" => Spoken(base'))
  BY DEF SpokenInv
<1>1. Spoken(file) /\ (mode # "closed" => Spoken(base))
  BY DEF SpokenInv
<1>2. CASE Open
  BY <1>1, <1>2 DEF Open, disk
<1>3. CASE Close
  BY <1>1, <1>3 DEF Close, disk
<1>4. CASE Walk
  BY <1>1, <1>4 DEF Walk, ReadSection, FindCycle, Repair, disk
<1>5. CASE Save
  <2>1. mode = "open" /\ base' = base
    BY <1>5 DEF Save, readerVars
  <2>2. Spoken(file')
    BY <1>1, <1>5, <2>1, SaveIs
  <2> QED
    BY <1>1, <2>1, <2>2
<1>6. CASE Revise
  <2>1. mode' = "closed"
    BY <1>6 DEF Revise, readerVars
  <2>2. Spoken(file')
    BY <1>1, <1>6, ReviseIs
  <2> QED
    BY <2>1, <2>2
<1>7. ASSUME NEW id \in object_ids, FillForm(id) \/ EditPage(id)
      PROVE  Spoken(file') /\ (mode' # "closed" => Spoken(base'))
  BY <1>1, <1>7 DEF FillForm, EditPage, disk, readerVars
<1>8. CASE UNCHANGED vars
  BY <1>1, <1>8 DEF vars, readerVars
<1> QED
  BY <1>2, <1>3, <1>4, <1>5, <1>6, <1>7, <1>8 DEF Next

\* A reader is open exactly when it shows something.
LEMMA ViewIs ==
    ASSUME IInv
    PROVE  mode = "open" <=> View # Closed
<1>1. ASSUME mode = "open" PROVE View # Closed
  <2>1. WellFormed(base) /\ Indexed
    BY <1>1 DEF IInv, Opened
  <2>2. ASSUME NEW id \in Ids PROVE Shown(id) \in Int \cup {Stream, Nothing}
    <3>1. CASE id \in object_ids
      BY <2>1, <3>1, ShownIs
    <3>2. CASE id \notin object_ids
      BY <3>2, NotShown
    <3> QED
      BY <3>1, <3>2
  <2>3. View \in [Ids -> Int \cup {Stream, Nothing}]
    BY <1>1, <2>2 DEF View
  <2> QED
    BY <2>3, RevisionAssumption
<1>2. ASSUME mode # "open" PROVE View = Closed
  BY <1>2 DEF View
<1> QED
  BY <1>1, <1>2

\* The view of a reader nothing happens to stays what it is.
LEMMA ViewStays ==
    ASSUME mode' = mode, base' = base, xref' = xref
    PROVE  View' = View
<1>1. \A id : Shown(id)' = Shown(id)
  BY SameShown
<1> QED
  BY <1>1 DEF View

\* What the index leads to is what the file means.
LEMMA ShownIsMeaning ==
    WellFormed(base) /\ Indexed /\ Spoken(base) => \A id \in Ids : Shown(id) = Meaning(base)[id]
BY ShownMeans

\* The same of the next state.
LEMMA ShownWillBeMeaning ==
    (WellFormed(base) /\ Indexed /\ Spoken(base) => \A id \in Ids : Shown(id) = Meaning(base)[id])'
BY ShownIsMeaning, PTL

\* A reader that opens shows the document.
LEMMA OpensDoc ==
    ASSUME IInv', SpokenInv', "free" \notin Writers, mode' = "open", base' = file, doc = Meaning(file)
    PROVE  View' = doc
<1>1. WellFormed(base)' /\ Indexed' /\ Spoken(base)'
  BY DEF IInv, Opened, SpokenInv
<1>2. \A id \in Ids : Shown(id)' = Meaning(file)[id]
  BY <1>1, ShownWillBeMeaning
<1>3. doc = [id \in Ids |-> Meaning(file)[id]]
  BY DEF Meaning
<1> QED
  BY <1>2, <1>3 DEF View

\* Both modules count with the same Cardinality.
LEMMA SameCardinality == \A S : Document!Cardinality(S) = Cardinality(S)
BY DEF Document!Cardinality, Cardinality

\* A save, incremental or full, is the promised save.
LEMMA SaveRefines ==
    ASSUME IInv, SpokenInv, "free" \notin Writers, Save
    PROVE  Document!Save
<1> DEFINE C == build_changes
<1> DEFINE V == [id \in Ids |-> Shown(id)]
<1>1. mode = "open" /\ WellFormed(base) /\ Opened /\ Spoken(base) /\ Indexed
  BY DEF IInv, SpokenInv, Save, Opened
<1>2. /\ mode' = mode /\ base' = base /\ xref' = xref /\ forms' = forms /\ edits' = edits
      /\ doc' = Meaning(file')
  BY DEF Save, readerVars
<1>3. PICK S : Built(C, S) /\ DOMAIN C \subseteq Ids /\ Saved(file', C)
  BY <1>1, SaveIs
<1>4. Nothing \notin Int /\ Stream \notin Int /\ Stream # Nothing
  BY RevisionAssumption
<1>5. View = V /\ View # Closed /\ View' = View
  BY <1>1, <1>2, ViewIs, ViewStays DEF View
<1> HIDE DEF C
<1>6. \A id \in Ids : doc'[id] = IF id \in DOMAIN C THEN C[id] ELSE Shown(id)
  BY <1>2, <1>3 DEF Saved
<1>7. DOMAIN C = forms \cup edits \cup S /\ S \subseteq Ids /\ Cardinality(S) = Cardinality(edits)
  BY <1>3 DEF Built
<1>8. ASSUME NEW id \in S PROVE Shown(id) = Nothing /\ C[id] = Stream /\ id \in DOMAIN C
  <2>1. id \in DOMAIN C /\ C[id] = Stream
    BY <1>3, <1>7 DEF Built
  <2>2. id \notin object_ids
    BY <1>1, <1>3, <1>4, <2>1, BuiltFacts
  <2> QED
    BY <2>1, <2>2, NotShown
<1>9. ASSUME NEW id \in forms \cup edits
      PROVE  id \in DOMAIN C /\ Shown(id) \in Int /\ C[id] = Shown(id) + Queued(id)
  BY <1>1, <1>3, <1>7 DEF Built, Opened
<1>10. ASSUME NEW id \in Ids, Shown(id) # Nothing
       PROVE  doc'[id] = IF id \in forms \cup edits
                         THEN Shown(id) + (IF id \in forms THEN 1 ELSE 0)
                                        + (IF id \in edits THEN 1 ELSE 0)
                         ELSE Shown(id)
  <2>1. CASE id \in forms \cup edits
    <3>1. doc'[id] = Shown(id) + Queued(id) /\ Shown(id) \in Int
      BY <1>6, <1>9, <2>1
    <3> QED
      BY <2>1, <3>1 DEF Queued
  <2>2. CASE id \notin forms \cup edits
    <3>1. id \notin DOMAIN C
      BY <1>7, <1>8, <1>10, <2>2
    <3> QED
      BY <1>6, <2>2, <3>1
  <2> QED
    BY <2>1, <2>2
<1>11. ASSUME NEW id \in Ids, Shown(id) = Nothing
       PROVE  doc'[id] = IF id \in S THEN Stream ELSE Nothing
  <2>1. id \notin forms \cup edits
    BY <1>4, <1>9, <1>11
  <2>2. id \in DOMAIN C <=> id \in S
    BY <1>7, <2>1
  <2> QED
    BY <1>6, <1>8, <1>11, <2>2
<1>12. {id \in {i \in Ids : Shown(i) = Nothing} : doc'[id] = Stream} = S
  BY <1>4, <1>7, <1>8, <1>11
<1>13. \A id \in Ids : V[id] = Shown(id)
  OBVIOUS
<1> HIDE DEF V
<1>14. {id \in {i \in Ids : V[i] = Nothing} : doc'[id] = Stream} = S
  BY <1>12, <1>13
<1>15. \A id \in Ids \ {i \in Ids : V[i] = Nothing} :
          doc'[id] = IF id \in forms \cup edits
                     THEN V[id] + (IF id \in forms THEN 1 ELSE 0) + (IF id \in edits THEN 1 ELSE 0)
                     ELSE V[id]
  BY <1>10, <1>13
<1>16. \A id \in {i \in Ids : V[i] = Nothing} : doc'[id] \in {Nothing, Stream}
  BY <1>11, <1>13
<1>17. View = V /\ View' = V /\ V # Closed
  BY <1>5
<1> DEFINE Saves(v, w) ==
      /\ v # Closed
      /\ \A id \in Ids \ {i \in Ids : v[i] = Nothing} :
            doc'[id] = IF id \in forms \cup edits
                       THEN v[id] + (IF id \in forms THEN 1 ELSE 0) + (IF id \in edits THEN 1 ELSE 0)
                       ELSE v[id]
      /\ \A id \in {i \in Ids : v[i] = Nothing} : doc'[id] \in {Nothing, Stream}
      /\ Cardinality({id \in {i \in Ids : v[i] = Nothing} : doc'[id] = Stream}) = Cardinality(edits)
      /\ w = v /\ forms' = forms /\ edits' = edits
<1>18. Saves(View, View')
  <2>1. Saves(V, V)
    BY <1>2, <1>7, <1>14, <1>15, <1>16, <1>17
  <2> HIDE DEF Saves
  <2> QED
    BY <2>1, <1>17
<1>19. View # Closed /\ View' = View /\ forms' = forms /\ edits' = edits
  BY <1>2, <1>5
<1>20. Document!Unused = {i \in Ids : View[i] = Nothing}
  BY DEF Document!Unused, View
<1>21. \A id : Document!Edited(id) = IF id \in forms \cup edits
                                    THEN View[id] + (IF id \in forms THEN 1 ELSE 0)
                                                  + (IF id \in edits THEN 1 ELSE 0)
                                    ELSE View[id]
  BY DEF Document!Edited, View
<1>22. \A id \in Ids \ Document!Unused : doc'[id] = Document!Edited(id)
  BY <1>18, <1>20, <1>21
<1>23. \A id \in Document!Unused : doc'[id] \in {Nothing, Stream}
  BY <1>18, <1>20
<1>24. Cardinality({id \in Document!Unused : doc'[id] = Stream}) = Cardinality(edits)
  BY <1>18, <1>20
<1>25. /\ Document!Cardinality({id \in Document!Unused : doc'[id] = Stream})
          = Cardinality({id \in Document!Unused : doc'[id] = Stream})
       /\ Document!Cardinality(edits) = Cardinality(edits)
  BY SameCardinality
<1> HIDE DEF Saves
<1> QED
  BY <1>19, <1>22, <1>23, <1>24, <1>25 DEF Document!Save, View

\* Every step is a promised one, or changes nothing that is promised.
LEMMA StepRefines ==
    ASSUME IInv, IInv', SpokenInv, SpokenInv', "free" \notin Writers, [Next]_vars
    PROVE  [Document!Next]_(Document!vars)
<1>1. Document!vars = <<doc, View, forms, edits>> /\ doc = Meaning(file)
  BY DEF Document!vars, View, IInv
<1>2. CASE Open
  <2>1. mode = "closed" /\ mode' = "walking" /\ doc' = doc /\ forms' = forms /\ edits' = edits
    BY <1>2 DEF Open, disk
  <2>2. View' = View
    BY <2>1 DEF View
  <2> QED
    BY <2>1, <2>2 DEF Document!vars, View
<1>3. CASE ReadSection \/ FindCycle
  <2>1. mode # "open" /\ mode' # "open" /\ doc' = doc /\ forms' = forms /\ edits' = edits
    BY <1>3 DEF ReadSection, FindCycle, disk
  <2>2. View' = View
    BY <2>1 DEF View
  <2> QED
    BY <2>1, <2>2 DEF Document!vars, View
<1>4. CASE Repair
  <2>1. /\ mode = "walking" /\ mode' = "open" /\ base' = base /\ doc' = doc
        /\ forms' = forms /\ edits' = edits
    BY <1>4 DEF Repair, disk
  <2>2. base' = file
    BY <2>1 DEF IInv, Walking
  <2>3. View' = doc
    BY <1>1, <2>1, <2>2, OpensDoc
  <2>4. View = Closed
    BY <2>1 DEF View
  <2>5. Document!Open
    BY <2>1, <2>3, <2>4 DEF Document!Open, View
  <2> QED
    BY <2>5 DEF Document!Next
<1>5. CASE Close
  <2>1. mode' = "closed" /\ doc' = doc /\ forms' = {} /\ edits' = {}
    BY <1>5 DEF Close, disk
  <2>2. Document!Close
    BY <2>1 DEF Document!Close
  <2> QED
    BY <2>2 DEF Document!Next
<1>6. CASE Save
  <2>1. Document!Save
    BY <1>6, SaveRefines
  <2> QED
    BY <2>1 DEF Document!Next
<1>7. CASE Revise
  <2>1. /\ mode = "closed" /\ mode' = mode /\ forms' = forms /\ edits' = edits
        /\ base' = base /\ xref' = xref
    BY <1>7 DEF Revise, readerVars
  <2>2. Revised(doc, doc')
    BY <1>7, ReviseIs DEF SpokenInv
  <2>3. View = Closed /\ View' = Closed
    BY <2>1 DEF View
  <2>4. CASE doc' = doc
    BY <2>1, <2>3, <2>4 DEF Document!vars, View
  <2>5. CASE \E id \in Ids : \/ doc[id] \in Int /\ doc' = [doc EXCEPT ![id] = @ + 1]
                             \/ doc[id] = Nothing /\ doc' = [doc EXCEPT ![id] = 0]
    <3>1. Document!Revise
      BY <2>1, <2>3, <2>5 DEF Document!Revise, View
    <3> QED
      BY <3>1 DEF Document!Next
  <2> QED
    BY <2>2, <2>4, <2>5 DEF Revised
<1>8. ASSUME NEW id \in object_ids, FillForm(id) \/ EditPage(id)
      PROVE  [Document!Next]_(Document!vars)
  <2>1. /\ mode = "open" /\ mode' = mode /\ base' = base /\ xref' = xref /\ doc' = doc
        /\ Shown(id) \in Int
        /\ \/ forms' = forms \cup {id} /\ edits' = edits
           \/ edits' = edits \cup {id} /\ forms' = forms
    BY <1>8 DEF FillForm, EditPage, Editable, readerVars, disk
  <2>2. View' = View
    BY <2>1, ViewStays
  <2>3. View # Closed
    BY <2>1, ViewIs
  <2>4. id \in Ids
    BY <2>1, OpenIds DEF IInv, Opened
  <2>5. View[id] = Shown(id)
    BY <2>1, <2>4 DEF View
  <2>6. View[id] \in Int
    BY <2>1, <2>5
  <2>7. Document!Edit(id)
    BY <2>1, <2>2, <2>3, <2>6 DEF Document!Edit, View
  <2> QED
    BY <2>4, <2>7 DEF Document!Next
<1>9. CASE UNCHANGED vars
  <2>1. mode' = mode /\ base' = base /\ xref' = xref /\ doc' = doc /\ forms' = forms /\ edits' = edits
    BY <1>9 DEF vars, readerVars
  <2>2. View' = View
    BY <2>1, ViewStays
  <2> QED
    BY <2>1, <2>2 DEF Document!vars, View
<1> QED
  BY <1>2, <1>3, <1>4, <1>5, <1>6, <1>7, <1>8, <1>9 DEF Next, Walk

\* Unless a program frees objects, an open reader shows every object as it was
\* last written, through any chain of revisions, hybrid, packed, cyclic or
\* damaged (read_xref_chain and repair_uncompressed_xref_offsets, reader.rs),
\* and a save, incremental or full (editing.rs, writer.rs), writes what was
\* opened with each queued edit applied once and nothing else changed.
THEOREM RevisionsAreKept ==
    ASSUME "free" \notin Writers
    PROVE  Spec => ImplementsRevisions
<1>1. Init => Document!Init
  BY DEF Init, Document!Init
<1>2. IInv /\ IInv' /\ SpokenInv /\ SpokenInv' /\ [Next]_vars => [Document!Next]_(Document!vars)
  BY StepRefines
<1> QED
  BY <1>1, <1>2, SpecInv, SpokenInit, SpokenStep, PTL DEF Spec, ImplementsRevisions, Document!Spec
=============================================================================
