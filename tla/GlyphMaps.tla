------------------------------- MODULE GlyphMaps -------------------------------
(***************************************************************************)
(* The two maps of a `GlyphCache` (crates/engine/src/render/               *)
(* glyph_cache.rs): a HashMap from key to glyph and recency stamp, and a   *)
(* BTreeMap from stamp to key whose first entry is the least recently      *)
(* used.  What they hold, and what must be true of them together; the      *)
(* methods that keep it true are in GlyphCache.                            *)
(***************************************************************************)
EXTENDS Integers, FiniteSets

CONSTANTS
    GlyphKeys,   \* GlyphCacheKey: font, glyph, size, sub-pixel offset
    Glyphs,      \* CachedGlyph
    NoGlyph,     \* no entry
    NoKey,       \* no key under a stamp
    MaxEntries,  \* max_entries
    MaxSeq       \* bound on the stamps handed out (a u64 in the code)

\* with_default_capacity keeps 2048 entries.  A cache made with no room at all
\* returns from `insert` at once and stays empty: it has no behaviour to check.
ASSUME CacheAssumption ==
    /\ MaxEntries \in Nat \ {0}
    /\ MaxSeq \in Nat
    /\ NoGlyph \notin Glyphs
    /\ NoKey \notin GlyphKeys
    /\ IsFiniteSet(GlyphKeys)

VARIABLES
    glyph,     \* entries[k].0, NoGlyph when k is not in `entries`
    stamp,     \* entries[k].1, NoStamp when k is not in `entries`
    order,     \* order[s]: the key under stamp s, NoKey when there is none
    next_seq,  \* the next stamp
    found      \* what the last `get` returned

NoStamp == -1
Stamps == 0..(MaxSeq - 1)

\* The keys of `entries`.
Cached == {k \in GlyphKeys : glyph[k] # NoGlyph}

-----------------------------------------------------------------------------
\* The two maps agree: the index holds exactly the stamps of the entries.  An
\* entry the index lost could never be evicted; an old stamp it kept would evict
\* a key that was just used.
IndexExact ==
    /\ \A k \in GlyphKeys : k \in Cached <=> stamp[k] # NoStamp
    /\ \A k \in GlyphKeys, s \in Stamps : order[s] = k <=> stamp[k] = s

\* The cache holds at most max_entries glyphs.
Bounded == Cardinality(Cached) <= MaxEntries

Lru == INSTANCE LruCache WITH
    Keys <- GlyphKeys,
    Values <- Glyphs,
    NoValue <- NoGlyph,
    Capacity <- MaxEntries,
    held <- glyph,
    before <- {p \in GlyphKeys \X GlyphKeys : p[1] \in Cached /\ p[2] \in Cached
                                      /\ stamp[p[1]] < stamp[p[2]]},
    answer <- found

\* The cache is a least-recently-used cache: "genuinely least-recently-used, not
\* merely the least-recently-inserted".
ImplementsLru == Lru!Spec
================================================================================
