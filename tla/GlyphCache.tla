------------------------------ MODULE GlyphCache ------------------------------
(***************************************************************************)
(* The glyph outline cache of one render task: the methods of `GlyphCache` *)
(* (crates/engine/src/render/glyph_cache.rs) on the two maps of GlyphMaps. *)
(* Each render owns its cache, so a method is one step.                    *)
(***************************************************************************)
EXTENDS GlyphMaps

vars == <<glyph, stamp, order, next_seq, found>>

TypeOK ==
    /\ glyph \in [GlyphKeys -> Glyphs \cup {NoGlyph}]
    /\ stamp \in [GlyphKeys -> {NoStamp} \cup Stamps]
    /\ order \in [Stamps -> GlyphKeys \cup {NoKey}]
    /\ next_seq \in 0..MaxSeq
    /\ \A k \in GlyphKeys : stamp[k] < next_seq
    /\ found \in Glyphs \cup {NoGlyph}

Init ==
    /\ glyph = [k \in GlyphKeys |-> NoGlyph]
    /\ stamp = [k \in GlyphKeys |-> NoStamp]
    /\ order = [s \in Stamps |-> NoKey]
    /\ next_seq = 0
    /\ found = NoGlyph

-----------------------------------------------------------------------------
\* Faulty variant: the old stamp stays in the index.
TouchLeavesOld(k) ==
    /\ next_seq < MaxSeq
    /\ order' = [order EXCEPT ![next_seq] = k]
    /\ stamp' = [stamp EXCEPT ![k] = next_seq]
    /\ next_seq' = next_seq + 1

\* Move k to the most recent end: its old stamp out of the index, a new one in.
Touch(k) ==
    /\ next_seq < MaxSeq
    /\ order' = [order EXCEPT ![stamp[k]] = NoKey, ![next_seq] = k]
    /\ stamp' = [stamp EXCEPT ![k] = next_seq]
    /\ next_seq' = next_seq + 1

\* Faulty variant: a hit does not refresh recency (insertion-order eviction).
HitUntouched(k) ==
    /\ k \in Cached
    /\ found' = glyph[k]
    /\ UNCHANGED <<glyph, stamp, order, next_seq>>

Hit(k) ==
    /\ k \in Cached
    /\ Touch(k)
    /\ found' = glyph[k]
    /\ UNCHANGED glyph

\* `get` on a miss leaves recency alone.
Miss(k) ==
    /\ k \notin Cached
    /\ found' = NoGlyph
    /\ UNCHANGED <<glyph, stamp, order, next_seq>>

\* `insert` over a key that is there: replace the value, never evict.
Overwrite(k, g) ==
    /\ k \in Cached
    /\ Touch(k)
    /\ glyph' = [glyph EXCEPT ![k] = g]
    /\ UNCHANGED found

\* The first entry of the index, if it has one.
First == {s \in Stamps : order[s] # NoKey /\ \A r \in Stamps : order[r] # NoKey => s <= r}

\* The stamps `insert` takes out of the index to make room.
Evicted == IF Cardinality(Cached) >= MaxEntries THEN First ELSE {}

\* `insert` of a new key: evict at capacity, then add it to both maps.
Insert(k, g) ==
    /\ k \notin Cached
    /\ next_seq < MaxSeq
    /\ LET gone == {order[s] : s \in Evicted}
       IN  /\ order' = [s \in Stamps |-> IF s = next_seq THEN k
                                         ELSE IF s \in Evicted THEN NoKey ELSE order[s]]
           /\ glyph' = [x \in GlyphKeys |-> IF x = k THEN g ELSE IF x \in gone THEN NoGlyph
                                                            ELSE glyph[x]]
           /\ stamp' = [x \in GlyphKeys |-> IF x = k THEN next_seq
                                       ELSE IF x \in gone THEN NoStamp ELSE stamp[x]]
    /\ next_seq' = next_seq + 1
    /\ UNCHANGED found

\* `clear` empties both maps and goes on counting.
Clear ==
    /\ Cached # {}
    /\ glyph' = [k \in GlyphKeys |-> NoGlyph]
    /\ stamp' = [k \in GlyphKeys |-> NoStamp]
    /\ order' = [s \in Stamps |-> NoKey]
    /\ UNCHANGED <<next_seq, found>>

Next ==
    \/ \E k \in GlyphKeys : Hit(k) \/ Miss(k)
    \/ \E k \in GlyphKeys, g \in Glyphs : Overwrite(k, g) \/ Insert(k, g)
    \/ Clear

Spec == Init /\ [][Next]_vars
=============================================================================
