---------------------------- MODULE MCGlyphCache ----------------------------
(* GlyphCache for model checking: keys and glyphs are interchangeable. *)
EXTENDS GlyphCache, TLC

Symmetry == Permutations(GlyphKeys) \cup Permutations(Glyphs)
=============================================================================
