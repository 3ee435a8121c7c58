CONSTANTS
    GlyphKeys = {k1, k2, k3, k4}
    Glyphs = {g1, g2}
    NoGlyph = NoGlyph
    NoKey = NoKey
    MaxEntries = 3
    MaxSeq = 9
SYMMETRY Symmetry
SPECIFICATION Spec
INVARIANTS
    IndexExact
PROPERTIES
    ImplementsLru
