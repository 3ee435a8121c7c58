SPECIFICATION Spec
CONSTANTS
    Documents <- MCDocuments
    MaxFormDepth = 2
    TileCap = 2
    PollInterval = 2
INVARIANTS
    PromptlyCancelled
    OkIsWholePage
    VectorsShowContent
PROPERTIES
    NestedStreamsAreContained
    Returns
