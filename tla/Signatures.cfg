SPECIFICATION Spec
CONSTANTS
  Encrypted = FALSE
  PageCount = 1
  Reservations = {0, 2, 3}
  MaxRangeField = 30
  CmsSize = 2
  Identities <- MCIdentities
  IssuedBy <- MCIssuedBy
  ExpiredCerts = {"self"}
  AnchorSets <- MCAnchorSets
  Materials <- MCMaterials
  Originals <- MCOriginals
  MaxCalls = 4
CHECK_DEADLOCK FALSE
INVARIANTS
    VerdictIsTrue
    TrustIsEarned
    LevelIsEarned
PROPERTIES
    PriorBytesKept
