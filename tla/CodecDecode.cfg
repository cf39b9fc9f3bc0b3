\* Pictures, fields and references, failures and drains between two pictures.
SPECIFICATION Spec
CONSTANTS
  Buffers = {b1, b2}
  NULL = NULL
  DecodeContextCount = 2
  MaxReferences = 1
  MaxInputs = 3
  MaxFailures = 1
  MaxDrains = 2
  QuietDrain = TRUE
INVARIANTS TypeOK CompleteWhenOutput ReferencesCounted MarkerNotKept
PROPERTIES  SealedMeansLast
SYMMETRY Alike
CHECK_DEADLOCK FALSE
