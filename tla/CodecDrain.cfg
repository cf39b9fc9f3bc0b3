\* The user's thread drains the stream while a picture is in Input.
SPECIFICATION Spec
CONSTANTS
  Buffers = {b1, b2}
  NULL = NULL
  DecodeContextCount = 1
  MaxReferences = 0
  MaxInputs = 2
  MaxFailures = 0
  MaxDrains = 1
  QuietDrain = FALSE
PROPERTIES SealedMeansLast
SYMMETRY Alike
CHECK_DEADLOCK FALSE
