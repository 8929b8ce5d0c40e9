\* The TLVs overwrite the prefix.
SPECIFICATION Spec
CONSTANTS
  Prefix <- FourBytes
  Cap = 12
  Tasks <- OneTask
  Bytes <- OneByte
INVARIANT HealthReadsBack
CHECK_DEADLOCK FALSE
