SPECIFICATION Spec
CONSTANTS
  IMEIs <- Digits
  Packets <- CutPackets
  BufferSize = 123
  ZoneInfo = TRUE
INVARIANTS
  ParserTypeOK
  CutsClassified
  RecordsInStep
  RowsAsMeasured
  RowsKeepElements
  OneBitOneField
