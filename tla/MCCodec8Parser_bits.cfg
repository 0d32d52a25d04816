SPECIFICATION Spec
CONSTANTS
  IMEIs <- Digits
  Packets <- GearPackets
  BufferSize = 123
  ZoneInfo = TRUE
INVARIANT FieldsAsAnnotated
