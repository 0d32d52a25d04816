\* A machine without the database of time zones.
SPECIFICATION Spec
CONSTANTS
  IMEIs <- Digits
  Packets <- GearPackets
  BufferSize = 123
  ZoneInfo = FALSE
INVARIANT GoodRecordsAreParsed
