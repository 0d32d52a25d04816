SPECIFICATION Spec
CONSTANTS
  IMEIs <- Digits
  Packets <- AllPackets
  BufferSize = 123
  ZoneInfo = TRUE
INVARIANT PacketsRoundTrip
