\* An answer that TCP delivers in two reads.
SPECIFICATION SimSpec
CONSTANTS
  Conns = {c1}
  IMEIs = {a}
  Malformed = {}
  Packets <- OnePoint
  Cuts = {"whole"}
  MaxPackets = 1
  MaxOpenConns = 1
CHECK_DEADLOCK FALSE
INVARIANT RefusedMeansNotAcked
