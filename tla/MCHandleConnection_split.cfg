\* A good packet that TCP delivers in two reads.
SPECIFICATION Spec
CONSTANTS
  Conns = {c1}
  IMEIs = {a}
  Packets <- TwoPoints
  Cuts <- Parts
  MaxPackets = 1
  MaxOpenConns = 2
CHECK_DEADLOCK FALSE
INVARIANT GoodPacketsAreAnswered
