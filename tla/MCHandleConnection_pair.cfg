\* Two trackers at once, one packet each, sharing a pool of one connection.
SPECIFICATION Spec
CONSTANTS
  Conns = {c1, c2}
  IMEIs = {a, b}
  Packets <- TwoPoints
  Cuts = {"whole"}
  MaxPackets = 1
  MaxOpenConns = 1
SYMMETRY ConnSymmetry
CHECK_DEADLOCK FALSE
INVARIANTS
  OneIdentityPerConnection
  PoolSlotsBalanced
  WaitGroupCounts
