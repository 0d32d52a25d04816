\* Two clients that only authenticate: boot, accept, stop and their races.
SPECIFICATION ServerSpec
CONSTANTS
  Conns = {c1, c2}
  IMEIs = {a}
  Packets <- OnePoint
  Cuts = {"whole"}
  MaxPackets = 0
  MaxOpenConns = 1
CHECK_DEADLOCK FALSE
SYMMETRY ConnSymmetry
INVARIANTS
  ServerTypeOK
  StopDrainsHandlers
  OneLeftBehind
PROPERTY HandlersRefine
