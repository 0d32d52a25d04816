\* A signal that arrives while Start is listening.
SPECIFICATION ServerSpec
CONSTANTS
  Conns = {c1}
  IMEIs = {a}
  Packets <- OnePoint
  Cuts = {"whole"}
  MaxPackets = 0
  MaxOpenConns = 1
CHECK_DEADLOCK FALSE
PROPERTY NoAcceptAfterClose
