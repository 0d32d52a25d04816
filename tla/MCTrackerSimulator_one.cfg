\* One simulator, two packets of two points, each read whole or cut in its header, under the
\* fairness of both processes.
SPECIFICATION FairSimSpec
CONSTANTS
  Conns = {c1}
  IMEIs = {a, b}
  Malformed = {b}
  Packets <- TwoPoints
  Cuts = {"header", "whole"}
  MaxPackets = 2
  MaxOpenConns = 1
CHECK_DEADLOCK FALSE
INVARIANTS
  SimTypeOK
  LoggedPointsAccountedFor
PROPERTIES
  SimulatorsAreClients
  WaitsEnd
  SimulatorExits
