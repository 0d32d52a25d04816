\* One client with a packet, good or fatal: what shutdown waits for, under the scheduler's fairness.
SPECIFICATION FairServerSpec
CONSTANTS
  Conns = {c1}
  IMEIs = {a}
  Packets <- GoodOrPanics
  Cuts = {"whole"}
  MaxPackets = 1
  MaxOpenConns = 1
CHECK_DEADLOCK FALSE
PROPERTIES
  StopReturns
  ListenerGoes
  ConnectedIsHandled
