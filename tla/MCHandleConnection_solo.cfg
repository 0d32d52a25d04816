\* One tracker, two packets of any form, every cut, a pool of one connection, under the fairness of
\* the scheduler.
SPECIFICATION FairSpec
CONSTANTS
  Conns = {c1}
  IMEIs = {a}
  Packets <- AllForms
  Cuts <- Parts
  MaxPackets = 2
  MaxOpenConns = 1
CHECK_DEADLOCK FALSE
INVARIANTS
  TypeOK
  AckedPacketsAccountedFor
  BatchesAreAtomic
  RawPayloadsIntact
  NoRawBufferForgotten
  StoreFollowsPublish
  AnswersMatchRequests
PROPERTIES
  ImplementsLedger
  RequestsSettle
  RawSavesSettle
  ClosedPeersAreReleased
