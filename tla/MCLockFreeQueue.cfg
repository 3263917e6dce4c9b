CONSTANTS
  c1 = c1
  c2 = c2
  k1 = k1
  k2 = k2
  k3 = k3
  NULL = NULL
  Clients <- MCClients
  Commands <- MCCommands
SPECIFICATION FairSpec
INVARIANTS
  QueueTypeOK
  OwnedOnce
  ChamberEmptyBetweenBatches
  HeldAreUnqueued
PROPERTIES
  ImplementsChannel
  SubmittedIsExecuted
