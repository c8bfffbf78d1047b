SPECIFICATION FairSpec
CONSTANTS
  Consumers = {c1, c2}
  Items = {d1, d2}
  NoData = NoData
  MaxPush = 4
  Spurious = TRUE
INVARIANTS
  TypeOK
  NoLostWakeup
  DisabledHasNoSleeper
PROPERTIES
  IsFifo
  DisableReleases
  SleeperIsServed
