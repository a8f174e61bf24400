SPECIFICATION FairSpec
CONSTANTS
  SeqMax = 3
  RetryLimit = 3
  MaxPending = 1
  MaxStrays = 2
INVARIANTS SlotsAccounted WindowRespected
PROPERTIES DiesOnlyOfLateConfirmation GivenUpAfterRetries DeliverySpec EveryPacketSettles
CHECK_DEADLOCK FALSE
