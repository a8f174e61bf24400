SPECIFICATION FairSpec
CONSTANTS
  Radios = {r1}
  LRRPRequests = 1
  LRRPRetryCount = 2
  BMSRetryCount = 2
  Configurations <- MCConfigurations
  NONE = none
  MaxRegistrations = 2
  MaxDeregistrations = 1
  MaxRefusals = 1
  MaxPending = 1
INVARIANTS LRRPSendsBounded DiscoveriesBounded RegistrationFollowsRadio FewSentToTheGone
PROPERTIES EveryRequestEnds
