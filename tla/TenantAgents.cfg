SPECIFICATION FairSpec
CONSTANTS
  NumVersions = 3
  Statuses = {"stable", "disabled"}
  Channels = {"stable"}
  Percentages = {10, 100}
  Bucket = 50
  MaxRollouts = 3
  MaxChanges = 3
  NumAgents = 1
  Service = {crm}
  Declared <- OneMoreEach
  Required <- OneMoreEach
  Runnable <- AllButLast
  Person = {ann}
  BatchSize = 1
  MaxRequests = 2
INVARIANTS
  HistoryExplainsPin
  ActiveIsBound
  PinIsRunnable
PROPERTIES
  AutomaticFollowsOffer
