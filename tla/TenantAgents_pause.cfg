SPECIFICATION FairSpec
CONSTANTS
  NumVersions = 3
  Statuses = {"stable", "disabled"}
  Channels = {"stable"}
  Percentages = {100}
  Bucket = 50
  MaxRollouts = 1
  MaxChanges = 1
  NumAgents = 1
  Service = {crm}
  Declared <- OneMoreEach
  Required <- OneMoreEach
  Runnable <- AllButLast
  Person = {ann}
  BatchSize = 1
  MaxRequests = 2
INVARIANTS
  OperatorPauseStands
