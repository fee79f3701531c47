\* One run of two calls under fairness of time and of the sweeper: two workers, one crash-prone attempt too many, tools
\* that are denied, forced and re-registered at any moment.
SPECIFICATION FairSpec
CONSTANTS
  Run = {r1}
  Worker = {w1, w2}
  NumKeys = 2
  Forced <- ForcedContracts
  Contracts <- TwoForTheFirst
  MaxRunAttempts = 2
  MaxLosses = 2
INVARIANTS
  ApprovalMatchesRun
  ApprovalMatchesCall
  ForcedNeedsApproval
  ResultOfLastStart
PROPERTIES
  NoIllegalTransition
  ImplementsContract
  WaitsEnd
CHECK_DEADLOCK FALSE
