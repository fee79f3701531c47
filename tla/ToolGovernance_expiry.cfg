\* ADR 0006 against the sweeper: an approval that expires while its run is queued.
SPECIFICATION Spec
CONSTANTS
  Run = {r1}
  Worker = {w1, w2}
  NumKeys = 1
  Forced <- ForcedContracts
  Contracts <- TwoForTheFirst
  MaxRunAttempts = 2
  MaxLosses = 2
INVARIANT ExpiryCancelsRun
CHECK_DEADLOCK FALSE
