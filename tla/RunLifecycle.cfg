\* One run, two workers that publish, claim, reclaim, recover and die, and one
\* fault, under fairness: whatever the fault does, the run ends.
SPECIFICATION FairSpec
CONSTANTS
  Run = {r1}
  NoRun = NoRun
  Worker = {w1, w2}
  NoWorker = NoWorker
  MaxJobs = 4
  MaxRunAttempts = 2
  MaxPublishAttempts = 2
  MaxParks = 2
  MaxFaults = 1
INVARIANTS OwnerHoldsReceipt OneExecutor NoSpuriousAttempt QueuedRunHasJob
PROPERTIES ReceiptsFinal ImplementsContract RunsSettle CancelsHappen
CHECK_DEADLOCK FALSE
