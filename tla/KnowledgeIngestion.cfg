SPECIFICATION FairSpec
CONSTANTS
  handbook = handbook
  NumJobs = 3
  Key = {handbook}
  Version = {1, 2}
  KeyOf <- OneKey
  VersionOf <- NewerBetween
  Worker = {w1, w2}
  NoJob = 0
  NoWorker = NoWorker
  MAX_INGESTION_ATTEMPTS = 2
  MaxFaults = 1
INVARIANTS
  SourcesConsistent
PROPERTIES
  ImplementsContract
  JobsEnd
