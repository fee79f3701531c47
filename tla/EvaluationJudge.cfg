\* One job with a baseline and one without, three workers of two configurations.
SPECIFICATION FairSpec
CONSTANTS
  w1 = w1
  w2 = w2
  w3 = w3
  old = old
  new = new
  Job = {j1, j2}
  Compared = {j1}
  NumCases = 2
  Worker = {w1, w2, w3}
  Config = {old, new}
  Profile <- Profiles
  NoJob = NoJob
  Nobody = Nobody
  NoConfig = NoConfig
  MaxJudgeAttempts = 2
INVARIANTS ClaimsAccounted OneConfig
PROPERTIES ImplementsContract JobsEnd
CHECK_DEADLOCK FALSE
