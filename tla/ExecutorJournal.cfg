\* One run of up to two steps, two attempts of two workers, tools that come and
\* go, and answers that other runs of the agent put into the cache.
SPECIFICATION Spec
CONSTANTS
  Run = {r1}
  Worker = {w1, w2}
  Chunk = {k1}
  NoSnapshot = {none}
  Question = {"own", "other"}
  Similar <- AllSimilar
  Response <- Calls
  OtherRun = {"past"}
  OtherAnswers <- Others
  Tooling = {TRUE, FALSE}
  MaxSteps = 2
  MaxTokens = 2
  MaxAttempts = 2
SYMMETRY Symmetry
INVARIANTS NoConflict OneLostCallPerAttempt MemoryMatchesJournal ContextWhileOpen
PROPERTIES ImplementsLog
