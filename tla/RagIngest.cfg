\* One model: two handlers called at any time, one process or
\* transaction lost.
CONSTANTS
  Models = {m1}
  Workers = {w1, w2}
  MaxRequests = 2
  MaxCrashes = 1
SPECIFICATION RagFairSpec
INVARIANTS CompletedHasInputs CleanedStaysClean
PROPERTIES TasksAdvance IngestSettles
\* All messages are consumed and no handler is called any more.
CHECK_DEADLOCK FALSE
