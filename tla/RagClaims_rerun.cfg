CONSTANTS
  Models = {m1}
  Workers = {w1, w2}
  MaxRequests = 2
  MaxCrashes = 0
SPECIFICATION RagFairSpec
PROPERTY StartedExtractIsTaken
CHECK_DEADLOCK FALSE
