\* Two models, whose embed and index tasks run side by side.
CONSTANTS
  Models = {m1, m2}
  Workers = {w1, w2}
  MaxRequests = 2
  MaxCrashes = 0
SPECIFICATION RagSpec
INVARIANT ReadyIsIndexed
PROPERTY OneModelFailsAlone
SYMMETRY Symmetry
\* All messages are consumed and no handler is called any more.
CHECK_DEADLOCK FALSE
