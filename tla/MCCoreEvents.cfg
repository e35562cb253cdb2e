CONSTANTS
  p1 = p1
  p2 = p2
  Processors = {p1, p2}
  MaxEntries = 2
SPECIFICATION Spec
INVARIANTS FlagsMatchCalls UnflushedIsAnnounced
PROPERTY LoopRunsItsProcessors
SYMMETRY Symmetric
