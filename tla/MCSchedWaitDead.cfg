SPECIFICATION Spec
CONSTANTS
  MaxProcesses = 4
  PreemptTicks = 2
  MaxNap = 1
  ClockSpan = 2
  ExitCodes = {0}
  MemoryRunsOut = TRUE
  NULL = NULL
  Junk = Junk
INVARIANT NobodyWaitsForTheDead
