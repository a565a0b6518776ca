SPECIFICATION FairSpec
CONSTANTS
  MaxProcesses = 4
  PreemptTicks = 2
  MaxNap = 1
  ClockSpan = 2
  ExitCodes = {0}
  MemoryRunsOut = TRUE
  NULL = NULL
  Junk = Junk
INVARIANTS
  PidIsSlot
  SleepQueueExact
  SweepMissesNobody
  WaiterStaysBlocked
  ImpossiblePanics
  RunsAsItself
  ForkReturnsTwice
  NoCurrentOnlyWhenScheduling
  Consistent
PROPERTIES
  DeadStaysDead
  SleepsUntilDue
  WaitsForItsChild
  Implements
  ReadyRuns
