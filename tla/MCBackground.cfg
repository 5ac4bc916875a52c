CONSTANT
  Jobs = {"s1"}
  Conversations = {"r1", "r2", "r3"}
  Pool = {"r1", "r2", "r3"}
  Manual = {"stop", "send", "delete"}
  MaxOccurrences = 2
  MaxFaults = 2
  None = None
SPECIFICATION BackgroundSpec
INVARIANT
  JobsApart
  RunsAccounted
PROPERTY
  GoalsDrain
  RunsSettle
  PlanSettles
  TurnEnds
  CallReturns
  DownIsNoticed
CHECK_DEADLOCK FALSE
