CONSTANTS
  d1 = d1
  s1 = s1
  c1 = c1
  r1 = r1
  None = None
  Deletes = {d1}
  Upgrades = {d1}
  Commands = {s1}
  Risky = {s1}
  Calls = {c1}
  Reads = {r1}
  Plans <- OnePlan
  Projects = {2}
  MaxGoals = 2
  MaxRounds = 1
  MaxQueue = 0
  MaxEvents = 2
SPECIFICATION Spec
INVARIANT
  OncePerApproval
  NothingForgotten
PROPERTY
  CommandsInContext
CHECK_DEADLOCK FALSE
