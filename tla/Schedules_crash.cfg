CONSTANTS
  None = None
  Jobs = {s1}
  Conversations = {c1, c2, c3}
  Pool = {c1, c2, c3}
  Manual = {}
  MaxOccurrences = 2
  MaxFaults = 1
SPECIFICATION Spec
INVARIANT
  NoOverlap
CHECK_DEADLOCK FALSE
