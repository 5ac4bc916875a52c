CONSTANTS
  g1 = g1
  g2 = g2
  None = None
  Goals = {g1, g2}
  Conversations = {k1, k2, k3}
  Pool = {k1, k2, k3}
  k1 = k1
  k2 = k2
  k3 = k3
  DepChoices <- Few
  Exclusive = {g1}
  Verified = {g2}
  Shared = {}
  Manual = {"recheck", "stop", "resume", "followup", "delete", "edits"}
  MaxFaults = 2
SPECIFICATION Spec
INVARIANT
  NeverReplayed
  InOrder
CHECK_DEADLOCK FALSE
