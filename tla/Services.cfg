CONSTANTS
  Conversations = {"c"}
  Messages = {m1, m2}
  Of <- OneChat
  Scopes = {1, 2}
  MaxOutstanding = 2
  MaxSends = 1
  MaxRestarts = 1
  StepLimits = {0, 2}
  Budgets = {0, 2}
  Prices = {1, 2}
  MaxModelCalls = 4
  MaxEvents = 2
  MaxSaves = 2
  MaxToolCalls = 2
  Binaries = {"v0", "v1", "v2"}
  Default = "v0"
  Repairs = {"v2"}
  MaxIncidents = 2
  RepairLimit = 1
  CrashLimit = 1
  MaxRequests = 1
  Experimenters = {"w1", "w2"}
  Experiments = {"e"}
  NoOne = NoOne
  None = None
  Nobody = Nobody
  Absent = Absent
  Requests = {h1, h2}
  Runs = {r1, r2}
  Chats = {c1}
  Limit = 1
SPECIFICATION Spec
INVARIANT
  RuntimeSound
  PromotionSound
  StudioSound
  SettledIsCurrent
PROPERTY
  FollowUpsInTurn
  CallsInBudget
CHECK_DEADLOCK FALSE
