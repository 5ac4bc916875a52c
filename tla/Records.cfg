CONSTANTS
  Ids = {i1, i2}
  Intents = {m1, m2}
  Altered = Altered
  Nothing = Nothing
  MaxArrivals = 2
  Costs = {0, 1, 2}
  TokenLimits = {1, 3}
  CanCrash = TRUE
  MaxSpend = 9
  Programs = {"cargo", "ls"}
  DefaultShell = {"ls"}
  Arguments = {"test", "fix"}
  Names = {"PATH_X"}
  Hosts = {"h"}
  Dirs = {"d"}
  MaxDepth = 3
  MaxWords = 1
  MaxAllowances = 2
  Tasks = {t1, t2, t3}
  Goals = {g1, g2}
  Priorities = {1}
  None = None
  Children = {"c1", "c2", "c3"}
  Limits = {2, 3}
  Grants = {0, 1, 2}
  Contents = {"a", "b"}
  MaxWrites = 3
  MaxDeaths = 1
  MaxDays = 1
  Turns = {"t1", "t2"}
  Statements = {"a", "b"}
  MaxBeliefs = 3
  MaxOps = 1
  MaxAge = 1
  MaxAnswers = 3
  MaxReadFaults = 1
SPECIFICATION RecordsSpec
INVARIANT
  SentOnceAsPinned
  VerifiedMeansReceived
  CallsWithinCapacity
  AttemptsLinked
  NeverOvercharged
  NeverGrows
  KnowledgeSound
CHECK_DEADLOCK FALSE
