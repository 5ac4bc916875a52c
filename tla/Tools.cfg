CONSTANTS
  None = None
  Conversations = {"c1", "c2"}
  Programs = {"p", "q"}
  Arguments = {"a"}
  MaxSaves = 2
  MaxEdits = 1
  MaxCalls = 4
  MaxEvents = 2
  MaxEmitted = 3
  Shared = "shared"
  Elements = {"a", "b"}
  Seeds = {1, 2}
  MaxListings = 2
  MaxChanges = 1
  MaxInputs = 2
  MaxRecycled = 2
  Bytes = {"a", "b"}
  MaxPublications = 4
  MaxForeign = 2
  Probe = "probe"
  MaxSessions = 2
  MaxRequests = 2
  MaxStarts = 3
  WebPages = {"x1", "y"}
  Videos = {"y"}
  HostOf <- HostOfPage
  MaxEvidence = 4
  Runs = {"r1", "r2"}
  Paths = {"p", "q"}
  MaxBodies = 2
  Chars = {"a", "n"}
  NewLine = "n"
  Buffer = 3
  MaxLength = 5
  MaxNeedle = 3
  MaxMatches = 2
SPECIFICATION Spec
INVARIANT
  RunsAsTested
  OwnAnswers
  ClicksListed
  InputAccounted
  Published
  CallsAnswered
  ContactsBounded
  FilesExact
CHECK_DEADLOCK FALSE
