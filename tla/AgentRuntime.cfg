CONSTANTS
  None = None
  Writes = {w1}
  Reads = {rd}
  Shells = {sh}
  Opaque = {pt}
  Policies = {{w1, rd, sh, pt}, {w1}}
  MaxSteps = 2
  InitialLimit = 2
  Limits = {1, 3}
  Trips = {1}
SPECIFICATION FairSpec
INVARIANT
  CallsReserved
  VerifiedMeansEvidence
PROPERTY
  ImplementsAtMostOnce
  DriveReturns
