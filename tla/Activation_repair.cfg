CONSTANTS
  Default = v0
  Binaries = {v0, v1, v2}
  Repairs = {v2}
  MaxIncidents = 2
  Absent = Absent
  RepairLimit = 1
  CrashLimit = 1
  MaxRequests = 1
SPECIFICATION RuntimeSpec
INVARIANT RepairNotRefused
CHECK_DEADLOCK FALSE
