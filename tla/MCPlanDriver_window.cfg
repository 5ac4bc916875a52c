CONSTANTS
  t1 = t1
  t2 = t2
  t3 = t3
  d1 = d1
  d2 = d2
  g1 = g1
  None = None
  Tasks = {t1, t2, t3}
  Goals = {g1}
  Top = g1
  Priorities = {1}
  Drivers = {d1}
  SpecLists <- Lists
  Outside = {}
  Leftover = {"none"}
  MaxCrashes = 1
SPECIFICATION LiveSpec
PROPERTY
  KillWindowAdopted
CHECK_DEADLOCK FALSE
