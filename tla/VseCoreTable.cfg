\* Two cores, any of them online when an array is allocated, and a selection: 300 ticks
\* do not fit the byte they are stored in, and what fits is above the threshold.
SPECIFICATION FairSpec
CONSTANTS
  Possible = {0, 1}
  Context = {s1}
  Garbage = {0, 200}
  Burst = {300}
  MaxBusy = 300
INVARIANTS
  TypeOK
  ArraysRespected
  LoadIsLastPeriod
  SelectionPassesOverMarked
PROPERTIES
  UpdatesRecur
CHECK_DEADLOCK FALSE
