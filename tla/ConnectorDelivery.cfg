SPECIFICATION Spec
CONSTANTS
  Requests = {r1}
  FirstGrants = 1
  MaxGrants = 2
  MaxUses = 1
  MaxLeaks = 1
  MaxSlips = 1
  Keys = {k1}
  MaxAttempts = 2
CHECK_DEADLOCK FALSE
INVARIANT GrantsHold
INVARIANT LaneInv
PROPERTY DeliveriesSettle
PROPERTY EveryRunEnds
