CONSTANTS
  LinkSegCount <- MC_LinkSegCount
  SegTimes <- MC_SegTimes
  MaxInSeg = 2
  Capacities <- MC_Capacities
SPECIFICATION Spec
INVARIANTS TypeOK MergeIsOrderedPermutation TopCIsLeastFirst
CHECK_DEADLOCK FALSE
