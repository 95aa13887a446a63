\* Two pollers, two blocks, two faults of any kind, two pairs.
CONSTANTS
  p1 = p1  p2 = p2  s1 = s1  s2 = s2  s3 = s3  f1 = f1
  old = old  new = new
  Pollers = {p1, p2}
  Swaps = {s1, s2, s3}
  Fills = {f1}
  Large = {s1}
  Pairs = {old, new}
  PairOf <- MCPairOf
  Factory = {old, new}
  Synced = {old}
  Tip = 2
  MaxBranch = 1
  Block <- MCBlock
  MaxRetries = 1
  MaxFaults = 2
SPECIFICATION Spec
CHECK_DEADLOCK FALSE
INVARIANTS NothingSkipped HashTellsRows CountedAtMostOnce RepairedTotals
PROPERTY CatchesUp
