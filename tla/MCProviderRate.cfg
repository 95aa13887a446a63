SPECIFICATION Spec
CONSTANTS
  Callers = {c1, c2}
  Concurrency = 2
  Rate = 2
  Burst = 2
  Base = 1
  Cap = 2
  RetryAfters = {0, 2}
  MaxTime = 2
INVARIANT WithinRate
