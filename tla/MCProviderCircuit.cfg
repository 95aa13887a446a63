SPECIFICATION Spec
CONSTANTS
  Callers = {c1, c2, c3}
  Concurrency = 2
  Rate = 2
  Burst = 4
  Base = 1
  Cap = 2
  RetryAfters = {0, 2}
  MaxTime = 2
INVARIANTS PermitsCounted OneProbe CountedOnce
PROPERTIES OnlyProbeCloses CooldownHolds ProbeEnds
