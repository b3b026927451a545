SPECIFICATION DutySpec
CONSTANTS
  Host = h
  Seats = {s1, s2}
  Need = 1
  Agreeing = 2
  MaxTries = 1
  MaxLag = 2
  MaxFaults = 1
INVARIANT EveryNamedSeatHolds
CHECK_DEADLOCK FALSE
