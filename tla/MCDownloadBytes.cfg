SPECIFICATION FairSpec
CONSTANTS
  d1 = d1
  d2 = d2
  d3 = d3
  Downloads = {d1, d2}
  Limit = 1
  Size = 2
  MaxFaults = 0
PROPERTY InterruptedNotErased
