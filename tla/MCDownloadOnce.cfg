SPECIFICATION FairSpec
CONSTANTS
  d1 = d1
  d2 = d2
  d3 = d3
  Downloads = {d1, d2, d3}
  Limit = 1
  Size = 2
  MaxFaults = 1
INVARIANT CopiesWithinLimit
PROPERTY TicketSpec
PROPERTY ErasedOnlySpent
PROPERTY NotStuckAtLimit
